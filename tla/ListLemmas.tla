------------------------------ MODULE ListLemmas ------------------------------
(****************************************************************************)
(* Facts about least numbers, induction over a set, insertion into and      *)
(* removal from a sequence, and the flattening of a sequence of sequences,  *)
(* that the proofs about several modules use.                               *)
(* Induction is over a set of numbers here: the theorems of the library     *)
(* take an operator, which the provers cannot instantiate.                  *)
(****************************************************************************)
EXTENDS Integers, Sequences, SequencesExt, SequenceTheorems, WellFoundedInduction, TLAPS

(* The least number of a set of naturals. *)
LEMMA MinNat ==
  ASSUME NEW S \in SUBSET Nat, S # {}
  PROVE  Min(S) \in S /\ \A y \in S : Min(S) <= y
<1>1. \E x \in S : \A y \in S : ~ (<<y, x>> \in OpToRel(<,Nat))
  BY NatLessThanWellFounded, WFMin, Zenon
<1>2. \E x \in S : \A y \in S : x <= y
  <2>1. PICK x \in S : \A y \in S : ~ (<<y, x>> \in OpToRel(<, Nat)) BY <1>1
  <2>2. ASSUME NEW y \in S, y < x PROVE FALSE
    <3>1. <<y, x>> \in Nat \X Nat OBVIOUS
    <3>2. <<y, x>> \in OpToRel(<, Nat) BY <3>1, <2>2 DEF OpToRel
    <3> QED BY <2>1, <3>2
  <2>3. \A y \in S : x <= y BY <2>2
  <2> QED BY <2>3
<1> QED BY <1>2 DEF Min

(* A set that has zero, and with a number the next one, has all naturals.   *)
LEMMA SetInduction ==
  ASSUME NEW S, 0 \in S, \A n \in Nat : n \in S => n + 1 \in S
  PROVE  Nat \subseteq S
<1> DEFINE T == Nat \ S
<1>1. SUFFICES ASSUME T # {} PROVE FALSE OBVIOUS
<1>2. Min(T) \in T /\ \A y \in T : Min(T) <= y BY <1>1, MinNat
<1>3. PICK m \in T : \A y \in T : m <= y BY <1>2
<1>4. m \in Nat /\ m # 0 BY <1>3
<1>5. m - 1 \in Nat /\ m - 1 \notin T /\ (m - 1) + 1 = m BY <1>3, <1>4
<1> QED BY <1>3, <1>5

(* The recursive function flatten in FlattenSeq exists. *)
LEMMA FlattenExists ==
  ASSUME NEW s, NEW n \in Nat
  PROVE  \E f : f = [i \in 1 .. n |-> IF i = 1 THEN s[i] ELSE f[i - 1] \o s[i]]
<1> DEFINE Solves(f, k) == f = [i \in 1 .. k |-> IF i = 1 THEN s[i] ELSE f[i - 1] \o s[i]]
           S == {k \in Nat : \E f : Solves(f, k)}
<1>1. 0 \in S
  <2>1. Solves([i \in 1 .. 0 |-> <<>>], 0) OBVIOUS
  <2> QED BY <2>1
<1>2. ASSUME NEW k \in Nat, k \in S PROVE k + 1 \in S
  <2>1. PICK f : Solves(f, k) BY <1>2
  <2> DEFINE g == [i \in 1 .. k + 1 |-> IF i = k + 1 THEN IF i = 1 THEN s[i] ELSE f[k] \o s[i]
                                                     ELSE f[i]]
  <2>2. ASSUME NEW i \in 1 .. k + 1
        PROVE  g[i] = IF i = 1 THEN s[i] ELSE g[i - 1] \o s[i]
    <3>1. CASE i = k + 1
      <4>1. i # 1 => g[i - 1] = f[k] BY <3>1
      <4> QED BY <3>1, <4>1
    <3>2. CASE i # k + 1
      <4>1. i \in 1 .. k /\ g[i] = f[i] BY <3>2
      <4>2. f[i] = IF i = 1 THEN s[i] ELSE f[i - 1] \o s[i] BY <2>1, <4>1
      <4>3. i # 1 => g[i - 1] = f[i - 1] BY <4>1
      <4> QED BY <4>1, <4>2, <4>3
    <3> QED BY <3>1, <3>2
  <2>3. Solves(g, k + 1) BY <2>2
  <2> HIDE DEF g, Solves
  <2> QED BY <2>3
<1> HIDE DEF S
<1>3. n \in S BY <1>1, <1>2, SetInduction
<1> QED BY <1>3 DEF S

(* FlattenSeq, one sequence after the other. *)
LEMMA FlattenSteps ==
  ASSUME NEW s, Len(s) \in Nat \ {0}
  PROVE  \E f : /\ FlattenSeq(s) = f[Len(s)]
                /\ \A i \in 1 .. Len(s) : f[i] = IF i = 1 THEN s[i] ELSE f[i - 1] \o s[i]
<1> DEFINE f == CHOOSE f : f = [i \in 1 .. Len(s) |-> IF i = 1 THEN s[i] ELSE f[i - 1] \o s[i]]
<1>1. f = [i \in 1 .. Len(s) |-> IF i = 1 THEN s[i] ELSE f[i - 1] \o s[i]]
  BY FlattenExists
<1>2. FlattenSeq(s) = f[Len(s)] BY DEF FlattenSeq
<1> HIDE DEF f
<1>3. \A i \in 1 .. Len(s) : f[i] = IF i = 1 THEN s[i] ELSE f[i - 1] \o s[i] BY <1>1
<1> QED BY <1>2, <1>3

LEMMA FlattenAppend ==
  ASSUME NEW T, NEW s \in Seq(Seq(T)), NEW x \in Seq(T)
  PROVE  /\ FlattenSeq(<<>>) = <<>>
         /\ FlattenSeq(s) \in Seq(T)
         /\ FlattenSeq(Append(s, x)) = FlattenSeq(s) \o x
<1> DEFINE n == Len(s)
           a == Append(s, x)
<1>1. n \in Nat /\ Len(a) = n + 1 /\ a[n + 1] = x /\ \A i \in 1 .. n : a[i] = s[i] /\ s[i] \in Seq(T)
  BY AppendProperties, LenProperties, ElementOfSeq
<1>2. FlattenSeq(<<>>) = <<>> BY DEF FlattenSeq
<1> HIDE DEF a
<1>3. PICK g : /\ FlattenSeq(a) = g[n + 1]
               /\ \A i \in 1 .. n + 1 : g[i] = IF i = 1 THEN a[i] ELSE g[i - 1] \o a[i]
  <2>1. Len(a) \in Nat \ {0} BY <1>1
  <2>2. Len(a) = n + 1 BY <1>1
  <2> HIDE DEF n
  <2>3. PICK g : /\ FlattenSeq(a) = g[Len(a)]
                 /\ \A i \in 1 .. Len(a) : g[i] = IF i = 1 THEN a[i] ELSE g[i - 1] \o a[i]
    BY <2>1, FlattenSteps, Zenon
  <2> QED BY <2>2, <2>3
<1>4. CASE n = 0
  <2>1. s = <<>> BY <1>4, EmptySeq
  <2>2. g[1] = x /\ g[n + 1] = x BY <1>1, <1>3, <1>4
  <2>3. <<>> \o x = x /\ <<>> \in Seq(T) BY ConcatEmptySeq, EmptySeq
  <2>4. FlattenSeq(s) = <<>> BY <1>2, <2>1
  <2>5. FlattenSeq(a) = x BY <1>3, <2>2
  <2> QED BY <1>2, <2>3, <2>4, <2>5, Zenon DEF a
<1>5. CASE n # 0
  <2>0. n + 1 \in 1 .. n + 1 BY <1>1
  <2>1. PICK f : /\ FlattenSeq(s) = f[n]
                 /\ \A i \in 1 .. n : f[i] = IF i = 1 THEN s[i] ELSE f[i - 1] \o s[i]
    BY <1>1, <1>5, FlattenSteps
  <2> DEFINE S == {i \in Nat : i \in 1 .. n => g[i] = f[i] /\ f[i] \in Seq(T)}
  <2>2. 0 \in S OBVIOUS
  <2>3. ASSUME NEW i \in Nat, i \in S PROVE i + 1 \in S
    <3> SUFFICES ASSUME i + 1 \in 1 .. n PROVE g[i + 1] = f[i + 1] /\ f[i + 1] \in Seq(T)
      OBVIOUS
    <3>1. i + 1 \in 1 .. n + 1 /\ a[i + 1] = s[i + 1] /\ s[i + 1] \in Seq(T) BY <1>1
    <3>2. CASE i = 0 BY <1>3, <2>1, <3>1, <3>2
    <3>3. CASE i # 0
      <4>1. g[i] = f[i] /\ f[i] \in Seq(T) BY <1>1, <2>3, <3>3
      <4>5. (i + 1) - 1 = i /\ i + 1 # 1 BY <3>3
      <4>2. g[i + 1] = g[i] \o a[i + 1] BY <1>3, <3>1, <4>5, Zenon
      <4>3. f[i + 1] = f[i] \o s[i + 1] BY <2>1, <4>5, Zenon
      <4>4. f[i] \o s[i + 1] \in Seq(T) BY <3>1, <4>1, ConcatProperties
      <4> QED BY <3>1, <4>1, <4>2, <4>3, <4>4
    <3> QED BY <3>2, <3>3
  <2> HIDE DEF S
  <2>4. n \in S BY <1>1, <2>2, <2>3, SetInduction
  <2>5. g[n] = f[n] /\ f[n] \in Seq(T) BY <1>1, <1>5, <2>4 DEF S
  <2>6. g[n + 1] = g[n] \o x
    <3>1. (n + 1) - 1 = n /\ n + 1 # 1 /\ n + 1 \in 1 .. n + 1 BY <1>1, <1>5
    <3> QED BY <1>1, <1>3, <3>1, Zenon
  <2> QED BY <1>2, <1>3, <2>1, <2>5, <2>6 DEF a
<1> QED BY <1>4, <1>5

(* Every element of a part is an element of the whole. *)
LEMMA FlattenHas ==
  ASSUME NEW T, NEW s \in Seq(Seq(T)), NEW i \in DOMAIN s, NEW k \in DOMAIN s[i]
  PROVE  \E p \in 1 .. Len(FlattenSeq(s)) : FlattenSeq(s)[p] = s[i][k]
<1> DEFINE n == Len(s)
<1>1. n \in Nat /\ i \in 1 .. n /\ \A j \in 1 .. n : s[j] \in Seq(T)
  BY LenProperties, ElementOfSeq
<1>2. s[i] \in Seq(T) /\ k \in 1 .. Len(s[i]) BY <1>1, LenProperties
<1>3. PICK f : /\ FlattenSeq(s) = f[n]
               /\ \A j \in 1 .. n : f[j] = IF j = 1 THEN s[j] ELSE f[j - 1] \o s[j]
  <2>1. Len(s) \in Nat \ {0} BY <1>1
  <2> QED BY <2>1, FlattenSteps
<1> DEFINE Has(m) == f[m] \in Seq(T) /\ (i <= m => \E p \in 1 .. Len(f[m]) : f[m][p] = s[i][k])
           S == {m \in Nat : m \in 1 .. n => Has(m)}
<1> HIDE DEF n
<1>4. 0 \in S OBVIOUS
<1>5. ASSUME NEW m \in Nat, m \in S PROVE m + 1 \in S
  <2> SUFFICES ASSUME m + 1 \in 1 .. n PROVE Has(m + 1) OBVIOUS
  <2>1. s[m + 1] \in Seq(T) BY <1>1
  <2>2. CASE m = 0
    <3>1. m + 1 = 1 /\ f[m + 1] = s[m + 1] BY <1>1, <1>3, <2>2
    <3>2. i <= m + 1 => i = m + 1 BY <1>1, <2>2
    <3> QED BY <1>2, <2>1, <3>1, <3>2
  <2>3. CASE m # 0
    <3>1. m \in 1 .. n /\ (m + 1) - 1 = m /\ m + 1 # 1 BY <1>1, <2>3
    <3>2. Has(m) BY <1>5, <3>1
    <3>3. f[m + 1] = f[m] \o s[m + 1] BY <1>3, <3>1, Zenon
    <3> DEFINE a == f[m]
               b == s[m + 1]
    <3>4. a \in Seq(T) /\ b \in Seq(T) /\ f[m + 1] = a \o b /\ (i = m + 1 => b = s[i])
      BY <2>1, <3>2, <3>3
    <3>5. i <= m => \E p \in 1 .. Len(a) : a[p] = s[i][k] BY <3>2
    <3> HIDE DEF a, b, Has
    <3>6. /\ a \o b \in Seq(T) /\ Len(a \o b) = Len(a) + Len(b)
          /\ \A p \in 1 .. Len(a) + Len(b) : (a \o b)[p] = IF p <= Len(a) THEN a[p] ELSE b[p - Len(a)]
      BY <3>4, ConcatProperties
    <3>7. Len(a) \in Nat /\ Len(b) \in Nat BY <3>4, LenProperties
    <3>8. ASSUME i <= m PROVE \E p \in 1 .. Len(a \o b) : (a \o b)[p] = s[i][k]
      <4>1. PICK p \in 1 .. Len(a) : a[p] = s[i][k] BY <3>5, <3>8
      <4>2. p \in 1 .. Len(a) + Len(b) /\ p <= Len(a) BY <3>7
      <4> QED BY <3>6, <4>1, <4>2
    <3>9. ASSUME i = m + 1 PROVE \E p \in 1 .. Len(a \o b) : (a \o b)[p] = s[i][k]
      <4> DEFINE p == Len(a) + k
      <4>1. k \in 1 .. Len(b) /\ b[k] = s[i][k] BY <1>2, <3>4, <3>9
      <4>2. p \in 1 .. Len(a) + Len(b) /\ ~(p <= Len(a)) /\ p - Len(a) = k BY <3>7, <4>1
      <4> HIDE DEF p
      <4>3. (a \o b)[p] = b[k] BY <3>6, <4>2
      <4> QED BY <3>6, <4>1, <4>2, <4>3
    <3>10. i <= m + 1 => i <= m \/ i = m + 1 BY <1>1
    <3> QED BY <3>4, <3>6, <3>8, <3>9, <3>10 DEF Has
  <2> QED BY <2>2, <2>3
<1> HIDE DEF S
<1>6. n \in S BY <1>1, <1>4, <1>5, SetInduction
<1>7. Has(n) BY <1>1, <1>6 DEF S
<1> QED BY <1>1, <1>3, <1>7

(* RemoveAt closes the gap. *)
LEMMA Removed ==
  ASSUME NEW T, NEW s \in Seq(T), NEW k \in 1 .. Len(s)
  PROVE /\ RemoveAt(s, k) \in Seq(T) /\ Len(RemoveAt(s, k)) = Len(s) - 1
        /\ \A i \in 1 .. Len(s) - 1 : RemoveAt(s, k)[i] = IF i < k THEN s[i] ELSE s[i + 1]
<1>1. Len(s) \in Nat /\ \A i \in 1 .. Len(s) : s[i] \in T BY LenProperties, ElementOfSeq
<1>2. /\ SubSeq(s, 1, k - 1) \in Seq(T) /\ Len(SubSeq(s, 1, k - 1)) = k - 1
      /\ \A i \in 1 .. k - 1 : SubSeq(s, 1, k - 1)[i] = s[i]
  BY <1>1, SubSeqProperties
<1>3. /\ SubSeq(s, k + 1, Len(s)) \in Seq(T) /\ Len(SubSeq(s, k + 1, Len(s))) = Len(s) - k
      /\ \A i \in 1 .. Len(s) - k : SubSeq(s, k + 1, Len(s))[i] = s[i + k]
  BY <1>1, SubSeqProperties
<1> DEFINE a == SubSeq(s, 1, k - 1)
           b == SubSeq(s, k + 1, Len(s))
<1>4. /\ a \o b \in Seq(T) /\ Len(a \o b) = Len(a) + Len(b)
      /\ \A i \in 1 .. Len(a) + Len(b) : (a \o b)[i] = IF i <= Len(a) THEN a[i] ELSE b[i - Len(a)]
  BY <1>2, <1>3, ConcatProperties
<1>5. /\ Len(a) = k - 1 /\ Len(b) = Len(s) - k
      /\ \A i \in 1 .. k - 1 : a[i] = s[i]
      /\ \A i \in 1 .. Len(s) - k : b[i] = s[i + k]
  BY <1>2, <1>3
<1>7. RemoveAt(s, k) = a \o b BY DEF RemoveAt
<1> HIDE DEF a, b
<1>6. ASSUME NEW i \in 1 .. Len(s) - 1
      PROVE  (a \o b)[i] = IF i < k THEN s[i] ELSE s[i + 1]
  <2>1. CASE i < k BY <1>1, <1>4, <1>5, <2>1
  <2>2. CASE i >= k
    <3>1. i - (k - 1) \in 1 .. Len(s) - k BY <1>1, <2>2
    <3>2. (a \o b)[i] = b[i - (k - 1)] BY <1>1, <1>4, <1>5, <2>2
    <3>3. b[i - (k - 1)] = s[i - (k - 1) + k] BY <1>5, <3>1
    <3> QED BY <1>1, <2>2, <3>2, <3>3
  <2>3. i < k \/ i >= k BY <1>1
  <2> QED BY <2>1, <2>2, <2>3, Zenon
<1>8. Len(a \o b) = Len(s) - 1 BY <1>1, <1>4, <1>5
<1> QED BY <1>4, <1>6, <1>7, <1>8, Zenon

(* InsertAt makes room for the new element. *)
LEMMA Inserted ==
  ASSUME NEW T, NEW s \in Seq(T), NEW k \in 1 .. Len(s) + 1, NEW x \in T
  PROVE /\ InsertAt(s, k, x) \in Seq(T) /\ Len(InsertAt(s, k, x)) = Len(s) + 1
        /\ \A i \in 1 .. Len(s) + 1 :
             InsertAt(s, k, x)[i] = IF i < k THEN s[i] ELSE IF i = k THEN x ELSE s[i - 1]
<1>1. Len(s) \in Nat /\ \A i \in 1 .. Len(s) : s[i] \in T BY LenProperties, ElementOfSeq
<1> DEFINE a == SubSeq(s, 1, k - 1)
           b == SubSeq(s, k, Len(s))
<1>2. /\ a \in Seq(T) /\ Len(a) = k - 1 /\ \A i \in 1 .. k - 1 : a[i] = s[i]
  BY <1>1, SubSeqProperties
<1>3. /\ b \in Seq(T) /\ Len(b) = Len(s) - k + 1
      /\ \A i \in 1 .. Len(s) - k + 1 : b[i] = s[i + k - 1]
  BY <1>1, SubSeqProperties
<1>4. InsertAt(s, k, x) = a \o <<x>> \o b BY DEF InsertAt
<1> HIDE DEF a, b
<1>5. /\ <<x>> \in Seq(T) /\ Len(<<x>>) = 1 /\ <<x>>[1] = x OBVIOUS
<1> DEFINE c == a \o <<x>>
<1>6. /\ c \in Seq(T) /\ Len(c) = k
      /\ \A i \in 1 .. k : c[i] = IF i < k THEN s[i] ELSE x
  BY <1>1, <1>2, <1>5, ConcatProperties
<1>7. InsertAt(s, k, x) = c \o b BY <1>4
<1> HIDE DEF c
<1>8. /\ c \o b \in Seq(T) /\ Len(c \o b) = Len(c) + Len(b)
      /\ \A i \in 1 .. Len(c) + Len(b) : (c \o b)[i] = IF i <= Len(c) THEN c[i] ELSE b[i - Len(c)]
  BY <1>3, <1>6, ConcatProperties
<1>9. Len(c) + Len(b) = Len(s) + 1 BY <1>1, <1>3, <1>6
<1>10. ASSUME NEW i \in 1 .. Len(s) + 1
       PROVE  (c \o b)[i] = IF i < k THEN s[i] ELSE IF i = k THEN x ELSE s[i - 1]
  <2>1. (c \o b)[i] = IF i <= k THEN c[i] ELSE b[i - k] BY <1>6, <1>8, <1>9
  <2>2. CASE i <= k BY <1>1, <1>6, <2>1, <2>2
  <2>3. CASE ~(i <= k)
    <3>1. i - k \in 1 .. Len(s) - k + 1 /\ (i - k) + k - 1 = i - 1 BY <1>1, <2>3
    <3>2. b[i - k] = s[i - 1] BY <1>3, <3>1
    <3>3. ~(i < k) /\ i # k BY <1>1, <2>3
    <3> QED BY <2>1, <2>3, <3>2, <3>3
  <2> QED BY <2>2, <2>3
<1> QED BY <1>7, <1>8, <1>9, <1>10
==============================================================================

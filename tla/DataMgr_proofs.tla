---------------------------- MODULE DataMgr_proofs ----------------------------
(****************************************************************************)
(* Theorems about DataMgr, for every map, every length of the running       *)
(* average and all limits.                                                  *)
(****************************************************************************)
EXTENDS DataMgr, ListLemmas, FiniteSetTheorems

(* The recursive function iter of MapThenSumSet. *)
Taken(s) == CHOOSE x \in s : TRUE

Sums(F, v, S) ==
  F = [s \in S |-> IF s = {} THEN 0 ELSE v[Taken(s)] + F[s \ {Taken(s)}]]

LEMMA SumExists ==
  ASSUME NEW C, IsFiniteSet(C), NEW v
  PROVE  \E F : Sums(F, v, SUBSET C)
<1> DEFINE Sub(k) == {s \in SUBSET C : Cardinality(s) <= k}
           S == {k \in Nat : \E F : Sums(F, v, Sub(k))}
<1>1. \A s \in SUBSET C : /\ Cardinality(s) \in Nat /\ Cardinality(s) <= Cardinality(C)
                          /\ Cardinality(s) = 0 <=> s = {}
  BY FS_Subset, FS_CardinalityType, FS_EmptySet
<1>2. \A s \in SUBSET C : s # {} => /\ Taken(s) \in s /\ s \ {Taken(s)} \in SUBSET C
                                    /\ Cardinality(s \ {Taken(s)}) = Cardinality(s) - 1
  BY FS_Subset, FS_RemoveElement DEF Taken
<1>3. 0 \in S
  <2>1. \A s \in Sub(0) : s = {} BY <1>1
  <2>2. Sums([s \in Sub(0) |-> 0], v, Sub(0)) BY <2>1 DEF Sums
  <2> QED BY <2>2
<1>4. ASSUME NEW k \in Nat, k \in S PROVE k + 1 \in S
  <2>1. PICK F : Sums(F, v, Sub(k)) BY <1>4
  <2> DEFINE G == [s \in Sub(k + 1) |-> IF s = {} THEN 0 ELSE v[Taken(s)] + F[s \ {Taken(s)}]]
  <2>2. ASSUME NEW s \in Sub(k) PROVE G[s] = F[s]
    <3>1. s \in Sub(k + 1) BY <1>1
    <3> QED BY <2>1, <3>1 DEF Sums
  <2>3. ASSUME NEW s \in Sub(k + 1)
        PROVE  G[s] = IF s = {} THEN 0 ELSE v[Taken(s)] + G[s \ {Taken(s)}]
    <3>1. CASE s = {} BY <3>1
    <3>2. CASE s # {}
      <4>1. s \ {Taken(s)} \in Sub(k) BY <1>1, <1>2, <3>2
      <4>2. G[s \ {Taken(s)}] = F[s \ {Taken(s)}] BY <2>2, <4>1
      <4> HIDE DEF Sub
      <4> QED BY <3>2, <4>2
    <3> QED BY <3>1, <3>2
  <2>4. Sums(G, v, Sub(k + 1)) BY <2>3 DEF Sums
  <2> HIDE DEF G, Sub
  <2> QED BY <2>4
<1> HIDE DEF S
<1>5. Cardinality(C) \in S BY <1>1, <1>3, <1>4, SetInduction, FS_CardinalityType
<1>6. Sub(Cardinality(C)) = SUBSET C BY <1>1
<1> QED BY <1>5, <1>6 DEF S

(* A sum of integers is an integer. *)
LEMMA SumType ==
  ASSUME NEW C, IsFiniteSet(C), NEW v, \A x \in C : v[x] \in Int, NEW F, Sums(F, v, SUBSET C)
  PROVE  F[C] \in Int
<1> DEFINE S == {k \in Nat : \A s \in SUBSET C : Cardinality(s) = k => F[s] \in Int}
<1>1. \A s \in SUBSET C : Cardinality(s) \in Nat /\ (Cardinality(s) = 0 <=> s = {})
  BY FS_Subset, FS_CardinalityType, FS_EmptySet
<1>2. 0 \in S BY <1>1 DEF Sums
<1>3. ASSUME NEW k \in Nat, k \in S PROVE k + 1 \in S
  <2> SUFFICES ASSUME NEW s \in SUBSET C, Cardinality(s) = k + 1 PROVE F[s] \in Int OBVIOUS
  <2>1. s # {} BY <1>1
  <2>2. Taken(s) \in s BY <2>1 DEF Taken
  <2>3. Cardinality(s \ {Taken(s)}) = k /\ s \ {Taken(s)} \in SUBSET C
    <3>1. IsFiniteSet(s) BY FS_Subset
    <3>2. Cardinality(s \ {Taken(s)}) = Cardinality(s) - 1 BY <2>2, <3>1, FS_RemoveElement
    <3> HIDE DEF S
    <3> QED BY <3>2
  <2>4. F[s \ {Taken(s)}] \in Int BY <1>3, <2>3
  <2>5. F[s] = v[Taken(s)] + F[s \ {Taken(s)}] BY <2>1 DEF Sums
  <2> QED BY <2>2, <2>4, <2>5
<1> HIDE DEF S
<1>4. Cardinality(C) \in S BY <1>1, <1>2, <1>3, SetInduction
<1> QED BY <1>4 DEF S

LEMMA CellFinite == IsFiniteSet(Cell) /\ RUN_AVG_LENGTH \in Nat \ {0} /\ Cell \subseteq Nat
BY DataMgrAssumption, FS_Interval DEF Cell

LEMMA AvgType ==
  ASSUME NEW buf \in [Cell -> Int]
  PROVE  count_avg(buf) \in Int
<1> DEFINE F == CHOOSE F : Sums(F, buf, SUBSET Cell)
<1>1. Sums(F, buf, SUBSET Cell) BY CellFinite, SumExists
<1>2. count_avg(buf) = F[Cell] BY DEF count_avg, MapThenSumSet, MapThenFoldSet, Sums, Taken
<1> HIDE DEF F
<1> QED BY <1>1, <1>2, CellFinite, SumType

(* The average of the array is that of the readings it holds. *)
LEMMA AvgIsLastSum ==
  ASSUME NEW buf, NEW h,
         \A j \in Cell : buf[j] = h[Len(h) - RUN_AVG_LENGTH + 1 + j].value
  PROVE  count_avg(buf) = LastSum(h)
<1> DEFINE v == [j \in Cell |-> h[Len(h) - RUN_AVG_LENGTH + 1 + j].value]
           Body(F, s) == IF s = {} THEN 0 ELSE LET x == CHOOSE x \in s : TRUE
                                               IN  buf[x] + F[s \ {x}]
           Latest(F, s) == IF s = {} THEN 0
                           ELSE LET x == CHOOSE x \in s : TRUE
                                IN  h[Len(h) - RUN_AVG_LENGTH + 1 + x].value + F[s \ {x}]
<1>1. count_avg(buf) = (CHOOSE F : F = [s \in SUBSET Cell |-> Body(F, s)])[Cell]
  BY DEF count_avg, MapThenSumSet, MapThenFoldSet
<1>2. LastSum(h) = (CHOOSE F : F = [s \in SUBSET Cell |-> Latest(F, s)])[Cell]
  BY DEF LastSum, MapThenSumSet, MapThenFoldSet
<1>3. \A F, s : s \in SUBSET Cell => Body(F, s) = Latest(F, s) OBVIOUS
<1> HIDE DEF Body, Latest
<1>4. \A F : [s \in SUBSET Cell |-> Body(F, s)] = [s \in SUBSET Cell |-> Latest(F, s)]
  BY <1>3
<1>5. (CHOOSE F : F = [s \in SUBSET Cell |-> Body(F, s)])
        = (CHOOSE F : F = [s \in SUBSET Cell |-> Latest(F, s)])
  BY <1>4
<1> QED BY <1>1, <1>2, <1>5

------------------------------------------------------------------------------
(* The readings of one sensor *)

Selects(f, id, h, n) ==
  f = [i \in 0 .. n |-> IF i = 0 THEN <<>>
                        ELSE IF h[i].id = id THEN Append(f[i - 1], h[i]) ELSE f[i - 1]]

LEMMA SelectExists ==
  ASSUME NEW id, NEW h, NEW n \in Nat
  PROVE  \E f : Selects(f, id, h, n)
<1> DEFINE S == {k \in Nat : \E f : Selects(f, id, h, k)}
<1>1. 0 \in S
  <2>1. Selects([i \in 0 .. 0 |-> <<>>], id, h, 0) BY DEF Selects
  <2> QED BY <2>1
<1>2. ASSUME NEW k \in Nat, k \in S PROVE k + 1 \in S
  <2>1. PICK f : Selects(f, id, h, k) BY <1>2
  <2> DEFINE next == IF h[k + 1].id = id THEN Append(f[k], h[k + 1]) ELSE f[k]
             g == [i \in 0 .. k + 1 |-> IF i = k + 1 THEN next ELSE f[i]]
  <2>2. ASSUME NEW i \in 0 .. k + 1
        PROVE  g[i] = IF i = 0 THEN <<>>
                      ELSE IF h[i].id = id THEN Append(g[i - 1], h[i]) ELSE g[i - 1]
    <3>1. CASE i = k + 1
      <4>1. i # 0 /\ g[i - 1] = f[k] /\ g[i] = next BY <3>1
      <4> QED BY <3>1, <4>1
    <3>2. CASE i # k + 1
      <4>1. i \in 0 .. k /\ g[i] = f[i] BY <3>2
      <4>2. i # 0 => g[i - 1] = f[i - 1] BY <4>1
      <4>3. f[i] = IF i = 0 THEN <<>>
                   ELSE IF h[i].id = id THEN Append(f[i - 1], h[i]) ELSE f[i - 1]
        BY <2>1, <4>1 DEF Selects
      <4> HIDE DEF g
      <4> QED BY <4>1, <4>2, <4>3
    <3> QED BY <3>1, <3>2
  <2>3. g = [i \in 0 .. k + 1 |-> g[i]] OBVIOUS
  <2> HIDE DEF g
  <2>4. Selects(g, id, h, k + 1) BY <2>2, <2>3 DEF Selects
  <2> QED BY <2>4
<1> HIDE DEF S
<1>3. n \in S BY <1>1, <1>2, SetInduction
<1> QED BY <1>3 DEF S

LEMMA ReadingsSteps ==
  ASSUME NEW id, NEW h, Len(h) \in Nat
  PROVE  \E f : Selects(f, id, h, Len(h)) /\ ReadingsOf(id, h) = f[Len(h)]
<1> DEFINE f == CHOOSE f : Selects(f, id, h, Len(h))
<1>1. Selects(f, id, h, Len(h)) BY SelectExists
<1>2. ReadingsOf(id, h) = f[Len(h)] BY DEF ReadingsOf, Selects
<1> HIDE DEF f
<1> QED BY <1>1, <1>2

LEMMA SelectNone == ASSUME NEW id PROVE ReadingsOf(id, <<>>) = <<>>
<1>1. Len(<<>>) = 0 BY EmptySeq
<1>2. PICK f : Selects(f, id, <<>>, 0) /\ ReadingsOf(id, <<>>) = f[0] BY <1>1, ReadingsSteps
<1> QED BY <1>2 DEF Selects

LEMMA ReadingsAppend ==
  ASSUME NEW id, NEW h \in Seq(Reading), NEW r \in Reading
  PROVE  /\ ReadingsOf(id, h) \in Seq(Reading)
         /\ ReadingsOf(id, Append(h, r)) = IF r.id = id THEN Append(ReadingsOf(id, h), r)
                                                        ELSE ReadingsOf(id, h)
<1> DEFINE n == Len(h)
           a == Append(h, r)
<1>1. n \in Nat /\ Len(a) = n + 1 /\ a[n + 1] = r /\ \A i \in 1 .. n : a[i] = h[i] /\ h[i] \in Reading
  BY AppendProperties, LenProperties, ElementOfSeq
<1>3. PICK f : Selects(f, id, h, n) /\ ReadingsOf(id, h) = f[n] BY <1>1, ReadingsSteps
<1> HIDE DEF a
<1>4. PICK g : Selects(g, id, a, n + 1) /\ ReadingsOf(id, a) = g[n + 1] BY <1>1, ReadingsSteps
<1> DEFINE S == {i \in Nat : i \in 0 .. n => g[i] = f[i] /\ f[i] \in Seq(Reading)}
<1>5. 0 \in S
  <2>1. f[0] = <<>> /\ g[0] = <<>> BY <1>1, <1>3, <1>4 DEF Selects
  <2> QED BY <2>1, EmptySeq
<1>6. ASSUME NEW i \in Nat, i \in S PROVE i + 1 \in S
  <2> SUFFICES ASSUME i + 1 \in 0 .. n PROVE g[i + 1] = f[i + 1] /\ f[i + 1] \in Seq(Reading)
    OBVIOUS
  <2>1. g[i] = f[i] /\ f[i] \in Seq(Reading) BY <1>1, <1>6
  <2>2. a[i + 1] = h[i + 1] /\ h[i + 1] \in Reading BY <1>1
  <2>3. i + 1 # 0 /\ (i + 1) - 1 = i /\ i + 1 \in 0 .. n + 1 BY <1>1
  <2>4. f[i + 1] = IF h[i + 1].id = id THEN Append(f[i], h[i + 1]) ELSE f[i]
    BY <1>3, <2>3 DEF Selects
  <2>5. g[i + 1] = IF a[i + 1].id = id THEN Append(g[i], a[i + 1]) ELSE g[i]
    BY <1>4, <2>3 DEF Selects
  <2>6. Append(f[i], h[i + 1]) \in Seq(Reading) BY <2>1, <2>2, AppendProperties
  <2> QED BY <2>1, <2>2, <2>4, <2>5, <2>6
<1> HIDE DEF S
<1>7. n \in S BY <1>1, <1>5, <1>6, SetInduction
<1>8. g[n] = f[n] /\ f[n] \in Seq(Reading) BY <1>1, <1>7 DEF S
<1>9. g[n + 1] = IF a[n + 1].id = id THEN Append(g[n], a[n + 1]) ELSE g[n]
  <2>1. n + 1 # 0 /\ (n + 1) - 1 = n /\ n + 1 \in 0 .. n + 1 BY <1>1
  <2> QED BY <1>4, <2>1 DEF Selects
<1> QED BY <1>1, <1>3, <1>4, <1>8, <1>9 DEF a

------------------------------------------------------------------------------
(* The inductive invariant *)

(* No reading is handled before the map has been read. *)
MapFirst == pc # "data" => history = <<>>

First(i) == \A j \in 1 .. i - 1 : sensor_avg_list[j].sensor_id # sensor_avg_list[i].sensor_id

(* What a node stands for, h being the readings of its sensor: its array    *)
(* holds the last of them in order, as many as fit.                         *)
Holds(node, h) ==
  /\ Len(h) < RUN_AVG_LENGTH => node.buf_size = Len(h) /\ node.running_avg = 0
  /\ Len(h) >= RUN_AVG_LENGTH =>
       node.buf_size = RUN_AVG_LENGTH /\ node.running_avg = count_avg(node.buf)
  /\ \A j \in 0 .. node.buf_size - 1 : node.buf[j] = h[Len(h) - node.buf_size + 1 + j].value
  /\ node.timestamp = IF h = <<>> THEN 0 ELSE h[Len(h)].ts

(* The first node of each sensor holds the last of its readings. *)
Windows ==
  \A i \in DOMAIN sensor_avg_list :
    First(i) => Holds(sensor_avg_list[i], ReadingsOf(sensor_avg_list[i].sensor_id, history))

(* The list is the lines of the map, in their order. *)
MapListed ==
  /\ Len(sensor_avg_list) = Len(lines)
  /\ \A i \in DOMAIN sensor_avg_list :
       sensor_avg_list[i].sensor_id = lines[i].id /\ sensor_avg_list[i].room_id = lines[i].room

Base == TypeOK /\ MapFirst /\ MapListed /\ Windows /\ FirstEntryServes

(* search_list finds the first node of the sensor. *)
LEMMA Searched ==
  ASSUME TypeOK, NEW id
  PROVE  /\ search_list(id) = 0 <=> \A i \in DOMAIN sensor_avg_list : sensor_avg_list[i].sensor_id # id
         /\ search_list(id) # 0 => /\ search_list(id) \in DOMAIN sensor_avg_list
                                   /\ sensor_avg_list[search_list(id)].sensor_id = id
                                   /\ First(search_list(id))
         /\ \A i \in DOMAIN sensor_avg_list :
              First(i) /\ sensor_avg_list[i].sensor_id = id => i = search_list(id)
<1> DEFINE D == {i \in DOMAIN sensor_avg_list : sensor_avg_list[i].sensor_id = id}
           Hit(i) == i \in D /\ \A j \in 1 .. i - 1 : sensor_avg_list[j].sensor_id # id
<1>1. DOMAIN sensor_avg_list = 1 .. Len(sensor_avg_list) /\ Len(sensor_avg_list) \in Nat
  BY LenProperties DEF TypeOK
<1>2. CASE D = {}
  <2>1. search_list(id) = 0 BY <1>2 DEF search_list
  <2> QED BY <1>2, <2>1
<1>3. CASE D # {}
  <2>1. D \in SUBSET Nat BY <1>1
  <2>2. PICK m \in D : \A y \in D : m <= y BY <1>3, <2>1, MinNat
  <2>3. Hit(m)
    <3> SUFFICES ASSUME NEW j \in 1 .. m - 1, sensor_avg_list[j].sensor_id = id PROVE FALSE
      OBVIOUS
    <3>1. j \in D /\ j < m BY <1>1
    <3> QED BY <2>1, <2>2, <3>1
  <2>4. Hit(search_list(id))
    <3>1. search_list(id) = CHOOSE i \in DOMAIN sensor_avg_list :
                              /\ sensor_avg_list[i].sensor_id = id
                              /\ \A j \in 1 .. i - 1 : sensor_avg_list[j].sensor_id # id
      BY <1>3 DEF search_list
    <3> QED BY <2>3, <3>1
  <2>5. ASSUME NEW i \in D, NEW k \in D, Hit(i), Hit(k) PROVE i = k
    <3>1. i \in Nat /\ k \in Nat /\ ~(i \in 1 .. k - 1) /\ ~(k \in 1 .. i - 1) /\ i >= 1 /\ k >= 1
      BY <1>1, <2>5
    <3> QED BY <3>1
  <2>6. search_list(id) \in Nat \ {0} BY <1>1, <2>4
  <2>7. \A i \in DOMAIN sensor_avg_list :
          First(i) /\ sensor_avg_list[i].sensor_id = id => i = search_list(id)
    BY <2>4, <2>5 DEF First
  <2>8. First(search_list(id)) BY <2>4 DEF First
  <2> QED BY <1>3, <2>4, <2>6, <2>7, <2>8
<1> QED BY <1>2, <1>3

LEMMA MinOf ==
  ASSUME NEW a \in Nat, NEW b \in Nat
  PROVE  Min({a, b}) = IF a < b THEN a ELSE b
<1>1. {a, b} \in SUBSET Nat /\ {a, b} # {} OBVIOUS
<1>2. PICK m : m = Min({a, b}) OBVIOUS
<1>3. m \in {a, b} /\ \A y \in {a, b} : m <= y BY <1>1, <1>2, MinNat
<1> QED BY <1>2, <1>3

(* A reading enters the array and, once the array is full, drives the       *)
(* oldest one out: the array still holds the last readings.                 *)
LEMMA UpdateHolds ==
  ASSUME NEW node \in SensorNode, NEW r \in Reading, NEW h \in Seq(Reading), Holds(node, h)
  PROVE  /\ Updated(node, r) \in SensorNode
         /\ Updated(node, r).sensor_id = node.sensor_id
         /\ Updated(node, r).room_id = node.room_id
         /\ Holds(Updated(node, r), Append(h, r))
<1> DEFINE new  == Updated(node, r)
           size == IF node.buf_size < RUN_AVG_LENGTH THEN node.buf_size + 1 ELSE RUN_AVG_LENGTH
           buf  == NextBuf(node, r.value)
<1>1. /\ node.buf \in [Cell -> Int] /\ node.buf_size \in 0 .. RUN_AVG_LENGTH
      /\ node.sensor_id \in SensorId /\ node.room_id \in RoomId
      /\ r.value \in Int /\ r.ts \in Nat
  BY DataMgrAssumption DEF SensorNode, Reading
<1>2. RUN_AVG_LENGTH \in Nat \ {0} /\ Cell = 0 .. RUN_AVG_LENGTH - 1
  BY DataMgrAssumption DEF Cell
<1>3. /\ Len(h) \in Nat /\ Len(Append(h, r)) = Len(h) + 1 /\ Append(h, r)[Len(h) + 1] = r
      /\ \A i \in 1 .. Len(h) : Append(h, r)[i] = h[i]
      /\ Append(h, r) # <<>>
  BY AppendProperties, LenProperties
<1>4. Min({node.buf_size + 1, RUN_AVG_LENGTH}) = size /\ size \in 1 .. RUN_AVG_LENGTH
  <2>1. Min({node.buf_size + 1, RUN_AVG_LENGTH})
          = IF node.buf_size + 1 < RUN_AVG_LENGTH THEN node.buf_size + 1 ELSE RUN_AVG_LENGTH
    BY <1>1, <1>2, MinOf
  <2> QED BY <1>1, <1>2, <2>1
<1>5. /\ buf \in [Cell -> Int]
      /\ node.buf_size < RUN_AVG_LENGTH =>
           \A j \in Cell : buf[j] = IF j = node.buf_size THEN r.value ELSE node.buf[j]
      /\ node.buf_size = RUN_AVG_LENGTH =>
           \A j \in Cell : buf[j] = IF j = RUN_AVG_LENGTH - 1 THEN r.value ELSE node.buf[j + 1]
  <2>1. CASE node.buf_size < RUN_AVG_LENGTH BY <1>1, <1>2, <2>1 DEF NextBuf
  <2>2. CASE node.buf_size = RUN_AVG_LENGTH BY <1>1, <1>2, <2>2 DEF NextBuf
  <2>3. node.buf_size < RUN_AVG_LENGTH \/ node.buf_size = RUN_AVG_LENGTH BY <1>1, <1>2
  <2> HIDE DEF buf
  <2> QED BY <2>1, <2>2, <2>3
<1>6. count_avg(buf) \in Int BY <1>5, AvgType
<1>7. /\ new \in SensorNode /\ new.sensor_id = node.sensor_id /\ new.room_id = node.room_id
      /\ new.timestamp = r.ts
      /\ new.buf = buf /\ new.buf_size = size
      /\ new.running_avg = IF size = RUN_AVG_LENGTH THEN count_avg(buf) ELSE 0
  <2> HIDE DEF buf, size
  <2> DEFINE avg == IF size = RUN_AVG_LENGTH THEN count_avg(buf) ELSE 0
  <2>1. new = [node EXCEPT !.timestamp = r.ts, !.buf = buf, !.buf_size = size, !.running_avg = avg]
    BY <1>4 DEF Updated, buf
  <2>2. avg \in Int
    <3>1. CASE size = RUN_AVG_LENGTH BY <1>6, <3>1
    <3>2. CASE size # RUN_AVG_LENGTH BY <3>2
    <3> QED BY <3>1, <3>2
  <2>3. size \in 0 .. RUN_AVG_LENGTH BY <1>2, <1>4
  <2>4. buf \in [Cell -> Int] BY <1>5
  <2> HIDE DEF new, avg
  <2>5. new = [sensor_id |-> node.sensor_id, room_id |-> node.room_id, running_avg |-> avg,
               timestamp |-> r.ts, buf |-> buf, buf_size |-> size]
    BY <2>1 DEF SensorNode
  <2>6. new \in SensorNode BY <1>1, <2>2, <2>3, <2>4, <2>5 DEF SensorNode
  <2> QED BY <2>5, <2>6 DEF avg
<1> HIDE DEF new, buf, size
<1> DEFINE A == Append(h, r)
<1> SUFFICES /\ Len(h) + 1 < RUN_AVG_LENGTH => size = Len(h) + 1
             /\ Len(h) + 1 >= RUN_AVG_LENGTH => size = RUN_AVG_LENGTH
             /\ \A j \in 0 .. size - 1 : buf[j] = A[(Len(h) + 1) - size + 1 + j].value
  <2> HIDE DEF A
  <2>1. Len(A) = Len(h) + 1 /\ A # <<>> /\ A[Len(A)] = r BY <1>3 DEF A
  <2>2. Len(h) + 1 < RUN_AVG_LENGTH => size = Len(h) + 1 /\ size # RUN_AVG_LENGTH BY <1>2, <1>3
  <2>3. Holds(new, A) BY <1>2, <1>3, <1>7, <2>1, <2>2 DEF Holds
  <2> QED BY <1>7, <2>3 DEF A, new
<1>8. CASE Len(h) < RUN_AVG_LENGTH
  <2>1. node.buf_size = Len(h) /\ size = Len(h) + 1 BY <1>1, <1>8 DEF Holds, size
  <2>2. \A j \in 0 .. size - 1 : buf[j] = Append(h, r)[1 + j].value
    <3> SUFFICES ASSUME NEW j \in 0 .. size - 1 PROVE buf[j] = Append(h, r)[1 + j].value OBVIOUS
    <3>1. CASE j = Len(h) BY <1>2, <1>3, <1>5, <1>8, <2>1, <3>1
    <3>2. CASE j < Len(h)
      <4>1. buf[j] = node.buf[j] BY <1>2, <1>3, <1>5, <1>8, <2>1, <3>2
      <4>2. node.buf[j] = h[1 + j].value BY <1>3, <2>1, <3>2 DEF Holds
      <4>3. 1 + j \in 1 .. Len(h) BY <1>3, <2>1, <3>2
      <4> QED BY <1>3, <4>1, <4>2, <4>3
    <3> QED BY <1>3, <2>1, <3>1, <3>2
  <2>3. \A j \in 0 .. size - 1 : (Len(h) + 1) - size + 1 + j = 1 + j BY <1>3, <2>1
  <2>4. Len(h) + 1 >= RUN_AVG_LENGTH => size = RUN_AVG_LENGTH BY <1>2, <1>3, <1>8, <2>1
  <2> QED BY <2>1, <2>2, <2>3, <2>4
<1>9. CASE Len(h) >= RUN_AVG_LENGTH
  <2>1. node.buf_size = RUN_AVG_LENGTH /\ size = RUN_AVG_LENGTH BY <1>2, <1>9 DEF Holds, size
  <2>2. ASSUME NEW j \in 0 .. size - 1
        PROVE  buf[j] = Append(h, r)[(Len(h) + 1) - size + 1 + j].value
    <3>1. CASE j = RUN_AVG_LENGTH - 1
      <4>1. (Len(h) + 1) - size + 1 + j = Len(h) + 1 BY <1>2, <1>3, <2>1, <3>1
      <4> QED BY <1>2, <1>3, <1>5, <2>1, <3>1, <4>1
    <3>2. CASE j < RUN_AVG_LENGTH - 1
      <4>1. buf[j] = node.buf[j + 1] /\ j + 1 \in 0 .. node.buf_size - 1
        BY <1>2, <1>5, <2>1, <3>2
      <4>2. node.buf[j + 1] = h[Len(h) - node.buf_size + 1 + (j + 1)].value BY <4>1 DEF Holds
      <4>3. /\ Len(h) - node.buf_size + 1 + (j + 1) = (Len(h) + 1) - size + 1 + j
            /\ (Len(h) + 1) - size + 1 + j \in 1 .. Len(h)
        BY <1>2, <1>3, <1>9, <2>1, <3>2
      <4> QED BY <1>3, <4>1, <4>2, <4>3
    <3>3. j = RUN_AVG_LENGTH - 1 \/ j < RUN_AVG_LENGTH - 1 BY <1>2, <2>1
    <3> QED BY <3>1, <3>2, <3>3
  <2>3. ~(Len(h) + 1 < RUN_AVG_LENGTH) BY <1>2, <1>3, <1>9
  <2> QED BY <2>1, <2>2, <2>3
<1> QED BY <1>2, <1>3, <1>7, <1>8, <1>9

LEMMA MessageType ==
  ASSUME NEW avg, NEW id \in SensorId
  PROVE  log_message(avg, id) \in Seq([sensor : SensorId, says : {"hot", "cold", "invalid"}])
<1> DEFINE M == [sensor : SensorId, says : {"hot", "cold", "invalid"}]
           hot == [sensor |-> id, says |-> "hot"]
           cold == [sensor |-> id, says |-> "cold"]
           a == IF avg > SET_MAX_TEMP * RUN_AVG_LENGTH THEN <<hot>> ELSE <<>>
           b == IF avg < SET_MIN_TEMP * RUN_AVG_LENGTH THEN <<cold>> ELSE <<>>
<1>1. hot \in M /\ cold \in M OBVIOUS
<1>2. log_message(avg, id) = a \o b BY DEF log_message
<1> HIDE DEF M, hot, cold
<1>3. <<>> \in Seq(M) /\ <<hot>> \in Seq(M) /\ <<cold>> \in Seq(M) BY <1>1
<1>4. a \in Seq(M) /\ b \in Seq(M) BY <1>3, Zenon
<1> HIDE DEF a, b
<1>5. a \o b \in Seq(M) BY <1>4, ConcatProperties
<1> QED BY <1>2, <1>5 DEF M

LEMMA BaseInit == Init => Base
<1> SUFFICES ASSUME Init PROVE Base OBVIOUS
<1>1. DOMAIN <<>> = {} BY EmptySeq
<1>2. TypeOK BY EmptySeq DEF Init, TypeOK
<1> QED BY <1>1, <1>2 DEF Init, Base, MapFirst, MapListed, Windows, FirstEntryServes

(* A new node holds none of the readings, of which there are none yet.      *)
LEMMA MapLineInv == ASSUME NEW room \in RoomId, NEW id \in SensorId PROVE Base /\ MapLine(room, id) => Base'
<1> SUFFICES ASSUME Base, MapLine(room, id) PROVE Base' OBVIOUS
<1> DEFINE n    == Len(sensor_avg_list)
           node == [sensor_id |-> id, room_id |-> room, running_avg |-> 0, timestamp |-> 0,
                    buf |-> [j \in Cell |-> Garbage], buf_size |-> 0]
<1>1. /\ pc = "map" /\ UNCHANGED <<pc, log, history>> /\ history = <<>>
      /\ sensor_avg_list' = Append(sensor_avg_list, node)
      /\ lines' = Append(lines, [room |-> room, id |-> id])
  BY DEF MapLine, Base, MapFirst
<1>2. /\ node \in SensorNode /\ node.buf_size = 0 /\ node.timestamp = 0 /\ node.running_avg = 0
      /\ node.sensor_id = id /\ node.room_id = room
  BY DataMgrAssumption DEF SensorNode
<1> HIDE DEF node
<1>3. /\ n \in Nat /\ sensor_avg_list \in Seq(SensorNode) /\ DOMAIN sensor_avg_list = 1 .. n
      /\ sensor_avg_list' \in Seq(SensorNode) /\ Len(sensor_avg_list') = n + 1
      /\ sensor_avg_list'[n + 1] = node
      /\ \A i \in 1 .. n : sensor_avg_list'[i] = sensor_avg_list[i]
  BY <1>1, <1>2, AppendProperties, LenProperties DEF Base, TypeOK
<1>4. DOMAIN sensor_avg_list' = 1 .. n + 1 BY <1>3, LenProperties
<1>9. /\ lines' \in Seq([room : RoomId, id : SensorId]) /\ Len(lines') = n + 1
      /\ lines'[n + 1] = [room |-> room, id |-> id] /\ \A i \in 1 .. n : lines'[i] = lines[i]
  <2>1. lines \in Seq([room : RoomId, id : SensorId]) /\ Len(lines) = n
    BY DEF Base, TypeOK, MapListed
  <2>2. [room |-> room, id |-> id] \in [room : RoomId, id : SensorId] OBVIOUS
  <2> QED BY <1>1, <2>1, <2>2, AppendProperties
<1>10. MapListed'
  <2> SUFFICES ASSUME NEW i \in 1 .. n + 1
               PROVE  /\ sensor_avg_list'[i].sensor_id = lines'[i].id
                      /\ sensor_avg_list'[i].room_id = lines'[i].room
    BY <1>3, <1>4, <1>9 DEF MapListed
  <2>1. CASE i = n + 1 BY <1>2, <1>3, <1>9, <2>1
  <2>2. CASE i # n + 1
    <3>1. i \in 1 .. n BY <1>3, <2>2
    <3> QED BY <1>3, <1>9, <3>1 DEF Base, MapListed
  <2> QED BY <2>1, <2>2
<1>5. TypeOK' BY <1>1, <1>3, <1>9 DEF Base, TypeOK
<1>6. MapFirst' BY <1>1 DEF Base, MapFirst
<1>7. Windows'
  <2> SUFFICES ASSUME NEW i \in 1 .. n + 1, First(i)'
               PROVE  Holds(sensor_avg_list'[i], ReadingsOf(sensor_avg_list'[i].sensor_id, history))
    BY <1>1, <1>4 DEF Windows
  <2>1. CASE i = n + 1
    <3>1. ReadingsOf(node.sensor_id, history) = <<>> BY <1>1, SelectNone
    <3>2. Holds(node, <<>>)
      <4>1. Len(<<>>) = 0 /\ ~(0 >= RUN_AVG_LENGTH) BY EmptySeq, DataMgrAssumption
      <4>2. 0 .. node.buf_size - 1 = {} BY <1>2
      <4>3. \A e : e = <<>> /\ Len(e) = 0 => Holds(node, e) BY <1>2, <4>1, <4>2 DEF Holds
      <4> QED BY <4>1, <4>3
    <3> QED BY <1>3, <2>1, <3>1, <3>2
  <2>2. CASE i # n + 1
    <3>1. i \in 1 .. n BY <1>3, <2>2
    <3>2. First(i) BY <1>3, <3>1 DEF First
    <3> QED BY <1>3, <3>1, <3>2 DEF Base, Windows
  <2> QED BY <2>1, <2>2
<1>8. FirstEntryServes' BY <1>2, <1>3, <1>4 DEF Base, FirstEntryServes
<1> QED BY <1>5, <1>6, <1>7, <1>8, <1>10 DEF Base

LEMMA MatchInv == ASSUME NEW r \in Reading PROVE Base /\ match_with_sensor_data(r) => Base'
<1> SUFFICES ASSUME Base, match_with_sensor_data(r) PROVE Base' OBVIOUS
<1>1. /\ pc = "data" /\ pc' = pc /\ lines' = lines /\ history' = Append(history, r)
      /\ history \in Seq(Reading) /\ history' \in Seq(Reading)
      /\ sensor_avg_list \in Seq(SensorNode) /\ DOMAIN sensor_avg_list = 1 .. Len(sensor_avg_list)
      /\ Len(sensor_avg_list) \in Nat
  BY AppendProperties, LenProperties DEF match_with_sensor_data, Base, TypeOK
<1>2. MapFirst' BY <1>1 DEF MapFirst
<1>3. \A id : ReadingsOf(id, history') = IF r.id = id THEN Append(ReadingsOf(id, history), r)
                                                      ELSE ReadingsOf(id, history)
  BY <1>1, ReadingsAppend
<1>4. CASE search_list(r.id) = 0
  <2>1. /\ log' = <<[sensor |-> r.id, says |-> "invalid"]>> /\ UNCHANGED sensor_avg_list
        /\ \A i \in DOMAIN sensor_avg_list : sensor_avg_list[i].sensor_id # r.id
    BY <1>4, Searched DEF match_with_sensor_data, Base
  <2>2. TypeOK' BY <1>1, <2>1 DEF Base, TypeOK, Reading
  <2>5. MapListed' BY <1>1, <2>1 DEF Base, MapListed
  <2>3. Windows' BY <1>3, <2>1 DEF Base, Windows, First
  <2>4. FirstEntryServes' BY <2>1 DEF Base, FirstEntryServes
  <2> QED BY <1>2, <2>2, <2>3, <2>4, <2>5 DEF Base
<1>5. CASE search_list(r.id) # 0
  <2>1. PICK m \in DOMAIN sensor_avg_list :
          /\ m = search_list(r.id) /\ sensor_avg_list[m].sensor_id = r.id /\ First(m)
          /\ \A i \in DOMAIN sensor_avg_list :
               First(i) /\ sensor_avg_list[i].sensor_id = r.id => i = m
    BY <1>5, Searched DEF Base
  <2> DEFINE node == sensor_avg_list[m]
             new  == Updated(node, r)
             h    == ReadingsOf(r.id, history)
  <2>2. /\ sensor_avg_list' = [sensor_avg_list EXCEPT ![m] = new]
        /\ log' = IF sensor_avg_list'[m].buf_size = RUN_AVG_LENGTH
                  THEN log_message(sensor_avg_list'[m].running_avg, r.id) ELSE <<>>
    BY <1>5, <2>1 DEF match_with_sensor_data
  <2>3. node \in SensorNode /\ h \in Seq(Reading) /\ Holds(node, h)
    BY <1>1, <2>1, ReadingsAppend DEF Base, Windows
  <2>4. /\ new \in SensorNode /\ new.sensor_id = r.id /\ new.room_id = node.room_id
        /\ Holds(new, Append(h, r))
    BY <2>1, <2>3, UpdateHolds
  <2> HIDE DEF new
  <2>5. /\ sensor_avg_list' \in Seq(SensorNode) /\ DOMAIN sensor_avg_list' = DOMAIN sensor_avg_list
        /\ sensor_avg_list'[m] = new
        /\ \A i \in DOMAIN sensor_avg_list : i # m => sensor_avg_list'[i] = sensor_avg_list[i]
        /\ \A i \in DOMAIN sensor_avg_list : sensor_avg_list'[i].sensor_id = sensor_avg_list[i].sensor_id
        /\ \A i \in DOMAIN sensor_avg_list : sensor_avg_list'[i].room_id = sensor_avg_list[i].room_id
        /\ Len(sensor_avg_list') = Len(sensor_avg_list)
    BY <1>1, <2>1, <2>2, <2>4
  <2>6. log' \in Seq([sensor : SensorId, says : {"hot", "cold", "invalid"}])
    <3>1. r.id \in SensorId BY DEF Reading
    <3> QED BY <2>2, <3>1, MessageType, EmptySeq
  <2>7. TypeOK' BY <1>1, <2>5, <2>6 DEF Base, TypeOK
  <2>8. Windows'
    <3> SUFFICES ASSUME NEW i \in DOMAIN sensor_avg_list, First(i)'
                 PROVE  Holds(sensor_avg_list'[i], ReadingsOf(sensor_avg_list'[i].sensor_id, history'))
      BY <2>5 DEF Windows
    <3>1. First(i) BY <1>1, <2>5 DEF First
    <3>2. CASE i = m BY <1>3, <2>4, <2>5, <3>2
    <3>3. CASE i # m
      <4>1. sensor_avg_list[i].sensor_id # r.id BY <2>1, <3>1, <3>3
      <4> QED BY <1>3, <2>5, <3>1, <3>3, <4>1 DEF Base, Windows
    <3> QED BY <3>2, <3>3
  <2>9. FirstEntryServes'
    <3> SUFFICES ASSUME NEW i \in DOMAIN sensor_avg_list, NEW j \in DOMAIN sensor_avg_list, i < j,
                        sensor_avg_list[i].sensor_id = sensor_avg_list[j].sensor_id
                 PROVE  sensor_avg_list'[j].buf_size = 0 /\ sensor_avg_list'[j].timestamp = 0
      BY <2>5 DEF FirstEntryServes
    <3>1. j # m BY <1>1, <2>1 DEF First
    <3> QED BY <2>5, <3>1 DEF Base, FirstEntryServes
  <2>10. MapListed' BY <1>1, <2>5 DEF Base, MapListed
  <2> QED BY <1>2, <2>7, <2>8, <2>9, <2>10 DEF Base
<1> QED BY <1>4, <1>5

LEMMA BaseStep == Base /\ [Next]_vars => Base'
<1> SUFFICES ASSUME Base, [Next]_vars PROVE Base' OBVIOUS
<1>1. CASE MapEnd \/ MapMalformed
  <2>1. /\ UNCHANGED <<sensor_avg_list, log, lines, history>> /\ pc' \in {"data", "stuck"} /\ history = <<>>
    BY <1>1 DEF MapEnd, MapMalformed, Base, MapFirst
  <2>2. TypeOK' BY <2>1 DEF Base, TypeOK
  <2>5. MapListed' BY <2>1 DEF Base, MapListed
  <2>3. Windows' BY <2>1 DEF Base, Windows, First
  <2>4. FirstEntryServes' BY <2>1 DEF Base, FirstEntryServes
  <2> QED BY <2>1, <2>2, <2>3, <2>4, <2>5 DEF Base, MapFirst
<1>2. CASE UNCHANGED vars
  <2>1. UNCHANGED <<pc, sensor_avg_list, log, lines, history>> BY <1>2 DEF vars
  <2>2. TypeOK' BY <2>1 DEF Base, TypeOK
  <2>5. MapListed' BY <2>1 DEF Base, MapListed
  <2>3. Windows' BY <2>1 DEF Base, Windows, First
  <2>4. FirstEntryServes' BY <2>1 DEF Base, FirstEntryServes
  <2> QED BY <2>1, <2>2, <2>3, <2>4, <2>5 DEF Base, MapFirst
<1> QED BY <1>1, <1>2, MapLineInv, MatchInv DEF Next

(* Each reading of a history that is not empty is a reading. *)
LEMMA ReadingsType == ASSUME NEW h \in Seq(Reading), NEW id PROVE ReadingsOf(id, h) \in Seq(Reading)
<1>1. CASE h = <<>> BY <1>1, SelectNone, EmptySeq
<1>2. CASE h # <<>>
  <2>1. h[1] \in Reading BY <1>2, EmptySeq, LenProperties, ElementOfSeq
  <2> QED BY <2>1, ReadingsAppend
<1> QED BY <1>1, <1>2

(* What a node that has been served answers, if it holds the last readings. *)
LEMMA HeldAverage ==
  ASSUME NEW node \in SensorNode, NEW h \in Seq(Reading), Holds(node, h)
  PROVE  /\ node.buf_size = RUN_AVG_LENGTH <=> Len(h) >= RUN_AVG_LENGTH
         /\ node.running_avg = IF Len(h) < RUN_AVG_LENGTH THEN 0 ELSE LastSum(h)
<1>1. Len(h) \in Nat /\ RUN_AVG_LENGTH \in Nat BY LenProperties, DataMgrAssumption
<1>2. CASE Len(h) < RUN_AVG_LENGTH BY <1>1, <1>2 DEF Holds
<1>3. CASE Len(h) >= RUN_AVG_LENGTH
  <2>1. node.buf_size = RUN_AVG_LENGTH /\ node.running_avg = count_avg(node.buf)
    BY <1>3 DEF Holds
  <2>2. \A j \in Cell : node.buf[j] = h[Len(h) - RUN_AVG_LENGTH + 1 + j].value
    BY <2>1 DEF Holds, Cell
  <2>3. count_avg(node.buf) = LastSum(h) BY <2>2, AvgIsLastSum
  <2> QED BY <1>1, <1>3, <2>1, <2>3
<1> QED BY <1>1, <1>2, <1>3

LEMMA MessageSays ==
  ASSUME NEW avg, NEW id
  PROVE  LET l == log_message(avg, id)
         IN  /\ \A i \in DOMAIN l : l[i].sensor = id
             /\ \A i \in DOMAIN l : l[i].says # "invalid"
             /\ (\E i \in DOMAIN l : l[i].says = "hot") <=> avg > SET_MAX_TEMP * RUN_AVG_LENGTH
             /\ (\E i \in DOMAIN l : l[i].says = "cold") <=> avg < SET_MIN_TEMP * RUN_AVG_LENGTH
<1> DEFINE hot  == [sensor |-> id, says |-> "hot"]
           cold == [sensor |-> id, says |-> "cold"]
           l    == log_message(avg, id)
           Hot  == avg > SET_MAX_TEMP * RUN_AVG_LENGTH
           Cold == avg < SET_MIN_TEMP * RUN_AVG_LENGTH
           a    == IF avg > SET_MAX_TEMP * RUN_AVG_LENGTH THEN <<hot>> ELSE <<>>
           b    == IF avg < SET_MIN_TEMP * RUN_AVG_LENGTH THEN <<cold>> ELSE <<>>
<1>1. log_message(avg, id) = a \o b BY DEF log_message
<1>2. hot.sensor = id /\ hot.says = "hot" /\ cold.sensor = id /\ cold.says = "cold" OBVIOUS
<1> HIDE DEF hot, cold, Hot, Cold, l
<1>3. CASE Hot /\ Cold
  <2>2. <<hot>> \o <<cold>> = <<hot, cold>>
    <3> DEFINE c == <<hot>> \o <<cold>>
    <3>1. <<hot>> \in Seq({hot, cold}) /\ <<cold>> \in Seq({hot, cold}) OBVIOUS
    <3>2. c \in Seq({hot, cold}) /\ Len(c) = 2 /\ c[1] = hot /\ c[2] = cold
      BY <3>1, ConcatProperties
    <3> HIDE DEF c
    <3>3. <<hot, cold>> \in Seq({hot, cold}) /\ Len(<<hot, cold>>) = 2 OBVIOUS
    <3>4. \A i \in 1 .. Len(c) : c[i] = <<hot, cold>>[i] BY <3>2
    <3>5. c = <<hot, cold>> BY <3>2, <3>3, <3>4, SeqEqual
    <3> QED BY <3>5 DEF c
  <2>3. a = <<hot>> /\ b = <<cold>> BY <1>3 DEF Hot, Cold
  <2>1. l = <<hot, cold>> BY <1>1, <2>2, <2>3 DEF l
  <2> QED BY <1>2, <1>3, <2>1 DEF l, Hot, Cold
<1>4. CASE Hot /\ ~Cold
  <2>1. l = <<hot>> BY <1>1, <1>4 DEF l, Hot, Cold
  <2> QED BY <1>2, <1>4, <2>1 DEF l, Hot, Cold
<1>5. CASE ~Hot /\ Cold
  <2>1. l = <<cold>> BY <1>1, <1>5 DEF l, Hot, Cold
  <2> QED BY <1>2, <1>5, <2>1 DEF l, Hot, Cold
<1>6. CASE ~Hot /\ ~Cold
  <2>1. l = <<>> BY <1>1, <1>6 DEF l, Hot, Cold
  <2> QED BY <1>2, <1>6, <2>1 DEF l, Hot, Cold
<1> QED BY <1>3, <1>4, <1>5, <1>6

(* The invariant above holds in every reachable state. *)
THEOREM Invariant == Spec => []Base
BY BaseInit, BaseStep, PTL DEF Spec

(* The sensor search_list finds is that of the first line of the map that   *)
(* names it.                                                                *)
LEMMA FirstLine ==
  ASSUME Base, NEW id
  PROVE  datamgr_get_room_id(id) = IF LinesOf(id) = {} THEN 65535 ELSE lines[Min(LinesOf(id))].room
<1>1. DOMAIN sensor_avg_list = DOMAIN lines /\ DOMAIN lines \in SUBSET Nat
  BY LenProperties DEF Base, TypeOK, MapListed
<1>2. LinesOf(id) = {i \in DOMAIN sensor_avg_list : sensor_avg_list[i].sensor_id = id}
  BY <1>1 DEF LinesOf, Base, MapListed
<1>3. CASE LinesOf(id) = {}
  <2>1. search_list(id) = 0 BY <1>2, <1>3, Searched DEF Base
  <2> QED BY <1>3, <2>1 DEF datamgr_get_room_id
<1>4. CASE LinesOf(id) # {}
  <2> DEFINE S == LinesOf(id)
  <2>1. S \in SUBSET Nat BY <1>1, <1>2
  <2>2. PICK m : m = Min(S) OBVIOUS
  <2>3. m \in S /\ \A y \in S : m <= y BY <1>4, <2>1, <2>2, MinNat
  <2>4. m \in DOMAIN sensor_avg_list /\ sensor_avg_list[m].sensor_id = id BY <1>2, <2>3
  <2>5. First(m)
    <3> SUFFICES ASSUME NEW j \in 1 .. m - 1, sensor_avg_list[j].sensor_id = id PROVE FALSE
      BY <2>4 DEF First
    <3>1. m \in 1 .. Len(sensor_avg_list) /\ Len(sensor_avg_list) \in Nat
          /\ DOMAIN sensor_avg_list = 1 .. Len(sensor_avg_list)
      BY <2>4, LenProperties DEF Base, TypeOK
    <3>2. j \in S /\ j < m BY <1>2, <3>1
    <3> QED BY <2>3, <3>1, <3>2
  <2>6. m = search_list(id) /\ m # 0 BY <2>4, <2>5, Searched, LenProperties DEF Base, TypeOK
  <2>7. datamgr_get_room_id(id) = sensor_avg_list[m].room_id BY <2>6 DEF datamgr_get_room_id
  <2>8. sensor_avg_list[m].room_id = lines[m].room BY <2>4 DEF Base, MapListed
  <2> QED BY <1>4, <2>2, <2>7, <2>8
<1> QED BY <1>3, <1>4

(* The average and the time datamgr answers with are those of the readings  *)
(* it was given: the shifting of the array loses none and keeps none too    *)
(* long, whatever RUN_AVG_LENGTH is.  The room is that of the first line of *)
(* the map with the sensor, and the total counts the lines.                 *)
THEOREM AnswersAreRight == Spec => []AnswersFromHistory
<1>1. ASSUME Base PROVE AnswersFromHistory
  <2>1. datamgr_get_total_sensors = Len(lines)
    BY <1>1 DEF datamgr_get_total_sensors, Base, MapListed
  <2>2. \A id \in SensorId :
          datamgr_get_room_id(id) = IF LinesOf(id) = {} THEN 65535 ELSE lines[Min(LinesOf(id))].room
    BY <1>1, FirstLine
  <2>3. ASSUME NEW id \in {sensor_avg_list[i].sensor_id : i \in DOMAIN sensor_avg_list}
        PROVE  LET h == ReadingsOf(id, history)
               IN  /\ datamgr_get_avg(id) = IF Len(h) < RUN_AVG_LENGTH THEN 0 ELSE LastSum(h)
                   /\ datamgr_get_last_modified(id) = IF h = <<>> THEN 0 ELSE h[Len(h)].ts
    <3> DEFINE m == search_list(id)
               h == ReadingsOf(id, history)
    <3>1. m # 0 /\ m \in DOMAIN sensor_avg_list /\ sensor_avg_list[m].sensor_id = id /\ First(m)
      BY <1>1, Searched DEF Base
    <3>2. sensor_avg_list[m] \in SensorNode
      BY <1>1, <3>1, LenProperties, ElementOfSeq DEF Base, TypeOK
    <3>3. h \in Seq(Reading) BY <1>1, ReadingsType DEF Base, TypeOK
    <3>4. Holds(sensor_avg_list[m], h) BY <1>1, <3>1 DEF Base, Windows
    <3>5. datamgr_get_avg(id) = sensor_avg_list[m].running_avg BY <3>1 DEF datamgr_get_avg
    <3>6. datamgr_get_last_modified(id) = sensor_avg_list[m].timestamp
      BY <3>1 DEF datamgr_get_last_modified
    <3>7. sensor_avg_list[m].timestamp = IF h = <<>> THEN 0 ELSE h[Len(h)].ts BY <3>4 DEF Holds
    <3>8. sensor_avg_list[m].running_avg = IF Len(h) < RUN_AVG_LENGTH THEN 0 ELSE LastSum(h)
      BY <3>2, <3>3, <3>4, HeldAverage
    <3> HIDE DEF h
    <3> QED BY <3>5, <3>6, <3>7, <3>8 DEF h
  <2> QED BY <1>1, <2>1, <2>2, <2>3 DEF AnswersFromHistory, Base
<1> QED BY <1>1, Invariant, PTL

(* The second entry of a sensor never takes a reading. *)
THEOREM SecondEntryIdle == Spec => []FirstEntryServes
<1>1. Base => FirstEntryServes BY DEF Base
<1> QED BY <1>1, Invariant, PTL

(* The log says too hot, too cold and invalid exactly when it should, for   *)
(* all limits: those where both may be said at once included.               *)
THEOREM AlertsRight == Spec => AlertsAreExact
<1> DEFINE Exact ==
      history' # history =>
        LET r     == history'[Len(history')]
            h     == ReadingsOf(r.id, history')
            known == \E i \in DOMAIN sensor_avg_list : sensor_avg_list[i].sensor_id = r.id
            full  == known /\ Len(h) >= RUN_AVG_LENGTH
            says  == {log'[i].says : i \in DOMAIN log'}
        IN  /\ \A i \in DOMAIN log' : log'[i].sensor = r.id
            /\ "hot" \in says <=> full /\ LastSum(h) > SET_MAX_TEMP * RUN_AVG_LENGTH
            /\ "cold" \in says <=> full /\ LastSum(h) < SET_MIN_TEMP * RUN_AVG_LENGTH
            /\ "invalid" \in says <=> ~known
<1>1. ASSUME Base, NEW r \in Reading, match_with_sensor_data(r) PROVE Exact
  <2> DEFINE h     == ReadingsOf(r.id, Append(history, r))
             known == \E i \in DOMAIN sensor_avg_list : sensor_avg_list[i].sensor_id = r.id
             hot   == \E i \in DOMAIN log' : log'[i].says = "hot"
             cold  == \E i \in DOMAIN log' : log'[i].says = "cold"
             bad   == \E i \in DOMAIN log' : log'[i].says = "invalid"
             full  == known /\ Len(h) >= RUN_AVG_LENGTH
             Hot   == LastSum(h) > SET_MAX_TEMP * RUN_AVG_LENGTH
             Cold  == LastSum(h) < SET_MIN_TEMP * RUN_AVG_LENGTH
  <2>1. history' = Append(history, r) /\ history'[Len(history')] = r /\ history' \in Seq(Reading)
    BY <1>1, AppendProperties DEF match_with_sensor_data, Base, TypeOK
  <2>2. h \in Seq(Reading) BY <2>1, ReadingsType
  <2> SUFFICES /\ \A i \in DOMAIN log' : log'[i].sensor = r.id
               /\ hot <=> full /\ Hot
               /\ cold <=> full /\ Cold
               /\ bad <=> ~known
    <3> HIDE DEF known, Hot, Cold, full
    <3>1. /\ hot <=> "hot" \in {log'[i].says : i \in DOMAIN log'}
          /\ cold <=> "cold" \in {log'[i].says : i \in DOMAIN log'}
          /\ bad <=> "invalid" \in {log'[i].says : i \in DOMAIN log'}
      OBVIOUS
    <3> HIDE DEF hot, cold, bad, h
    <3> QED BY <2>1, <3>1 DEF known, Hot, Cold, full, h
  <2>3. CASE search_list(r.id) = 0
    <3>1. log' = <<[sensor |-> r.id, says |-> "invalid"]>> BY <1>1, <2>3 DEF match_with_sensor_data
    <3>2. ~known BY <1>1, <2>3, Searched DEF Base
    <3>3. DOMAIN log' = {1} /\ log'[1].sensor = r.id /\ log'[1].says = "invalid" BY <3>1
    <3>4. (\A i \in DOMAIN log' : log'[i].sensor = r.id) /\ ~hot /\ ~cold /\ bad BY <3>3
    <3> HIDE DEF known, hot, cold, bad, Hot, Cold, h
    <3> QED BY <3>2, <3>4
  <2>4. CASE search_list(r.id) # 0
    <3>1. PICK m \in DOMAIN sensor_avg_list :
            m = search_list(r.id) /\ sensor_avg_list[m].sensor_id = r.id /\ First(m)
      BY <1>1, <2>4, Searched DEF Base
    <3> DEFINE node == sensor_avg_list[m]
               new  == Updated(node, r)
    <3>2. node \in SensorNode
      BY <1>1, <3>1, LenProperties, ElementOfSeq DEF Base, TypeOK
    <3>3. history \in Seq(Reading) /\ ReadingsOf(r.id, history) \in Seq(Reading)
      BY <1>1, ReadingsType DEF Base, TypeOK
    <3>4. Holds(node, ReadingsOf(r.id, history)) BY <1>1, <3>1 DEF Base, Windows
    <3>5. h = Append(ReadingsOf(r.id, history), r) BY <3>3, ReadingsAppend
    <3>6. new \in SensorNode /\ Holds(new, h) BY <3>2, <3>3, <3>4, <3>5, UpdateHolds
    <3> HIDE DEF h
    <3>7. sensor_avg_list'[m] = new
      BY <1>1, <2>4, <3>1 DEF match_with_sensor_data, Base, TypeOK
    <3>8. log' = IF new.buf_size = RUN_AVG_LENGTH THEN log_message(new.running_avg, r.id) ELSE <<>>
      BY <1>1, <2>4, <3>1, <3>7 DEF match_with_sensor_data
    <3> HIDE DEF new
    <3>9. /\ new.buf_size = RUN_AVG_LENGTH <=> Len(h) >= RUN_AVG_LENGTH
          /\ new.running_avg = IF Len(h) < RUN_AVG_LENGTH THEN 0 ELSE LastSum(h)
      BY <2>2, <3>6, HeldAverage
    <3>10. known BY <3>1
    <3>11. Len(h) \in Nat /\ RUN_AVG_LENGTH \in Nat BY <2>2, LenProperties, DataMgrAssumption
    <3>12. CASE Len(h) >= RUN_AVG_LENGTH
      <4>1. log' = log_message(LastSum(h), r.id) BY <3>8, <3>9, <3>11, <3>12
      <4>2. /\ \A i \in DOMAIN log' : log'[i].sensor = r.id
            /\ ~bad /\ (hot <=> Hot) /\ (cold <=> Cold)
        BY <4>1, MessageSays
      <4> HIDE DEF known, hot, cold, bad, Hot, Cold
      <4> QED BY <3>10, <3>12, <4>2
    <3>13. CASE ~(Len(h) >= RUN_AVG_LENGTH)
      <4>1. log' = <<>> BY <3>8, <3>9, <3>13
      <4>2. (\A i \in DOMAIN log' : log'[i].sensor = r.id) /\ ~bad /\ ~hot /\ ~cold BY <4>1
      <4> HIDE DEF known, hot, cold, bad, Hot, Cold
      <4> QED BY <3>10, <3>13, <4>2
    <3> QED BY <3>12, <3>13
  <2> QED BY <2>3, <2>4
<1>2. Base /\ [Next]_vars => [Exact]_vars
  <2> SUFFICES ASSUME Base, Next, history' # history PROVE Exact OBVIOUS
  <2>1. \E r \in Reading : match_with_sensor_data(r) BY DEF Next, MapLine, MapEnd, MapMalformed
  <2> HIDE DEF Exact
  <2> QED BY <1>1, <2>1
<1>3. Spec => [][Next]_vars BY DEF Spec
<1> QED BY <1>2, <1>3, Invariant, PTL DEF AlertsAreExact
==============================================================================

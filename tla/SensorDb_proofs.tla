---------------------------- MODULE SensorDb_proofs ----------------------------
(****************************************************************************)
(* Theorems about SensorDb, for all readings, connections and bounds.       *)
(****************************************************************************)
EXTENDS SensorDb, ListLemmas, FiniteSetTheorems

(* The queries: how values are printed and read back *)

LEMMA SignedBack == ASSUME NEW r \in Reading PROVE Signed(r.id) \in Int /\ Signed(r.id) % Ids = r.id
<1>1. Ids \in Nat \ {0} /\ r.id \in 0 .. Ids - 1 BY SensorDbAssumption
<1>2. ASSUME NEW id \in 0 .. Ids - 1 PROVE id % Ids = id /\ (id - Ids) % Ids = id BY <1>1
<1> QED BY <1>1, <1>2 DEF Signed

(* Printing respects the order, and values a unit apart differ by one.      *)
LEMMA PrintedOrder ==
  ASSUME NEW v \in Int
  PROVE  /\ Printed(v) \in Int
         /\ \A w \in Int : v <= w => Printed(v) <= Printed(w)
         /\ Printed(v - Grain) = Printed(v) - 1 /\ Printed(v + Grain) = Printed(v) + 1
<1>1. Grain \in Nat \ {0} BY SensorDbAssumption
<1> DEFINE h == Grain \div 2
<1>2. h \in Int BY <1>1
<1> HIDE DEF h
<1>3. ASSUME NEW a \in Int, NEW b \in Int, a <= b PROVE a \div Grain <= b \div Grain
  BY <1>1, <1>3
<1>4. ASSUME NEW a \in Int
      PROVE  /\ a \div Grain \in Int /\ (a - Grain) \div Grain = (a \div Grain) - 1
             /\ (a + Grain) \div Grain = (a \div Grain) + 1
  BY <1>1
<1>5. Printed(v) \in Int BY <1>1, <1>2, <1>4 DEF Printed, h
<1>6. ASSUME NEW w \in Int, v <= w PROVE Printed(v) <= Printed(w)
  <2>1. v + h <= w + h /\ v + h \in Int /\ w + h \in Int BY <1>2, <1>6
  <2>2. (v + h) \div Grain <= (w + h) \div Grain BY <1>3, <2>1
  <2> QED BY <2>2 DEF Printed, h
<1>7. Printed(v - Grain) = Printed(v) - 1 /\ Printed(v + Grain) = Printed(v) + 1
  <2>1. v + h \in Int /\ (v - Grain) + h = (v + h) - Grain /\ (v + Grain) + h = (v + h) + Grain
    BY <1>1, <1>2
  <2>2. /\ ((v + h) - Grain) \div Grain = ((v + h) \div Grain) - 1
        /\ ((v + h) + Grain) \div Grain = ((v + h) \div Grain) + 1
    BY <1>4, <2>1
  <2>3. /\ Printed(v - Grain) = ((v - Grain) + h) \div Grain
        /\ Printed(v + Grain) = ((v + Grain) + h) \div Grain /\ Printed(v) = (v + h) \div Grain
    BY DEF Printed, h
  <2> QED BY <2>1, <2>2, <2>3
<1> QED BY <1>5, <1>6, <1>7

LEMMA RowType ==
  ASSUME NEW r \in Reading, r.value # NaN
  PROVE  Row(r) \in Rows /\ r.value \in Int
<1>1. r.value \in Int /\ r.ts \in Int BY SensorDbAssumption
<1> QED BY <1>1, SignedBack, PrintedOrder DEF Row, Rows

------------------------------------------------------------------------------
(* What the calls have stored *)

Insertion == [readings : {s \in Seq(Reading) : Len(s) <= MaxFile},
              result   : {"pending", "ok", "error", "unknown"}]

Portions(cs, n) == [i \in DOMAIN cs |-> SubSeq(cs[i].readings, 1, n[i])]

(* The readings stored are the first n[i] of each call, and the first k of  *)
(* the last one if that is still under way.                                 *)
Told(cs, o, k) ==
  \E n \in [DOMAIN cs -> 0 .. MaxFile] :
    /\ \A i \in DOMAIN cs : n[i] \in MayHaveStored(cs[i])
    /\ cs # <<>> /\ Last(cs).result = "pending" => n[Len(cs)] = k
    /\ o = FlattenSeq(Portions(cs, n))

LEMMA FirstOf ==
  ASSUME NEW S, NEW s \in Seq(S), NEW k \in 0 .. Len(s)
  PROVE  /\ SubSeq(s, 1, k) \in Seq(S) /\ Len(SubSeq(s, 1, k)) = k
         /\ k = 0 => SubSeq(s, 1, k) = <<>>
         /\ k = Len(s) => SubSeq(s, 1, k) = s
         /\ k < Len(s) => SubSeq(s, 1, k + 1) = Append(SubSeq(s, 1, k), s[k + 1])
<1>1. Len(s) \in Nat /\ \A i \in 1 .. Len(s) : s[i] \in S BY LenProperties, ElementOfSeq
<1>2. /\ SubSeq(s, 1, k) \in Seq(S) /\ Len(SubSeq(s, 1, k)) = k
      /\ \A i \in 1 .. k : SubSeq(s, 1, k)[i] = s[i]
  BY <1>1, SubSeqProperties
<1>3. k = 0 => SubSeq(s, 1, k) = <<>> BY <1>2, EmptySeq
<1>4. k = Len(s) => SubSeq(s, 1, k) = s BY <1>2, SeqEqual
<1>5. ASSUME k < Len(s) PROVE SubSeq(s, 1, k + 1) = Append(SubSeq(s, 1, k), s[k + 1])
  <2> DEFINE a == SubSeq(s, 1, k + 1)
             b == Append(SubSeq(s, 1, k), s[k + 1])
  <2>1. /\ a \in Seq(S) /\ Len(a) = k + 1 /\ \A i \in 1 .. k + 1 : a[i] = s[i]
    BY <1>1, <1>5, SubSeqProperties
  <2>2. s[k + 1] \in S BY <1>1, <1>5
  <2>3. /\ b \in Seq(S) /\ Len(b) = k + 1 /\ b[k + 1] = s[k + 1]
        /\ \A i \in 1 .. k : b[i] = SubSeq(s, 1, k)[i]
    BY <1>2, <2>2, AppendProperties
  <2> HIDE DEF a, b
  <2>4. \A i \in 1 .. k + 1 : a[i] = b[i]
    <3> TAKE i \in 1 .. k + 1
    <3>1. CASE i = k + 1 BY <2>1, <2>3, <3>1
    <3>2. CASE i \in 1 .. k BY <1>2, <2>1, <2>3, <3>2
    <3> QED BY <3>1, <3>2
  <2>5. a = b BY <2>1, <2>3, <2>4, SeqEqual
  <2> QED BY <2>5 DEF a, b
<1> QED BY <1>2, <1>3, <1>4, <1>5

LEMMA CallTypes ==
  ASSUME NEW cs \in Seq(Insertion)
  PROVE  /\ Len(cs) \in Nat /\ DOMAIN cs = 1 .. Len(cs)
         /\ \A i \in DOMAIN cs :
              /\ cs[i] \in Insertion /\ cs[i].readings \in Seq(Reading)
              /\ Len(cs[i].readings) \in 0 .. MaxFile /\ MaxFile \in Nat
              /\ MayHaveStored(cs[i]) \subseteq 0 .. Len(cs[i].readings)
         /\ cs # <<>> => Len(cs) \in DOMAIN cs /\ Last(cs) = cs[Len(cs)]
<1>1. Len(cs) \in Nat /\ DOMAIN cs = 1 .. Len(cs) BY LenProperties
<1>2. ASSUME NEW i \in DOMAIN cs
      PROVE  /\ cs[i] \in Insertion /\ cs[i].readings \in Seq(Reading)
             /\ Len(cs[i].readings) \in 0 .. MaxFile /\ MaxFile \in Nat
             /\ MayHaveStored(cs[i]) \subseteq 0 .. Len(cs[i].readings)
  <2>1. cs[i] \in Insertion BY <1>1, ElementOfSeq
  <2>2. /\ cs[i].readings \in Seq(Reading) /\ Len(cs[i].readings) <= MaxFile
        /\ cs[i].result \in {"pending", "ok", "error", "unknown"}
    BY <2>1 DEF Insertion
  <2>3. MaxFile \in Nat /\ Len(cs[i].readings) \in Nat BY <2>2, SensorDbAssumption, LenProperties
  <2>4. MayHaveStored(cs[i]) \subseteq 0 .. Len(cs[i].readings) BY <2>2, <2>3 DEF MayHaveStored
  <2> QED BY <2>1, <2>2, <2>3, <2>4
<1>3. cs # <<>> => Len(cs) \in DOMAIN cs BY <1>1, EmptySeq
<1> QED BY <1>1, <1>2, <1>3 DEF Last

LEMMA PortionsType ==
  ASSUME NEW cs \in Seq(Insertion), NEW n \in [DOMAIN cs -> 0 .. MaxFile],
         \A i \in DOMAIN cs : n[i] \in MayHaveStored(cs[i])
  PROVE  /\ Portions(cs, n) \in Seq(Seq(Reading)) /\ Len(Portions(cs, n)) = Len(cs)
         /\ \A i \in DOMAIN cs : n[i] \in 0 .. Len(cs[i].readings)
<1>1. \A i \in DOMAIN cs : n[i] \in 0 .. Len(cs[i].readings) BY CallTypes
<1>2. \A i \in DOMAIN cs : SubSeq(cs[i].readings, 1, n[i]) \in Seq(Reading)
  BY <1>1, CallTypes, FirstOf
<1>3. DOMAIN cs = 1 .. Len(cs) /\ Len(cs) \in Nat BY CallTypes
<1>4. Portions(cs, n) \in [1 .. Len(cs) -> Seq(Reading)] BY <1>2, <1>3 DEF Portions
<1>5. Portions(cs, n) \in Seq(Seq(Reading)) BY <1>3, <1>4, SeqDef
<1> QED BY <1>1, <1>3, <1>4, <1>5, LenProperties

(* Nothing has been stored by nobody. *)
LEMMA ToldNothing == ASSUME NEW k PROVE Told(<<>>, <<>>, k)
<1> DEFINE n == [i \in DOMAIN <<>> |-> 0]
<1>1. DOMAIN <<>> = {} BY EmptySeq
<1>2. n \in [DOMAIN <<>> -> 0 .. MaxFile] BY <1>1
<1>3. Portions(<<>>, n) = <<>> BY <1>1 DEF Portions
<1>4. FlattenSeq(Portions(<<>>, n)) = <<>>
  <2>1. Len(<<>>) = 0 BY EmptySeq
  <2> QED BY <1>3, <2>1 DEF FlattenSeq
<1> HIDE DEF n
<1> QED BY <1>1, <1>2, <1>4 DEF Told

(* A call begins: it has stored nothing yet. *)
LEMMA ToldBegin ==
  ASSUME NEW cs \in Seq(Insertion), NEW o, NEW k, Told(cs, o, k),
         NEW c \in Insertion, c.result = "pending"
  PROVE  Told(Append(cs, c), o, 0)
<1> DEFINE m == Len(cs)
           ds == Append(cs, c)
<1>1. PICK n \in [DOMAIN cs -> 0 .. MaxFile] :
        (\A i \in DOMAIN cs : n[i] \in MayHaveStored(cs[i])) /\ o = FlattenSeq(Portions(cs, n))
  BY DEF Told
<1>2. /\ m \in Nat /\ DOMAIN cs = 1 .. m /\ ds \in Seq(Insertion) /\ Len(ds) = m + 1
      /\ DOMAIN ds = 1 .. m + 1 /\ ds[m + 1] = c /\ \A i \in 1 .. m : ds[i] = cs[i]
  <2>1. m \in Nat /\ DOMAIN cs = 1 .. m BY CallTypes
  <2>2. /\ ds \in Seq(Insertion) /\ Len(ds) = m + 1 /\ ds[m + 1] = c
        /\ \A i \in 1 .. m : ds[i] = cs[i]
    BY AppendProperties
  <2>3. DOMAIN ds = 1 .. m + 1 BY <2>2, CallTypes
  <2> QED BY <2>1, <2>2, <2>3
<1> HIDE DEF ds
<1> DEFINE p == [i \in DOMAIN ds |-> IF i = m + 1 THEN 0 ELSE n[i]]
<1>3. 0 \in MayHaveStored(c) /\ c.readings \in Seq(Reading) /\ Len(c.readings) \in Nat /\ MaxFile \in Nat
  <2>1. c = ds[m + 1] /\ m + 1 \in DOMAIN ds BY <1>2
  <2>2. c.readings \in Seq(Reading) /\ Len(c.readings) \in Nat /\ MaxFile \in Nat
    BY <1>2, <2>1, CallTypes
  <2> QED BY <2>2 DEF MayHaveStored
<1>4. p \in [DOMAIN ds -> 0 .. MaxFile] /\ \A i \in DOMAIN ds : p[i] \in MayHaveStored(ds[i])
  BY <1>1, <1>2, <1>3
<1>5. Portions(ds, p) = Append(Portions(cs, n), <<>>)
  <2> DEFINE a == Portions(ds, p)
             b == Append(Portions(cs, n), <<>>)
  <2>1. a \in Seq(Seq(Reading)) /\ Len(a) = m + 1 BY <1>2, <1>4, PortionsType
  <2>2. Portions(cs, n) \in Seq(Seq(Reading)) /\ Len(Portions(cs, n)) = m BY <1>1, PortionsType
  <2>3. /\ b \in Seq(Seq(Reading)) /\ Len(b) = m + 1 /\ b[m + 1] = <<>>
        /\ \A i \in 1 .. m : b[i] = Portions(cs, n)[i]
    BY <2>2, EmptySeq, AppendProperties
  <2>4. ASSUME NEW i \in 1 .. m + 1 PROVE a[i] = b[i]
    <3>0. a[i] = SubSeq(ds[i].readings, 1, p[i]) BY <1>2 DEF Portions
    <3>1. CASE i = m + 1
      <4>1. ds[i].readings = c.readings /\ p[i] = 0 BY <1>2, <3>1
      <4>2. SubSeq(c.readings, 1, 0) = <<>> BY <1>3, FirstOf
      <4> HIDE DEF a, b, p
      <4> QED BY <2>3, <3>0, <3>1, <4>1, <4>2
    <3>2. CASE i \in 1 .. m
      <4>1. p[i] = n[i] /\ ds[i] = cs[i] BY <1>2, <3>2
      <4>2. Portions(cs, n)[i] = SubSeq(cs[i].readings, 1, n[i]) BY <1>2, <3>2 DEF Portions
      <4> HIDE DEF a, b, p
      <4> QED BY <2>3, <3>0, <3>2, <4>1, <4>2
    <3> HIDE DEF a, b, p
    <3>3. i = m + 1 \/ i \in 1 .. m BY <1>2
    <3> QED BY <3>1, <3>2, <3>3
  <2> HIDE DEF a, b
  <2>5. a = b BY <2>1, <2>3, <2>4, SeqEqual
  <2> QED BY <2>5 DEF a, b
<1>6. FlattenSeq(Portions(ds, p)) = o
  <2>1. Portions(cs, n) \in Seq(Seq(Reading)) BY <1>1, PortionsType
  <2>2. FlattenSeq(Append(Portions(cs, n), <<>>)) = FlattenSeq(Portions(cs, n)) \o <<>>
        /\ FlattenSeq(Portions(cs, n)) \in Seq(Reading)
    BY <2>1, FlattenAppend, EmptySeq
  <2>3. FlattenSeq(Portions(cs, n)) \o <<>> = FlattenSeq(Portions(cs, n)) BY <2>2, ConcatEmptySeq
  <2> QED BY <1>1, <1>5, <2>2, <2>3
<1>7. p[Len(ds)] = 0 BY <1>2
<1> HIDE DEF p
<1>8. Told(ds, o, 0) BY <1>4, <1>6, <1>7 DEF Told
<1> QED BY <1>8 DEF ds

(* The call under way stores one more reading. *)
LEMMA ToldRow ==
  ASSUME NEW cs \in Seq(Insertion), NEW o, NEW k \in Nat, Told(cs, o, k),
         cs # <<>>, Last(cs).result = "pending", k < Len(Last(cs).readings)
  PROVE  /\ o \in Seq(Reading)
         /\ Told(cs, Append(o, Last(cs).readings[k + 1]), k + 1)
<1> DEFINE m == Len(cs)
<1>1. PICK n \in [DOMAIN cs -> 0 .. MaxFile] :
        /\ \A i \in DOMAIN cs : n[i] \in MayHaveStored(cs[i])
        /\ n[m] = k /\ o = FlattenSeq(Portions(cs, n))
  BY DEF Told
<1>2. /\ m \in Nat /\ DOMAIN cs = 1 .. m /\ m \in 1 .. m /\ Last(cs) = cs[m]
      /\ cs[m].readings \in Seq(Reading) /\ Len(cs[m].readings) \in Nat
      /\ Len(cs[m].readings) <= MaxFile /\ MaxFile \in Nat
  BY CallTypes
<1>2a. \A i \in 1 .. m : (i = m \/ i \in 1 .. m - 1) /\ \A j \in 1 .. m - 1 : j \in 1 .. m /\ j # m
  <2>1. m \in Nat BY <1>2
  <2> HIDE DEF m
  <2> QED BY <2>1
<1> DEFINE p == [n EXCEPT ![m] = k + 1]
<1>3. p \in [DOMAIN cs -> 0 .. MaxFile] /\ p[m] = k + 1 /\ \A i \in 1 .. m : i # m => p[i] = n[i]
  <2>1. k < Len(cs[m].readings) BY <1>2
  <2>2. k + 1 \in 0 .. MaxFile BY <1>2, <2>1
  <2> QED BY <1>2, <2>2
<1> HIDE DEF p
<1>4. \A i \in DOMAIN cs : p[i] \in MayHaveStored(cs[i])
  <2>1. k + 1 \in MayHaveStored(cs[m]) BY <1>2 DEF MayHaveStored
  <2> QED BY <1>1, <1>2, <1>3, <2>1
<1> DEFINE x == SubSeq(cs[m].readings, 1, k)
           e == cs[m].readings[k + 1]
           front == [i \in 1 .. m - 1 |-> SubSeq(cs[i].readings, 1, n[i])]
<1>5. /\ x \in Seq(Reading) /\ e \in Reading /\ Append(x, e) \in Seq(Reading)
      /\ SubSeq(cs[m].readings, 1, k + 1) = Append(x, e)
  <2>1. k \in 0 .. Len(cs[m].readings) BY <1>2
  <2>2. x \in Seq(Reading) /\ SubSeq(cs[m].readings, 1, k + 1) = Append(x, e) BY <1>2, <2>1, FirstOf
  <2>3. e \in Reading BY <1>2, ElementOfSeq
  <2> QED BY <2>2, <2>3, AppendProperties
<1>6. /\ Portions(cs, n) \in Seq(Seq(Reading)) /\ Len(Portions(cs, n)) = m
      /\ Portions(cs, p) \in Seq(Seq(Reading)) /\ Len(Portions(cs, p)) = m
  BY <1>1, <1>3, <1>4, PortionsType
<1>7. /\ \A i \in 1 .. m - 1 : Portions(cs, n)[i] = front[i] /\ Portions(cs, p)[i] = front[i]
      /\ Portions(cs, n)[m] = x /\ Portions(cs, p)[m] = Append(x, e)
  <2>1. \A i \in 1 .. m : /\ Portions(cs, n)[i] = SubSeq(cs[i].readings, 1, n[i])
                          /\ Portions(cs, p)[i] = SubSeq(cs[i].readings, 1, p[i])
    BY <1>2 DEF Portions
  <2>2. \A i \in 1 .. m - 1 : i \in 1 .. m /\ i # m BY <1>2a
  <2>3. Portions(cs, n)[m] = x BY <1>1, <1>2, <2>1
  <2>4. Portions(cs, p)[m] = Append(x, e) BY <1>2, <1>3, <1>5, <2>1 DEF x, e
  <2>5. \A i \in 1 .. m - 1 : Portions(cs, n)[i] = front[i] /\ Portions(cs, p)[i] = front[i]
    BY <1>3, <2>1, <2>2
  <2> QED BY <2>3, <2>4, <2>5
<1> HIDE DEF x, e
<1>8. front \in Seq(Seq(Reading)) /\ Len(front) = m - 1
  <2>1. \A i \in 1 .. m - 1 : front[i] \in Seq(Reading)
    <3> TAKE i \in 1 .. m - 1
    <3> HIDE DEF front
    <3>1. i \in 1 .. m BY <1>2
    <3>2. Portions(cs, n)[i] \in Seq(Reading) BY <1>6, <3>1, ElementOfSeq
    <3>3. Portions(cs, n)[i] = front[i] BY <1>7
    <3> QED BY <3>2, <3>3
  <2>2. m - 1 \in Nat BY <1>2
  <2>3. front \in [1 .. m - 1 -> Seq(Reading)] BY <2>1
  <2> HIDE DEF front
  <2>4. front \in Seq(Seq(Reading)) BY <2>2, <2>3, SeqDef
  <2> QED BY <2>2, <2>3, <2>4, LenProperties
<1> HIDE DEF front
<1>9. Portions(cs, n) = Append(front, x) /\ Portions(cs, p) = Append(front, Append(x, e))
  <2>1. ASSUME NEW s \in Seq(Seq(Reading)), NEW y \in Seq(Reading), Len(s) = m, s[m] = y,
               \A i \in 1 .. m - 1 : s[i] = front[i]
        PROVE  s = Append(front, y)
    <3> DEFINE t == Append(front, y)
    <3>1. /\ t \in Seq(Seq(Reading)) /\ Len(t) = m /\ t[m] = y
          /\ \A i \in 1 .. m - 1 : t[i] = front[i]
      <4>1. /\ t \in Seq(Seq(Reading)) /\ Len(t) = (m - 1) + 1 /\ t[(m - 1) + 1] = y
            /\ \A i \in 1 .. m - 1 : t[i] = front[i]
        BY <1>8, <2>1, AppendProperties
      <4>2. (m - 1) + 1 = m BY <1>2
      <4> HIDE DEF t
      <4> QED BY <4>1, <4>2
    <3> HIDE DEF t
    <3>2. ASSUME NEW i \in 1 .. m PROVE s[i] = t[i]
      <4>1. i = m \/ i \in 1 .. m - 1 BY <1>2a
      <4>2. i = m => s[i] = t[i] BY <2>1, <3>1
      <4>3. i \in 1 .. m - 1 => s[i] = t[i] BY <2>1, <3>1
      <4> QED BY <4>1, <4>2, <4>3
    <3>3. s = t BY <2>1, <3>1, <3>2, SeqEqual
    <3> QED BY <3>3 DEF t
  <2> QED BY <1>5, <1>6, <1>7, <2>1
<1>10. /\ FlattenSeq(front) \in Seq(Reading)
       /\ o = FlattenSeq(front) \o x
       /\ FlattenSeq(Portions(cs, p)) = FlattenSeq(front) \o Append(x, e)
  BY <1>1, <1>5, <1>8, <1>9, FlattenAppend
<1>11. o \in Seq(Reading) /\ FlattenSeq(Portions(cs, p)) = Append(o, e)
  <2>1. e \in Reading /\ <<e>> \in Seq(Reading) BY <1>5
  <2>2. Append(x, e) = x \o <<e>> BY <1>5, <2>1, AppendIsConcat
  <2>3. FlattenSeq(front) \o (x \o <<e>>) = (FlattenSeq(front) \o x) \o <<e>>
    BY <1>5, <1>10, <2>1, ConcatAssociative
  <2>4. o \in Seq(Reading) BY <1>5, <1>10, ConcatProperties
  <2>5. Append(o, e) = o \o <<e>> BY <2>1, <2>4, AppendIsConcat
  <2> QED BY <1>10, <2>2, <2>3, <2>4, <2>5
<1>12. Last(cs).readings[k + 1] = e BY <1>2 DEF e
<1>13. Told(cs, Append(o, e), k + 1) BY <1>3, <1>4, <1>11 DEF Told
<1> QED BY <1>11, <1>12, <1>13

(* It ends, with a result that fits what it has stored. *)
LEMMA ToldEnd ==
  ASSUME NEW cs \in Seq(Insertion), NEW o, NEW k, Told(cs, o, k),
         cs # <<>>, Last(cs).result = "pending",
         NEW res \in {"ok", "error", "unknown"},
         k \in MayHaveStored([readings |-> Last(cs).readings, result |-> res]), NEW j
  PROVE  /\ Told([cs EXCEPT ![Len(cs)].result = res], o, j)
         /\ [cs EXCEPT ![Len(cs)].result = res] \in Seq(Insertion)
         /\ [cs EXCEPT ![Len(cs)].result = res] # <<>>
         /\ Last([cs EXCEPT ![Len(cs)].result = res])
              = [readings |-> Last(cs).readings, result |-> res]
         /\ \A i \in DOMAIN cs : i # Len(cs) => [cs EXCEPT ![Len(cs)].result = res][i] = cs[i]
<1> DEFINE m == Len(cs)
           new == [readings |-> cs[m].readings, result |-> res]
           ds == [cs EXCEPT ![Len(cs)].result = res]
<1>1. /\ m \in Nat /\ DOMAIN cs = 1 .. m /\ m \in 1 .. m /\ Last(cs) = cs[m] /\ cs[m] \in Insertion
      /\ cs[m].readings \in Seq(Reading)
  BY CallTypes
<1>2. new \in Insertion BY <1>1 DEF Insertion
<1>3. ds = [cs EXCEPT ![m] = new]
  <2>1. [cs[m] EXCEPT !.result = res] = new BY <1>1 DEF Insertion
  <2>2. ds = [cs EXCEPT ![m] = [cs[m] EXCEPT !.result = res]] BY <1>1
  <2> QED BY <2>1, <2>2
<1> HIDE DEF new, ds
<1>4. /\ ds \in Seq(Insertion) /\ Len(ds) = m /\ DOMAIN ds = DOMAIN cs /\ ds[m] = new
      /\ \A i \in DOMAIN cs : i # m => ds[i] = cs[i]
  <2>1. ds \in Seq(Insertion) /\ DOMAIN ds = DOMAIN cs BY <1>1, <1>2, <1>3, ExceptSeq
  <2>2. Len(ds) = m BY <1>1, <2>1, LenProperties
  <2> QED BY <1>1, <1>3, <2>1, <2>2
<1>5. ds # <<>> /\ Last(ds) = new BY <1>1, <1>4, EmptySeq DEF Last
<1>6. PICK n \in [DOMAIN cs -> 0 .. MaxFile] :
        /\ \A i \in DOMAIN cs : n[i] \in MayHaveStored(cs[i])
        /\ n[m] = k /\ o = FlattenSeq(Portions(cs, n))
  BY DEF Told
<1>7. \A i \in DOMAIN ds : n[i] \in MayHaveStored(ds[i])
  <2>1. k \in MayHaveStored(new) BY <1>1 DEF new
  <2> QED BY <1>4, <1>6, <2>1
<1>8. Portions(ds, n) = Portions(cs, n)
  <2>1. \A i \in DOMAIN cs : ds[i].readings = cs[i].readings BY <1>4 DEF new
  <2> QED BY <1>4, <2>1 DEF Portions
<1>9. Last(ds).result # "pending" BY <1>5 DEF new
<1>10. Told(ds, o, j) BY <1>4, <1>6, <1>7, <1>8, <1>9 DEF Told
<1> QED BY <1>1, <1>4, <1>5, <1>10 DEF new, ds

LEMMA ToldAnyway ==
  ASSUME NEW cs, NEW o, NEW k, NEW j, Told(cs, o, k), cs = <<>> \/ Last(cs).result # "pending"
  PROVE  Told(cs, o, j)
BY DEF Told

------------------------------------------------------------------------------
(* The inductive invariant *)

(* Which calls are where, and what they hold. *)
Shape ==
  /\ pc \in {"down", "idle"} => op = "none" /\ conn = NULL
  /\ pc \notin {"down", "idle"} => op # "none"
  /\ pc = "open" => op \notin {"none", "file"} /\ conn = NULL /\ db = NULL
  /\ pc \in {"drop", "create"} => op \in {"clear", "keep"} /\ conn # NULL /\ db = NULL
  /\ pc = "drop" => op = "clear"
  /\ pc = "create" /\ op = "clear" => table = NULL
  /\ pc \in {"step", "stepped"} => Inserting /\ conn # NULL
  /\ pc = "stepped" => todo # <<>> /\ conns[conn] > 0

(* The readings of the insertion under way that are in the table. *)
Stored ==
  IF Inserting THEN Len(Last(calls).readings) - Len(todo) + (IF pc = "stepped" THEN 1 ELSE 0)
               ELSE 0

(* Only the last call can be under way, and what is left of it is its end.  *)
Pending ==
  /\ calls \in Seq(Insertion) /\ todo \in Seq(Reading)
  /\ \A i \in DOMAIN calls : calls[i].result = "pending" => i = Len(calls) /\ Inserting
  /\ Inserting =>
       /\ calls # <<>> /\ Last(calls).result = "pending"
       /\ Len(todo) <= Len(Last(calls).readings)
       /\ \A j \in DOMAIN todo :
            todo[j] = Last(calls).readings[Len(Last(calls).readings) - Len(todo) + j]

(* A row is what its reading says, and each reading stored was a number.    *)
RowsRight ==
  /\ origin \in Seq({r \in Reading : r.value # NaN})
  /\ table # NULL => table = [i \in DOMAIN origin |-> Row(origin[i])]
  /\ \A i \in 1 .. Stored : table # NULL /\ Last(calls).readings[i].value # NaN

Base == TypeOK /\ Shape /\ Pending /\ RowsRight /\ Told(calls, origin, Stored)

------------------------------------------------------------------------------
(* What has been stored of the insertion under way. *)
LEMMA StoredRange ==
  ASSUME Base
  PROVE  /\ Inserting => /\ calls # <<>> /\ Last(calls).readings \in Seq(Reading)
                         /\ Len(Last(calls).readings) \in Nat
                         /\ Stored \in 0 .. Len(Last(calls).readings)
                         /\ todo = <<>> => Stored = Len(Last(calls).readings)
         /\ Inserting /\ todo # <<>> =>
              /\ Len(todo) \in Nat \ {0} /\ Head(todo) \in Reading
              /\ pc # "stepped" => /\ Stored < Len(Last(calls).readings)
                                   /\ Head(todo) = Last(calls).readings[Stored + 1]
         /\ ~Inserting => Stored = 0
         /\ Stored \in Nat
<1>1. /\ calls \in Seq(Insertion) /\ todo \in Seq(Reading) /\ Len(todo) \in Nat
      /\ todo = <<>> <=> Len(todo) = 0
  BY LenProperties, EmptySeq DEF Base, Pending
<1>2. CASE Inserting
  <2> DEFINE s == Last(calls).readings
  <2>1. calls # <<>> /\ s \in Seq(Reading) /\ Len(s) \in Nat
    BY <1>1, <1>2, CallTypes DEF Base, Pending
  <2>2. /\ Len(todo) <= Len(s) /\ \A j \in DOMAIN todo : todo[j] = s[Len(s) - Len(todo) + j]
    BY <1>2 DEF Base, Pending
  <2>3. /\ pc = "stepped" => Stored = Len(s) - Len(todo) + 1 /\ todo # <<>>
        /\ pc # "stepped" => Stored = Len(s) - Len(todo)
    <3>1. pc # "stepped" => Stored = Len(s) - Len(todo) + 0 BY <1>2 DEF Stored
    <3>2. Len(s) - Len(todo) + 0 = Len(s) - Len(todo) BY <1>1, <2>1
    <3> QED BY <1>2, <3>1, <3>2 DEF Stored, Base, Shape
  <2> HIDE DEF s
  <2>4. Stored \in 0 .. Len(s) BY <1>1, <2>1, <2>2, <2>3
  <2>5. todo = <<>> => Stored = Len(s) BY <1>1, <2>1, <2>3
  <2>6. ASSUME todo # <<>>
        PROVE  /\ Len(todo) \in Nat \ {0} /\ Head(todo) \in Reading
               /\ pc # "stepped" => Stored < Len(s) /\ Head(todo) = s[Stored + 1]
    <3>1. Len(todo) \in Nat \ {0} /\ 1 \in DOMAIN todo /\ Head(todo) = todo[1]
      BY <1>1, <2>6, HeadTailProperties, LenProperties
    <3>2. todo[1] \in Reading BY <1>1, <3>1, ElementOfSeq
    <3>3. todo[1] = s[Len(s) - Len(todo) + 1] BY <2>2, <3>1
    <3>4. pc # "stepped" => Stored < Len(s) BY <2>1, <2>3, <3>1
    <3> QED BY <2>3, <3>1, <3>2, <3>3, <3>4
  <2> QED BY <1>2, <2>1, <2>4, <2>5, <2>6 DEF s
<1>3. CASE ~Inserting BY <1>3 DEF Stored
<1> QED BY <1>2, <1>3

(* The call under way ends, and leaves the table as it is. *)
LEMMA Ends ==
  ASSUME Base, NEW res \in {"ok", "error", "unknown"}, Result(res),
         op' = "none", conn' = NULL, loop' = LOOP_TIME, todo' = <<>>, pc' \in {"down", "idle"},
         UNCHANGED <<table, origin>>, refused' \in BOOLEAN,
         conns' \in [DOMAIN conns' -> Nat], DOMAIN conns' \subseteq Conn,
         db' \in DOMAIN conns' \cup {NULL},
         Inserting => Stored \in MayHaveStored([readings |-> Last(calls).readings, result |-> res])
  PROVE  Base'
<1>1. ~Inserting' /\ Stored' = 0 BY DEF Inserting, Stored
<1>2. /\ calls' \in Seq(Insertion) /\ Len(calls') = Len(calls)
      /\ \A i \in DOMAIN calls' : calls'[i].result # "pending"
      /\ Told(calls', origin, 0)
  <2>1. calls \in Seq(Insertion) /\ Len(calls) \in Nat /\ DOMAIN calls = 1 .. Len(calls)
    BY LenProperties DEF Base, Pending
  <2>2. CASE Inserting
    <3> DEFINE m == Len(calls)
    <3>1. calls # <<>> /\ Last(calls).result = "pending" BY <2>2 DEF Base, Pending
    <3>2. calls' = [calls EXCEPT ![Len(calls)].result = res] BY <2>2, <3>1 DEF Result
    <3>3. /\ Told(calls', origin, 0) /\ calls' \in Seq(Insertion) /\ calls' # <<>>
          /\ Last(calls') = [readings |-> Last(calls).readings, result |-> res]
          /\ \A i \in DOMAIN calls : i # Len(calls) => calls'[i] = calls[i]
      BY <2>1, <2>2, <3>1, <3>2, ToldEnd DEF Base
    <3>4. DOMAIN calls' = DOMAIN calls BY <3>2
    <3>5. Len(calls') = Len(calls) BY <2>1, <3>3, <3>4, LenProperties
    <3>6. ASSUME NEW i \in DOMAIN calls' PROVE calls'[i].result # "pending"
      <4>1. CASE i = Len(calls) BY <3>3, <3>5, <4>1, CallTypes
      <4>2. CASE i # Len(calls) BY <3>3, <3>4, <4>2 DEF Base, Pending
      <4> QED BY <4>1, <4>2
    <3> QED BY <3>3, <3>5, <3>6
  <2>3. CASE ~Inserting
    <3>1. calls' = calls BY <2>3 DEF Result
    <3>2. \A i \in DOMAIN calls : calls[i].result # "pending" BY <2>3 DEF Base, Pending
    <3>3. calls = <<>> \/ Last(calls).result # "pending" BY <2>1, <3>2, CallTypes
    <3>4. Told(calls, origin, 0) BY <3>3, ToldAnyway DEF Base
    <3> QED BY <2>1, <3>1, <3>2, <3>4
  <2> QED BY <2>2, <2>3
<1>3. Pending' BY <1>1, <1>2, EmptySeq DEF Pending
<1>4. RowsRight' BY <1>1 DEF Base, RowsRight
<1>5. Shape' BY DEF Shape
<1>6. TypeOK'
  <2>1. LOOP_TIME \in 1 .. LOOP_TIME BY SensorDbAssumption
  <2>2. (table \in Seq(Rows) \cup {NULL})' /\ (table = NULL => origin = <<>>)'
    BY DEF Base, TypeOK
  <2>3. (Len(calls) <= MaxCalls)' BY <1>2 DEF Base, TypeOK
  <2> QED BY <2>1, <2>2, <2>3 DEF TypeOK
<1>7. Told(calls, origin, Stored)' BY <1>1, <1>2
<1> QED BY <1>3, <1>4, <1>5, <1>6, <1>7 DEF Base

(* What holds of the calls and the table stays so when neither changes. *)
LEMMA Kept ==
  ASSUME Base, UNCHANGED <<calls, todo, table, origin>>, Inserting' <=> Inserting,
         Inserting => ((pc' = "stepped") <=> (pc = "stepped"))
  PROVE  Pending' /\ RowsRight' /\ Told(calls, origin, Stored)'
<1>1. Stored' = Stored BY DEF Stored
<1>2. Pending' BY DEF Base, Pending
<1>3. RowsRight' BY <1>1 DEF Base, RowsRight
<1>4. Told(calls, origin, Stored)' BY <1>1 DEF Base
<1> QED BY <1>2, <1>3, <1>4

LEMMA InitBase == Init => Base
<1> SUFFICES ASSUME Init PROVE Base OBVIOUS
<1> USE DEF Init
<1>1. ~Inserting /\ Stored = 0 BY DEF Inserting, Stored
<1>2. calls \in Seq(Insertion) /\ todo \in Seq(Reading) /\ Len(calls) = 0 /\ DOMAIN calls = {}
  BY EmptySeq
<1>3. TypeOK
  <2>1. DOMAIN conns = {} BY EmptySeq
  <2>2. conns \in [DOMAIN conns -> Nat] BY <2>1
  <2>3. LOOP_TIME \in 1 .. LOOP_TIME /\ MaxCalls \in Nat BY SensorDbAssumption
  <2>4. DOMAIN conns \subseteq Conn BY <2>1
  <2>5. Len(calls) <= MaxCalls BY <1>2, <2>3
  <2>6. /\ table \in Seq(Rows) \cup {NULL} /\ (table = NULL => origin = <<>>)
        /\ db \in DOMAIN conns \cup {NULL} /\ conn \in DOMAIN conns \cup {NULL}
        /\ loop \in 1 .. LOOP_TIME /\ refused \in BOOLEAN
    BY <2>3
  <2>7. pc = "down" /\ op = "none" OBVIOUS
  <2> HIDE DEF Init
  <2> QED BY <2>2, <2>4, <2>5, <2>6, <2>7 DEF TypeOK
<1>4. Shape BY DEF Shape
<1>5. Pending
  <2> HIDE DEF Init
  <2> QED BY <1>1, <1>2 DEF Pending
<1>6. RowsRight BY <1>1, EmptySeq DEF RowsRight
<1>7. Told(calls, origin, Stored) BY ToldNothing
<1> QED BY <1>3, <1>4, <1>5, <1>6, <1>7 DEF Base

(* The process exits, whatever it was doing. *)
LEMMA DownStep == Base /\ Down /\ UNCHANGED <<table, origin>> => Base'
<1> SUFFICES ASSUME Base, Down, UNCHANGED <<table, origin>> PROVE Base' OBVIOUS
<1>1. DOMAIN conns' = {} BY EmptySeq DEF Down
<1>2. conns' \in [DOMAIN conns' -> Nat] BY <1>1, EmptySeq DEF Down
<1>3. ASSUME Inserting
      PROVE  Stored \in MayHaveStored([readings |-> Last(calls).readings, result |-> "unknown"])
  <2> DEFINE c == [readings |-> Last(calls).readings, result |-> "unknown"]
  <2>1. Stored \in 0 .. Len(c.readings) /\ c.result = "unknown" BY <1>3, StoredRange
  <2> HIDE DEF c
  <2>2. Stored \in MayHaveStored(c) BY <2>1 DEF MayHaveStored
  <2> QED BY <2>2 DEF c
<1> QED BY <1>1, <1>2, <1>3, Ends DEF Down

(* A call returns without having done anything to the table. *)
LEMMA ReturnStep ==
  ASSUME Base, NEW res \in {"ok", "error"}, Return(res), UNCHANGED <<table, origin>>,
         refused' \in BOOLEAN, conns' \in [DOMAIN conns' -> Nat], DOMAIN conns' \subseteq Conn,
         db' \in DOMAIN conns' \cup {NULL},
         Inserting => IF res = "ok" THEN Stored = Len(Last(calls).readings)
                                    ELSE Stored < Len(Last(calls).readings)
  PROVE  Base'
<1>1. ASSUME Inserting
      PROVE  Stored \in MayHaveStored([readings |-> Last(calls).readings, result |-> res])
  <2>1. Stored \in 0 .. Len(Last(calls).readings) /\ Len(Last(calls).readings) \in Nat
    BY <1>1, StoredRange
  <2>2. CASE res = "ok" BY <1>1, <2>1, <2>2 DEF MayHaveStored
  <2>3. CASE res = "error"
    <3>1. Stored \in 0 .. Len(Last(calls).readings) - 1 BY <1>1, <2>1, <2>3
    <3> QED BY <2>3, <3>1 DEF MayHaveStored
  <2> QED BY <2>2, <2>3
<1> QED BY <1>1, Ends DEF Return

LEMMA CrashStep == Base /\ Crash => Base' BY DownStep DEF Crash

LEMMA StartStep == Base /\ Start => Base'
<1> SUFFICES ASSUME Base, Start PROVE Base' OBVIOUS
<1>1. Pending' /\ RowsRight' /\ Told(calls, origin, Stored)'
  <2>1. ~Inserting /\ ~Inserting' BY DEF Base, Shape, Start, call, Inserting
  <2> QED BY <2>1, Kept DEF Start, call
<1>2. TypeOK' BY DEF Start, call, Base, TypeOK
<1>3. Shape' BY DEF Start, call, Base, Shape
<1> QED BY <1>1, <1>2, <1>3 DEF Base

(* init_connection and retry_connection begin. *)
LEMMA OpeningStep ==
  ASSUME Base, NEW name \in {"clear", "keep", "retry"}, db = NULL, Begin(name, "open"),
         UNCHANGED <<table, conns, db, conn, loop, todo, calls, origin>>
  PROVE  Base'
<1>1. Pending' /\ RowsRight' /\ Told(calls, origin, Stored)'
  <2>1. ~Inserting /\ ~Inserting' BY DEF Base, Shape, Begin, Inserting
  <2> QED BY <2>1, Kept
<1>2. TypeOK' BY DEF Begin, Base, TypeOK
<1>3. Shape' BY DEF Begin, Base, Shape
<1> QED BY <1>1, <1>2, <1>3 DEF Base

LEMMA disconnectStep == Base /\ disconnect => Base'
<1> SUFFICES ASSUME Base, disconnect PROVE Base' OBVIOUS
<1>1. Pending' /\ RowsRight' /\ Told(calls, origin, Stored)'
  <2>1. ~Inserting /\ ~Inserting' BY DEF Base, Shape, disconnect, call, Inserting
  <2> QED BY <2>1, Kept DEF disconnect, call
<1>2. conns' \in [DOMAIN conns' -> Nat] /\ DOMAIN conns' \subseteq Conn
  <2>1. conns \in [DOMAIN conns -> Nat] /\ DOMAIN conns \subseteq Conn BY DEF Base, TypeOK
  <2>2. CASE conns[db] = 0
    <3>1. conns' = [c \in {c \in DOMAIN conns : c # db} |-> conns[c]]
      BY <2>2 DEF disconnect, RestrictDomain, Restrict
    <3> QED BY <2>1, <3>1
  <2>3. CASE conns[db] # 0 BY <2>1, <2>3 DEF disconnect
  <2> QED BY <2>2, <2>3
<1>3. TypeOK'
  <2>1. conn' = NULL BY DEF disconnect, call, Base, Shape
  <2> QED BY <1>2, <2>1 DEF disconnect, call, Base, TypeOK
<1>4. Shape' BY DEF disconnect, call, Base, Shape
<1> QED BY <1>1, <1>3, <1>4 DEF Base

LEMMA OpenStep == ASSUME Base, NEW c \in Conn, Open(c) PROVE Base'
<1> USE DEF Open
<1>1. c # NULL BY SensorDbAssumption
<1>2. /\ conns' \in [DOMAIN conns' -> Nat] /\ DOMAIN conns' = {c} \cup DOMAIN conns
      /\ DOMAIN conns' \subseteq Conn
  <2>1. conns \in [DOMAIN conns -> Nat] /\ DOMAIN conns \subseteq Conn BY DEF Base, TypeOK
  <2> QED BY <2>1
<1>3. pc = "open" /\ op \notin {"none", "file"} /\ conn = NULL /\ db = NULL BY DEF Base, Shape
<1>4. CASE op = "retry"
  <2>1. ~Inserting BY <1>4 DEF Inserting
  <2> QED BY <1>2, <1>4, <2>1, ReturnStep DEF Base, TypeOK
<1>5. CASE op # "retry"
  <2>1. conn' = c /\ UNCHANGED <<db, op, loop, todo, calls, table, origin, refused>> BY <1>5
  <2>2. op \in {"clear", "keep", "insert", "parse"} BY <1>3, <1>5 DEF Base, TypeOK
  <2>3. /\ op = "clear" => pc' = "drop"
        /\ op = "keep" => pc' = "create"
        /\ op \in {"insert", "parse"} => pc' = "step"
    BY <1>5
  <2>4. Pending' /\ RowsRight' /\ Told(calls, origin, Stored)'
    <3>1. pc' # "stepped" /\ pc # "stepped" BY <1>3, <2>2, <2>3
    <3>2. Inserting' <=> Inserting BY <2>1 DEF Inserting
    <3> QED BY <2>1, <3>1, <3>2, Kept
  <2>5. TypeOK'
    <3>1. db' \in DOMAIN conns' \cup {NULL} /\ conn' \in DOMAIN conns' \cup {NULL}
      BY <1>2, <1>3, <2>1
    <3>2. pc' \in {"drop", "create", "step"} BY <2>2, <2>3
    <3> QED BY <1>2, <2>1, <3>1, <3>2 DEF Base, TypeOK
  <2>6. Shape' BY <1>1, <1>3, <2>1, <2>2, <2>3 DEF Shape, Inserting
  <2> QED BY <2>4, <2>5, <2>6 DEF Base
<1> QED BY <1>4, <1>5

LEMMA OpenFailsStep == Base /\ OpenFails => Base'
<1> SUFFICES ASSUME Base, OpenFails PROVE Base' OBVIOUS
<1>1. CASE loop = 1 BY <1>1, DownStep DEF OpenFails
<1>2. CASE loop # 1
  <2>1. loop' = loop - 1 /\ UNCHANGED <<conns, db, pc, op, conn, todo, calls, refused, table, origin>>
    BY <1>2 DEF OpenFails
  <2>2. Pending' /\ RowsRight' /\ Told(calls, origin, Stored)' BY <2>1, Kept DEF Inserting
  <2>3. TypeOK'
    <3>1. loop' \in 1 .. LOOP_TIME BY <1>2, <2>1, SensorDbAssumption DEF Base, TypeOK
    <3> QED BY <2>1, <3>1 DEF Base, TypeOK
  <2>4. Shape' BY <2>1 DEF Base, Shape, Inserting
  <2> QED BY <2>2, <2>3, <2>4 DEF Base
<1> QED BY <1>1, <1>2

LEMMA DropStep == Base /\ Drop => Base'
<1> SUFFICES ASSUME Base, Drop PROVE Base' OBVIOUS
<1> USE DEF Drop, call
<1>1. op = "clear" /\ conn # NULL /\ db = NULL BY DEF Base, Shape
<1>2. ~Inserting' /\ Stored' = 0 BY <1>1 DEF Inserting, Stored
<1>3. calls' \in Seq(Insertion) /\ Len(calls') = 0 /\ DOMAIN calls' = {} BY EmptySeq
<1>4. TypeOK'
  <2>1. Len(calls') <= MaxCalls BY <1>3, SensorDbAssumption
  <2> QED BY <2>1 DEF Base, TypeOK
<1>5. Shape' BY <1>1 DEF Shape
<1>6. Pending' BY <1>2, <1>3 DEF Base, Pending
<1>7. RowsRight' BY <1>2, EmptySeq DEF RowsRight
<1>8. Told(calls, origin, Stored)' BY ToldNothing
<1> QED BY <1>4, <1>5, <1>6, <1>7, <1>8 DEF Base

LEMMA CreateStep == Base /\ Create => Base'
<1> SUFFICES ASSUME Base, Create PROVE Base' OBVIOUS
<1> USE DEF Create, Return
<1>1. ~Inserting /\ origin = <<>> /\ conn # NULL BY DEF Base, TypeOK, Shape, Inserting
<1>2. ~Inserting' /\ Stored' = 0 /\ calls' = calls BY <1>1 DEF Inserting, Stored, Result
<1>3. table' \in Seq(Rows) /\ table' # NULL BY EmptySeq, SensorDbAssumption
<1>4. TypeOK'
  <2>1. LOOP_TIME \in 1 .. LOOP_TIME BY SensorDbAssumption
  <2>2. db' \in DOMAIN conns' \cup {NULL} BY DEF Base, TypeOK
  <2> QED BY <1>2, <1>3, <2>1, <2>2 DEF Base, TypeOK
<1>5. Shape' BY DEF Shape
<1>6. Pending'
  <2>1. todo' \in Seq(Reading) BY EmptySeq
  <2> QED BY <1>1, <1>2, <2>1 DEF Base, Pending
<1>7. RowsRight'
  <2>1. table' = [i \in DOMAIN origin' |-> Row(origin'[i])] BY <1>1, EmptySeq
  <2> QED BY <1>2, <2>1 DEF Base, RowsRight
<1>8. Told(calls, origin, Stored)'
  <2>1. Stored = 0 BY <1>1 DEF Stored
  <2> QED BY <1>2, <2>1 DEF Base
<1> QED BY <1>4, <1>5, <1>6, <1>7, <1>8 DEF Base

LEMMA ExecFailsStep ==
  ASSUME Base, ExecFails, pc \in {"drop", "create"}, refused' \in BOOLEAN PROVE Base'
<1>1. ~Inserting BY DEF Base, Shape, Inserting
<1> QED BY <1>1, ReturnStep DEF ExecFails, Base, TypeOK

LEMMA ReadingsType ==
  /\ \A rs \in Readings : rs \in Seq(Reading) /\ Len(rs) <= MaxFile
  /\ \A r \in Reading : <<r>> \in Seq(Reading) /\ Len(<<r>>) <= MaxFile
<1>1. MaxFile \in Nat \ {0} BY SensorDbAssumption
<1>2. ASSUME NEW rs \in Readings PROVE rs \in Seq(Reading) /\ Len(rs) <= MaxFile
  <2>1. PICK n \in 0 .. MaxFile : rs \in [1 .. n -> Reading] BY DEF Readings
  <2>2. n \in Nat BY <1>1
  <2>3. rs \in Seq(Reading) BY <2>1, <2>2, SeqDef
  <2>4. Len(rs) = n BY <2>1, <2>2, <2>3, LenProperties
  <2> QED BY <1>1, <2>3, <2>4
<1> QED BY <1>1, <1>2

LEMMA BeginInsertStep ==
  ASSUME Base, NEW name \in {"insert", "file", "parse"}, NEW readings \in Seq(Reading),
         Len(readings) <= MaxFile, BeginInsert(name, readings), name = "file" => db # NULL
  PROVE  Base'
<1> DEFINE new == [readings |-> readings, result |-> "pending"]
<1>1. /\ pc = "idle" /\ op' = name /\ pc' = (IF db = NULL THEN "open" ELSE "step")
      /\ refused' = FALSE /\ conn' = db /\ todo' = readings /\ calls' = Append(calls, new)
      /\ UNCHANGED <<table, conns, db, loop, origin>>
  BY DEF BeginInsert, Begin
<1>2. new \in Insertion /\ calls \in Seq(Insertion) /\ Len(calls) \in Nat
  BY LenProperties DEF Insertion, Base, Pending
<1>3. ~Inserting BY <1>1 DEF Base, Shape, Inserting
<1>4. /\ calls' \in Seq(Insertion) /\ calls' # <<>> /\ Len(calls') = Len(calls) + 1
      /\ calls'[Len(calls) + 1] = new /\ \A i \in 1 .. Len(calls) : calls'[i] = calls[i]
      /\ DOMAIN calls' = 1 .. Len(calls) + 1
  <2> HIDE DEF new
  <2>1. /\ calls' \in Seq(Insertion) /\ calls' # <<>> /\ Len(calls') = Len(calls) + 1
        /\ calls'[Len(calls) + 1] = new /\ \A i \in 1 .. Len(calls) : calls'[i] = calls[i]
    BY <1>1, <1>2, AppendProperties
  <2> QED BY <2>1, LenProperties
<1>5. Last(calls').readings = readings /\ Last(calls').result = "pending"
  BY <1>4 DEF Last
<1>6. Inserting' /\ Stored' = 0
  <2>1. Inserting' BY <1>1 DEF Inserting
  <2>2. Len(readings) \in Nat /\ pc' # "stepped" BY <1>1, LenProperties
  <2>3. Stored' = Len(readings) - Len(readings) + 0 BY <1>1, <1>5, <2>1, <2>2 DEF Stored
  <2> QED BY <2>1, <2>2, <2>3
<1>7. TypeOK'
  <2>1. Len(calls') <= MaxCalls BY <1>2, <1>4, SensorDbAssumption DEF BeginInsert
  <2>2. db \in DOMAIN conns \cup {NULL} BY DEF Base, TypeOK
  <2>3. op' \in {"insert", "file", "parse"} /\ pc' \in {"open", "step"} BY <1>1
  <2> QED BY <1>1, <2>1, <2>2, <2>3 DEF Base, TypeOK
<1>8. Shape' BY <1>1, <1>6 DEF Shape
<1>9. Pending'
  <2>1. \A i \in DOMAIN calls' : calls'[i].result = "pending" => i = Len(calls')
    <3> TAKE i \in DOMAIN calls'
    <3>1. i = Len(calls) + 1 \/ i \in 1 .. Len(calls) BY <1>2, <1>4
    <3>2. i \in 1 .. Len(calls) => calls'[i].result # "pending"
      BY <1>2, <1>3, <1>4, CallTypes DEF Base, Pending
    <3> QED BY <1>4, <3>1, <3>2
  <2>2. Len(readings) \in Nat /\ DOMAIN readings = 1 .. Len(readings) BY LenProperties
  <2>3. \A j \in DOMAIN readings : readings[j] = readings[Len(readings) - Len(readings) + j]
    BY <2>2
  <2> HIDE DEF new
  <2> QED BY <1>1, <1>4, <1>5, <1>6, <2>1, <2>2, <2>3 DEF Pending
<1>10. RowsRight' BY <1>1, <1>6 DEF Base, RowsRight
<1>11. Told(calls, origin, Stored)' BY <1>1, <1>2, <1>6, ToldBegin DEF Base
<1> QED BY <1>7, <1>8, <1>9, <1>10, <1>11 DEF Base

(* A statement cannot be prepared, or is refused. *)
LEMMA InsertFailsStep ==
  ASSUME Base, NEW statements \in {0, 1}, pc = "step", todo # <<>>, InsertFails(statements)
  PROVE  Base'
<1> USE DEF InsertFails
<1>1. CASE op = "parse" BY <1>1, DownStep
<1>2. CASE op # "parse"
  <2>1. Inserting /\ conn \in DOMAIN conns BY DEF Base, Shape, TypeOK
  <2>2. conns' \in [DOMAIN conns' -> Nat] /\ DOMAIN conns' = DOMAIN conns
    <3>1. conns \in [DOMAIN conns -> Nat] BY DEF Base, TypeOK
    <3>2. conns[conn] + statements \in Nat BY <2>1, <3>1
    <3> QED BY <1>2, <2>1, <3>1, <3>2
  <2>3. refused' \in BOOLEAN /\ DOMAIN conns' \subseteq Conn /\ db' \in DOMAIN conns' \cup {NULL}
    BY <1>2, <2>2 DEF Base, TypeOK
  <2>4. Stored < Len(Last(calls).readings) BY <2>1, StoredRange
  <2> QED BY <1>2, <2>2, <2>3, <2>4, ReturnStep
<1> QED BY <1>1, <1>2

LEMMA RowsAppend ==
  ASSUME NEW s \in Seq({r \in Reading : r.value # NaN}), NEW e \in Reading, e.value # NaN
  PROVE  /\ Append(s, e) \in Seq({r \in Reading : r.value # NaN})
         /\ [i \in DOMAIN s |-> Row(s[i])] \in Seq(Rows)
         /\ Append([i \in DOMAIN s |-> Row(s[i])], Row(e)) \in Seq(Rows)
         /\ Append([i \in DOMAIN s |-> Row(s[i])], Row(e))
              = [i \in DOMAIN Append(s, e) |-> Row(Append(s, e)[i])]
<1> DEFINE good == {r \in Reading : r.value # NaN}
           t == Append(s, e)
           a == [i \in DOMAIN s |-> Row(s[i])]
           b == [i \in DOMAIN t |-> Row(t[i])]
           c == Append(a, Row(e))
<1>1. \A r \in good : Row(r) \in Rows BY RowType
<1>2. e \in good OBVIOUS
<1> HIDE DEF good
<1>3. s \in Seq(good) /\ Len(s) \in Nat /\ DOMAIN s = 1 .. Len(s) BY LenProperties DEF good
<1>4. /\ t \in Seq(good) /\ Len(t) = Len(s) + 1 /\ t[Len(s) + 1] = e
      /\ \A i \in 1 .. Len(s) : t[i] = s[i]
  BY <1>2, <1>3, AppendProperties
<1>5. \A i \in 1 .. Len(s) : s[i] \in good BY <1>3, ElementOfSeq
<1>6. a \in Seq(Rows) /\ Len(a) = Len(s)
  <2>1. a \in [1 .. Len(s) -> Rows] BY <1>1, <1>3, <1>5
  <2> HIDE DEF a
  <2> QED BY <1>3, <2>1, SeqDef, LenProperties
<1>7. \A i \in 1 .. Len(s) : a[i] = Row(s[i]) BY <1>3
<1> HIDE DEF a
<1>8. /\ c \in Seq(Rows) /\ Len(c) = Len(s) + 1 /\ c[Len(s) + 1] = Row(e)
      /\ \A i \in 1 .. Len(s) : c[i] = a[i]
  BY <1>1, <1>2, <1>6, AppendProperties
<1>9. DOMAIN t = 1 .. Len(s) + 1 /\ DOMAIN c = 1 .. Len(s) + 1 BY <1>4, <1>8, LenProperties
<1>10. \A i \in 1 .. Len(s) + 1 : i = Len(s) + 1 \/ i \in 1 .. Len(s) BY <1>3
<1> HIDE DEF t, c
<1>11. \A i \in 1 .. Len(s) + 1 : c[i] = Row(t[i]) BY <1>4, <1>7, <1>8, <1>10
<1>12. c = [i \in DOMAIN c |-> c[i]] BY <1>8, SeqDef
<1>13. c = b BY <1>9, <1>11, <1>12
<1> QED BY <1>4, <1>6, <1>8, <1>13 DEF good, t, a, c

LEMMA StepStep == Base /\ Step => Base'
<1> SUFFICES ASSUME Base, Step PROVE Base' OBVIOUS
<1> DEFINE s == Last(calls).readings
           e == Head(todo)
<1>1. /\ pc = "step" /\ todo # <<>> /\ e.value # NaN /\ table # NULL /\ pc' = "stepped"
      /\ table' = Append(table, Row(e)) /\ origin' = Append(origin, e)
      /\ conns' = [conns EXCEPT ![conn] = @ + 1]
      /\ UNCHANGED <<db, op, conn, loop, todo, calls, refused>>
  BY DEF Step, NotPrepared, call
<1>2. Inserting /\ Inserting' /\ conn # NULL /\ conn \in DOMAIN conns
  BY <1>1 DEF Base, Shape, TypeOK, Inserting
<1>3. /\ calls # <<>> /\ Stored \in Nat /\ Stored < Len(s) /\ e = s[Stored + 1] /\ e \in Reading
      /\ Len(s) \in Nat /\ Len(todo) \in Nat
  BY <1>1, <1>2, StoredRange
<1>4. Last(calls).result = "pending" BY <1>2 DEF Base, Pending
<1>5. Stored' = Stored + 1
  <2>1. Stored = Len(s) - Len(todo) + 0 BY <1>1, <1>2 DEF Stored
  <2>2. Stored' = Len(s) - Len(todo) + 1 BY <1>1, <1>2 DEF Stored
  <2> HIDE DEF s
  <2> QED BY <1>3, <2>1, <2>2
<1>6. /\ origin' \in Seq({r \in Reading : r.value # NaN}) /\ table' \in Seq(Rows)
      /\ table' = [i \in DOMAIN origin' |-> Row(origin'[i])]
  <2>1. origin \in Seq({r \in Reading : r.value # NaN}) /\ table = [i \in DOMAIN origin |-> Row(origin[i])]
    BY <1>1 DEF Base, RowsRight
  <2>2. e \in Reading /\ e.value # NaN BY <1>1, <1>3
  <2> HIDE DEF e
  <2> QED BY <1>1, <2>1, <2>2, RowsAppend
<1>7. table' # NULL BY <1>6, SensorDbAssumption
<1>8. conns' \in [DOMAIN conns' -> Nat] /\ DOMAIN conns' = DOMAIN conns /\ conns'[conn] > 0
  <2>1. conns \in [DOMAIN conns -> Nat] BY DEF Base, TypeOK
  <2> QED BY <1>1, <1>2, <2>1
<1>9. TypeOK'
  <2>1. TypeOK BY DEF Base
  <2>2. (table \in Seq(Rows) \cup {NULL})' /\ (table = NULL => origin = <<>>)' BY <1>6, <1>7
  <2>3. (db \in DOMAIN conns \cup {NULL})' /\ (conn \in DOMAIN conns \cup {NULL})'
    BY <1>1, <1>8, <2>1 DEF TypeOK
  <2>4. (Len(calls) <= MaxCalls)' BY <1>1, <2>1 DEF TypeOK
  <2> HIDE DEF e
  <2> QED BY <1>1, <1>8, <2>1, <2>2, <2>3, <2>4 DEF TypeOK
<1>10. Shape'
  <2>1. op # "none" BY <1>1 DEF Base, Shape
  <2> QED BY <1>1, <1>2, <1>8, <2>1 DEF Shape
<1>11. Pending' BY <1>1, <1>2 DEF Base, Pending
<1>12. RowsRight'
  <2>1. \A i \in 1 .. Stored : s[i].value # NaN BY DEF Base, RowsRight
  <2> HIDE DEF s
  <2>2. \A i \in 1 .. Stored + 1 : i = Stored + 1 \/ i \in 1 .. Stored BY <1>3
  <2>3. \A i \in 1 .. Stored' : s[i].value # NaN BY <1>1, <1>3, <1>5, <2>1, <2>2
  <2> QED BY <1>1, <1>6, <1>7, <2>3 DEF RowsRight, s
<1>13. Told(calls, origin, Stored)'
  <2>1. Told(calls, Append(origin, s[Stored + 1]), Stored + 1)
    BY <1>3, <1>4, ToldRow DEF Base, Pending
  <2>2. e = s[Stored + 1] BY <1>3
  <2> HIDE DEF s, e
  <2> QED BY <1>1, <1>5, <2>1, <2>2
<1> QED BY <1>9, <1>10, <1>11, <1>12, <1>13 DEF Base

LEMMA FinalizeStep == Base /\ Finalize => Base'
<1> SUFFICES ASSUME Base, Finalize PROVE Base' OBVIOUS
<1> DEFINE s == Last(calls).readings
<1> USE DEF Finalize
<1>1. /\ Inserting /\ conn # NULL /\ conn \in DOMAIN conns /\ todo # <<>> /\ conns[conn] > 0
  BY DEF Base, Shape, TypeOK
<1>2. conns' \in [DOMAIN conns' -> Nat] /\ DOMAIN conns' = DOMAIN conns
  <2>1. conns \in [DOMAIN conns -> Nat] BY DEF Base, TypeOK
  <2>2. conns[conn] - 1 \in Nat BY <1>1, <2>1
  <2> QED BY <2>1, <2>2
<1>3. /\ calls # <<>> /\ Stored \in Nat /\ Len(s) \in Nat /\ Len(todo) \in Nat \ {0}
      /\ Stored = Len(s) - Len(todo) + 1
  <2>1. Stored = Len(s) - Len(todo) + 1 BY <1>1 DEF Stored
  <2>2. calls # <<>> /\ Stored \in Nat /\ Len(s) \in Nat /\ Len(todo) \in Nat \ {0}
    BY <1>1, StoredRange
  <2> QED BY <2>1, <2>2
<1>4. CASE Len(todo) = 1 /\ op # "parse"
  <2>1. Stored = Len(s)
    <3> HIDE DEF s
    <3> QED BY <1>3, <1>4
  <2> QED BY <1>2, <1>4, <2>1, ReturnStep DEF Base, TypeOK
<1>5. CASE ~(Len(todo) = 1 /\ op # "parse")
  <2>1. /\ todo' = Tail(todo) /\ pc' = "step"
        /\ UNCHANGED <<op, conn, loop, calls, table, db, origin, refused>>
    BY <1>5
  <2>2. todo \in Seq(Reading) BY DEF Base, Pending
  <2>3. /\ todo' \in Seq(Reading) /\ Len(todo') = Len(todo) - 1 /\ DOMAIN todo' = 1 .. Len(todo) - 1
        /\ DOMAIN todo = 1 .. Len(todo) /\ \A i \in 1 .. Len(todo) - 1 : todo'[i] = todo[i + 1]
    <3>1. /\ todo' \in Seq(Reading) /\ Len(todo') = Len(todo) - 1
          /\ \A i \in 1 .. Len(todo) - 1 : todo'[i] = todo[i + 1]
      BY <1>1, <2>1, <2>2, HeadTailProperties
    <3> QED BY <2>2, <3>1, LenProperties
  <2>4. Inserting' BY <1>1, <2>1 DEF Inserting
  <2>5. Stored' = Stored
    <3>1. Stored' = Len(s) - (Len(todo) - 1) + 0 BY <2>1, <2>3, <2>4 DEF Stored
    <3> HIDE DEF s
    <3> QED BY <1>3, <3>1
  <2>6. TypeOK'
    <3>1. TypeOK BY DEF Base
    <3>2. (db \in DOMAIN conns \cup {NULL})' /\ (conn \in DOMAIN conns \cup {NULL})'
          /\ (DOMAIN conns \subseteq Conn)' /\ (conns \in [DOMAIN conns -> Nat])'
      BY <1>2, <2>1, <3>1 DEF TypeOK
    <3> HIDE DEF Finalize
    <3> QED BY <2>1, <3>1, <3>2 DEF TypeOK
  <2>7. Shape'
    <3>1. op # "none" BY DEF Base, Shape
    <3> QED BY <1>1, <2>1, <2>4, <3>1 DEF Shape
  <2>8. Pending'
    <3>1. Len(todo) <= Len(s) /\ \A j \in DOMAIN todo : todo[j] = s[Len(s) - Len(todo) + j]
      BY <1>1 DEF Base, Pending
    <3>2. Len(todo') <= Len(s) BY <1>3, <2>3, <3>1
    <3>3. ASSUME NEW j \in DOMAIN todo' PROVE todo'[j] = s[Len(s) - Len(todo') + j]
      <4> HIDE DEF s
      <4>1. j \in 1 .. Len(todo) - 1 BY <2>3, <3>3
      <4>2. j + 1 \in DOMAIN todo BY <1>3, <2>3, <4>1
      <4>3. Len(s) - Len(todo) + (j + 1) = Len(s) - Len(todo') + j
        <5>1. Len(s) \in Nat /\ Len(todo) \in Nat /\ j \in Nat /\ Len(todo') = Len(todo) - 1
          BY <1>3, <2>3, <4>1
        <5> QED BY ONLY <5>1
      <4>4. todo[j + 1] = s[Len(s) - Len(todo) + (j + 1)] BY <3>1, <4>2
      <4>5. todo'[j] = todo[j + 1] BY <2>3, <4>1
      <4> QED BY ONLY <4>3, <4>4, <4>5, Zenon
    <3>4. /\ calls \in Seq(Insertion) /\ calls # <<>> /\ Last(calls).result = "pending"
          /\ \A i \in DOMAIN calls : calls[i].result = "pending" => i = Len(calls)
      BY <1>1 DEF Base, Pending
    <3> QED BY <2>1, <2>3, <2>4, <3>2, <3>3, <3>4 DEF Pending
  <2>9. RowsRight' BY <2>1, <2>5 DEF Base, RowsRight
  <2>10. Told(calls, origin, Stored)' BY <2>1, <2>5 DEF Base
  <2> QED BY <2>6, <2>7, <2>8, <2>9, <2>10 DEF Base
<1> QED BY <1>4, <1>5

LEMMA NothingLeftStep == Base /\ NothingLeft => Base'
<1> SUFFICES ASSUME Base, NothingLeft PROVE Base' OBVIOUS
<1>1. CASE Down BY <1>1, DownStep DEF NothingLeft
<1>2. CASE Return("ok") /\ UNCHANGED <<conns, db, refused>>
  <2>1. Inserting /\ todo = <<>> /\ UNCHANGED <<table, origin>> BY DEF NothingLeft, Base, Shape
  <2>2. Stored = Len(Last(calls).readings) BY <2>1, StoredRange
  <2> QED BY <1>2, <2>1, <2>2, ReturnStep DEF Base, TypeOK
<1> QED BY <1>1, <1>2 DEF NothingLeft

LEMMA NextBase == Base /\ [Next]_vars => Base'
<1> SUFFICES ASSUME Base, [Next]_vars PROVE Base' OBVIOUS
<1>1. CASE Caller
  <2>1. CASE Start BY <2>1, StartStep
  <2>2. CASE retry_connection BY <2>2, OpeningStep DEF retry_connection
  <2>3. CASE disconnect BY <2>3, disconnectStep
  <2>4. ASSUME NEW flag \in {"clear", "keep"}, init_connection(flag) PROVE Base'
    BY <2>4, OpeningStep DEF init_connection
  <2>5. ASSUME NEW r \in Reading, insert_sensor(r) PROVE Base'
    BY <2>5, ReadingsType, BeginInsertStep DEF insert_sensor
  <2>6. ASSUME NEW rs \in Readings, insert_sensor_from_file(rs) PROVE Base'
    BY <2>6, ReadingsType, BeginInsertStep DEF insert_sensor_from_file
  <2>7. ASSUME NEW rs \in Readings, storagemgr_parse_sensor_data(rs) PROVE Base'
    BY <2>7, ReadingsType, BeginInsertStep DEF storagemgr_parse_sensor_data
  <2> QED BY <1>1, <2>1, <2>2, <2>3, <2>4, <2>5, <2>6, <2>7 DEF Caller
<1>2. CASE Database
  <2>1. CASE OpenFails BY <2>1, OpenFailsStep
  <2>2. ASSUME NEW c \in Conn, Open(c) PROVE Base' BY <2>2, OpenStep
  <2>3. CASE Drop BY <2>3, DropStep
  <2>4. CASE Create BY <2>4, CreateStep
  <2>5. CASE CreateInvalid BY <2>5, ExecFailsStep DEF CreateInvalid, Base, TypeOK
  <2>6. CASE ExecRefused BY <2>6, ExecFailsStep DEF ExecRefused
  <2>7. CASE Step BY <2>7, StepStep
  <2>8. CASE StepInvalid BY <2>8, InsertFailsStep DEF StepInvalid
  <2>9. CASE StepRefused BY <2>9, InsertFailsStep DEF StepRefused
  <2>10. CASE Finalize BY <2>10, FinalizeStep
  <2>11. CASE NothingLeft BY <2>11, NothingLeftStep
  <2> QED BY <1>2, <2>1, <2>2, <2>3, <2>4, <2>5, <2>6, <2>7, <2>8, <2>9, <2>10, <2>11 DEF Database
<1>3. CASE Crash BY <1>3, CrashStep
<1>4. CASE UNCHANGED vars
  <2> USE <1>4 DEF vars, call
  <2>1. Pending' /\ RowsRight' /\ Told(calls, origin, Stored)' BY Kept DEF Inserting
  <2>2. TypeOK' BY DEF Base, TypeOK
  <2>3. Shape' BY DEF Base, Shape, Inserting
  <2> QED BY <2>1, <2>2, <2>3 DEF Base
<1> QED BY <1>1, <1>2, <1>3, <1>4 DEF Next

(* The inductive invariant holds in every reachable state.                  *)
THEOREM Invariant == Spec => []Base
BY InitBase, NextBase, PTL DEF Spec

(* No reading that a call has acknowledged is missing, none is stored twice *)
(* or out of order, and a failed or interrupted call has stored a beginning *)
(* of its readings: for any file, any readings, however often the process   *)
(* crashes (insert_sensor, insert_sensor_from_file and                      *)
(* storagemgr_parse_sensor_data).                                           *)
THEOREM AcknowledgedStays == Spec => []AcknowledgedIsStored
<1>1. Base => AcknowledgedIsStored
  <2> SUFFICES ASSUME Base PROVE AcknowledgedIsStored OBVIOUS
  <2>1. PICK n \in [DOMAIN calls -> 0 .. MaxFile] :
          /\ \A i \in DOMAIN calls : n[i] \in MayHaveStored(calls[i])
          /\ origin = FlattenSeq(Portions(calls, n))
    BY DEF Base, Told
  <2>2. origin = FlattenSeq([i \in DOMAIN calls |-> SubSeq(calls[i].readings, 1, n[i])])
    BY <2>1 DEF Portions
  <2> QED BY <2>1, <2>2 DEF Base, RowsRight, AcknowledgedIsStored
<1> QED BY <1>1, Invariant, PTL

(* The find_sensor functions answer with the readings they are asked for,   *)
(* whatever the width of the ids and the grain of the printed values.       *)
THEOREM QueriesRight == Spec => []QueriesAnswer
<1>1. Base => QueriesAnswer
  <2> SUFFICES ASSUME Base, table # NULL PROVE QueriesAnswer BY DEF QueriesAnswer
  <2> DEFINE good == {r \in Reading : r.value # NaN}
  <2>1. /\ origin \in Seq(good) /\ table = [i \in DOMAIN origin |-> Row(origin[i])]
        /\ DOMAIN origin = 1 .. Len(origin)
    BY LenProperties DEF Base, RowsRight
  <2>2. DOMAIN table = DOMAIN origin /\ \A i \in DOMAIN table : origin[i] \in good
    BY <2>1, ElementOfSeq
  <2>3. \A i \in DOMAIN table :
          /\ table[i].sensor_id = Signed(origin[i].id) /\ table[i].timestamp = origin[i].ts
          /\ table[i].sensor_value = Printed(origin[i].value)
    BY <2>1, <2>2 DEF Row
  <2>4. Grain \in Nat \ {0} BY SensorDbAssumption
  <2>5. ASSUME NEW r \in Reading
        PROVE  /\ find_sensor_by_timestamp(r.ts) = {i \in find_sensor_all : origin[i].ts = r.ts}
               /\ find_sensor_after_timestamp(r.ts) = {i \in find_sensor_all : origin[i].ts > r.ts}
    BY <2>3 DEF find_sensor_by_timestamp, find_sensor_after_timestamp, find_sensor_all
  <2>6. ASSUME NEW i \in DOMAIN table, NEW above \in -Grain .. Grain
        PROVE  LET value == origin[i].value - above
               IN  /\ above = 0 => i \in find_sensor_by_value(value)
                   /\ i \in find_sensor_by_value(value) => above \in 1 - Grain .. Grain - 1
                   /\ above = Grain => i \in find_sensor_exceed_value(value)
                   /\ i \in find_sensor_exceed_value(value) => above > 0
    <3> DEFINE v == origin[i].value
               w == v - above
    <3>1. v \in Int BY <2>2, RowType
    <3> HIDE DEF v
    <3>2. w \in Int /\ above \in Int BY <2>4, <3>1
    <3>3. table[i].sensor_value = Printed(v) BY <2>3 DEF v
    <3>4. i \in find_sensor_by_value(w) <=> Printed(v) = Printed(w)
      BY <3>3 DEF find_sensor_by_value
    <3>5. i \in find_sensor_exceed_value(w) <=> Printed(v) > Printed(w)
      BY <3>3 DEF find_sensor_exceed_value
    <3>6. Printed(v) \in Int /\ Printed(w) \in Int BY <3>1, <3>2, PrintedOrder
    <3>7. above = 0 => w = v BY <3>1
    <3>8. above = Grain => Printed(w) = Printed(v) - 1 BY <3>1, PrintedOrder
    <3>9. above = -Grain => Printed(w) = Printed(v) + 1
      <4>1. above = -Grain => w = v + Grain BY <2>4, <3>1
      <4> QED BY <3>1, <4>1, PrintedOrder
    <3>10. above <= 0 => Printed(v) <= Printed(w)
      <4>1. above <= 0 => v <= w BY <3>1, <3>2
      <4> QED BY <3>1, <3>2, <4>1, PrintedOrder
    <3> HIDE DEF w
    <3>11. i \in find_sensor_by_value(w) => above \in 1 - Grain .. Grain - 1
      <4>1. Printed(v) = Printed(w) => above # Grain /\ above # -Grain BY <3>6, <3>8, <3>9
      <4> QED BY <2>4, <3>4, <4>1
    <3>12. above = Grain => i \in find_sensor_exceed_value(w) BY <3>5, <3>6, <3>8
    <3>13. i \in find_sensor_exceed_value(w) => above > 0 BY <3>2, <3>5, <3>6, <3>10
    <3>14. above = 0 => i \in find_sensor_by_value(w) BY <3>4, <3>7
    <3> QED BY <3>11, <3>12, <3>13, <3>14 DEF v, w
  <2>7. \A i \in DOMAIN table : table[i].sensor_id % Ids = origin[i].id
    BY <2>2, <2>3, SignedBack
  <2> QED BY <2>5, <2>6, <2>7 DEF QueriesAnswer, find_sensor_all
<1> QED BY <1>1, Invariant, PTL

(* The result of the insertion that ends is told of that insertion. *)
LEMMA ResultTold ==
  ASSUME Base, Inserting, NEW res \in {"ok", "error", "unknown"}, Result(res)
  PROVE  /\ Last(calls').readings = Last(calls).readings /\ Last(calls').result = res
<1> DEFINE m == Len(calls)
           new == [readings |-> calls[m].readings, result |-> res]
<1>1. calls \in Seq(Insertion) /\ calls # <<>> /\ Last(calls).result = "pending"
  BY DEF Base, Pending
<1>2. m \in DOMAIN calls /\ Last(calls) = calls[m] /\ calls[m] \in Insertion /\ m \in Nat
      /\ DOMAIN calls = 1 .. m
  BY <1>1, CallTypes
<1>3. calls' = [calls EXCEPT ![m].result = res] BY <1>1 DEF Result
<1>4. [calls[m] EXCEPT !.result = res] = new BY <1>2 DEF Insertion
<1>5. calls' = [calls EXCEPT ![m] = new] BY <1>3, <1>4
<1>6. new \in Insertion BY <1>2 DEF Insertion
<1> HIDE DEF new
<1>7. calls' \in Seq(Insertion) /\ calls'[m] = new /\ DOMAIN calls' = DOMAIN calls
  BY <1>1, <1>2, <1>5, <1>6, ExceptSeq
<1>8. Len(calls') = m BY <1>2, <1>7, LenProperties
<1>9. Last(calls') = new BY <1>7, <1>8 DEF Last
<1> QED BY <1>2, <1>9 DEF new

(* What a call that returns has done, as FailsOnlyForCause says it.         *)
Caused ==
  op # "none" /\ pc' = "idle" /\ ~refused' =>
    /\ op = "clear" => db' \in DOMAIN conns' /\ table' = <<>>
    /\ op = "keep" => db' = NULL
    /\ op = "retry" => db' \in DOMAIN conns' /\ table' = table
    /\ Inserting =>
         LET c == Last(calls')
         IN  (c.result = "ok") =
               \/ c.readings = <<>>
               \/ table # NULL /\ \A i \in DOMAIN c.readings : c.readings[i].value # NaN

LEMMA InsertedAll ==
  ASSUME Base, Inserting, Return("ok"), Stored = Len(Last(calls).readings) PROVE Caused
<1> DEFINE s == Last(calls).readings
<1>1. Last(calls').readings = s /\ Last(calls').result = "ok" BY ResultTold DEF Return
<1>2. s \in Seq(Reading) /\ DOMAIN s = 1 .. Len(s) /\ Len(s) \in Nat
  BY StoredRange, LenProperties
<1>3. \A i \in 1 .. Len(s) : table # NULL /\ s[i].value # NaN BY DEF Base, RowsRight
<1>4. s # <<>> => 1 \in 1 .. Len(s) BY <1>2, EmptySeq
<1>5. op \in {"insert", "file", "parse"} BY DEF Inserting
<1> HIDE DEF s
<1>6. s = <<>> \/ (table # NULL /\ \A i \in DOMAIN s : s[i].value # NaN) BY <1>2, <1>3, <1>4
<1> QED BY <1>1, <1>5, <1>6 DEF Caused

LEMMA InsertFailsCaused ==
  ASSUME Base, NEW statements \in {0, 1}, pc = "step", todo # <<>>, InsertFails(statements)
  PROVE  Caused
<1>1. SUFFICES ASSUME pc' = "idle", ~refused' PROVE Caused BY DEF Caused
<1>2. op # "parse" /\ Return("error") /\ NotPrepared BY <1>1 DEF InsertFails, Down
<1>3. Inserting BY DEF Base, Shape
<1> DEFINE s == Last(calls).readings
<1>4. Last(calls').readings = s /\ Last(calls').result = "error" BY <1>2, <1>3, ResultTold DEF Return
<1>5. /\ Stored \in Nat /\ Stored < Len(s) /\ Head(todo) = s[Stored + 1]
      /\ s \in Seq(Reading) /\ DOMAIN s = 1 .. Len(s) /\ Len(s) \in Nat
  BY <1>3, StoredRange, LenProperties
<1>6. op \in {"insert", "file", "parse"} BY <1>3 DEF Inserting
<1> HIDE DEF s
<1>7. s # <<>> /\ Stored + 1 \in DOMAIN s BY <1>5, EmptySeq
<1>8. ~(s = <<>> \/ (table # NULL /\ \A i \in DOMAIN s : s[i].value # NaN))
  BY <1>2, <1>5, <1>7 DEF NotPrepared
<1> QED BY <1>4, <1>6, <1>8 DEF Caused

(* Unless SQLite refuses a statement, every call that returns has done what *)
(* it is for, from any state of the file, and an insertion fails exactly    *)
(* when there is no table or a value is not a number.                       *)
THEOREM FailsForCause == Spec => FailsOnlyForCause
<1>1. Base /\ [Next]_vars => [Caused]_vars
  <2> SUFFICES ASSUME Base, Next, op # "none", pc' = "idle", ~refused' PROVE Caused
    BY DEF Caused
  <2>1. CASE Caller
    <3>1. pc \in {"idle", "down"}
      BY <2>1 DEF Caller, Start, retry_connection, disconnect, init_connection, insert_sensor,
         insert_sensor_from_file, storagemgr_parse_sensor_data, BeginInsert, Begin
    <3> QED BY <3>1 DEF Base, Shape
  <2>2. CASE Crash BY <2>2 DEF Crash, Down
  <2>3. CASE OpenFails BY <2>3 DEF OpenFails, Down
  <2>4. ASSUME NEW c \in Conn, Open(c) PROVE Caused
    <3>1. op \in {"clear", "keep", "insert", "parse", "retry"}
      BY <2>4 DEF Open, Base, Shape, TypeOK
    <3>2. op = "retry"
      <4>1. op # "retry" => pc' \in {"drop", "create", "step"} BY <2>4, <3>1 DEF Open
      <4> QED BY <4>1
    <3>3. db' = c /\ c \in DOMAIN conns' /\ table' = table BY <2>4, <3>2 DEF Open
    <3> QED BY <3>2, <3>3 DEF Caused, Inserting
  <2>5. CASE Drop BY <2>5 DEF Drop
  <2>6. CASE Create
    <3>1. conn \in DOMAIN conns BY <2>6 DEF Create, Base, Shape, TypeOK
    <3> QED BY <2>6, <3>1 DEF Create, Caused, Inserting
  <2>7. CASE CreateInvalid
    <3>1. db = NULL /\ op = "keep" BY <2>7 DEF CreateInvalid, Base, Shape
    <3> QED BY <2>7, <3>1 DEF CreateInvalid, ExecFails, Caused, Inserting
  <2>8. CASE ExecRefused BY <2>8 DEF ExecRefused
  <2>9. CASE Step BY <2>9 DEF Step
  <2>10. CASE StepInvalid BY <2>10, InsertFailsCaused DEF StepInvalid
  <2>11. CASE StepRefused BY <2>11, InsertFailsCaused DEF StepRefused
  <2>12. CASE Finalize
    <3> DEFINE s == Last(calls).readings
    <3>1. Inserting BY <2>12 DEF Finalize, Base, Shape
    <3>2. Len(todo) = 1 /\ Return("ok") BY <2>12 DEF Finalize
    <3>3. Stored = Len(s) - 1 + 1 BY <2>12, <3>1, <3>2 DEF Finalize, Stored
    <3>4. Stored = Len(s)
      <4>1. Len(s) \in Nat BY <3>1, StoredRange
      <4> HIDE DEF s
      <4> QED BY <3>3, <4>1
    <3> QED BY <3>1, <3>2, <3>4, InsertedAll
  <2>13. CASE NothingLeft
    <3>1. Inserting /\ todo = <<>> BY <2>13 DEF NothingLeft, Base, Shape
    <3>2. Return("ok") BY <2>13 DEF NothingLeft, Down
    <3> QED BY <3>1, <3>2, StoredRange, InsertedAll
  <2> QED BY <2>1, <2>2, <2>3, <2>4, <2>5, <2>6, <2>7, <2>8, <2>9, <2>10, <2>11, <2>12, <2>13
          DEF Next, Database
<1> DEFINE Cause ==
      (op # "none" /\ pc' = "idle" /\ ~refused') =>
        CASE op = "clear" -> db' \in DOMAIN conns' /\ table' = <<>>
          [] op = "keep"  -> db' = NULL
          [] op = "retry" -> db' \in DOMAIN conns' /\ table' = table
          [] Inserting    ->
               LET c == Last(calls')
               IN  (c.result = "ok") =
                     \/ c.readings = <<>>
                     \/ table # NULL /\ \A i \in DOMAIN c.readings : c.readings[i].value # NaN
<1>2. Base /\ Caused => Cause
  <2> SUFFICES ASSUME Base, Caused, op # "none", pc' = "idle", ~refused' PROVE Cause OBVIOUS
  <2>1. op \in {"clear", "keep", "retry", "insert", "file", "parse"} BY DEF Base, TypeOK
  <2>2. CASE op = "clear" BY <2>2 DEF Caused, Inserting
  <2>3. CASE op = "keep" BY <2>3 DEF Caused, Inserting
  <2>4. CASE op = "retry" BY <2>4 DEF Caused, Inserting
  <2>5. CASE Inserting
    <3> DEFINE Whole == LET c == Last(calls')
                        IN  (c.result = "ok") =
                              \/ c.readings = <<>>
                              \/ table # NULL /\ \A i \in DOMAIN c.readings : c.readings[i].value # NaN
    <3>1. Whole BY <2>5 DEF Caused
    <3>2. op \notin {"clear", "keep", "retry"} BY <2>5 DEF Inserting
    <3>3. Cause <=> Whole
      <4> HIDE DEF Whole
      <4> QED BY <2>5, <3>2 DEF Whole
    <3> QED BY <3>1, <3>3
  <2> QED BY <2>1, <2>2, <2>3, <2>4, <2>5 DEF Inserting
<1>3. Spec => [][Next]_vars BY DEF Spec
<1>4. Base /\ [Next]_vars => [Cause]_vars BY <1>1, <1>2
<1> QED BY <1>3, <1>4, Invariant, PTL DEF FailsOnlyForCause
==============================================================================

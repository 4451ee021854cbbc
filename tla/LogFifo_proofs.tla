---------------------------- MODULE LogFifo_proofs -----------------------------
(****************************************************************************)
(* Theorems about LogFifo, for any size of the array fgets reads into that  *)
(* the longest message fits in, of the FIFO that one write fits in, and of  *)
(* the reads of the log process, and for any number of messages.            *)
(****************************************************************************)
EXTENDS LogFifo, ListLemmas

Process == Thread \cup {"main", "log"}

(* The pieces that texts are made of. *)
Piece == UNION {Range(Text(m)) : m \in Message}

TextOf(messages) == FlattenSeq([i \in DOMAIN messages |-> Text(messages[i])])

(* How many pieces are said before the j-th message. *)
Start(messages, j) == Len(TextOf(SubSeq(messages, 1, j - 1)))

(* The messages lie in their text one behind the other, and fill it. *)
Laid(messages) ==
  /\ TextOf(messages) \in Seq(Piece)
  /\ Start(messages, 1) = 0 /\ Start(messages, Len(messages) + 1) = Len(TextOf(messages))
  /\ \A j \in 1 .. Len(messages) :
       /\ Start(messages, j + 1) = Start(messages, j) + Length[messages[j].kind]
       /\ \A i \in 1 .. Length[messages[j].kind] :
            TextOf(messages)[Start(messages, j) + i] = Text(messages[j])[i]
  /\ \A i, j \in 1 .. Len(messages) + 1 :
       i <= j => Start(messages, i) \in Nat /\ Start(messages, i) <= Start(messages, j)
  /\ \A p \in 1 .. Len(TextOf(messages)) : \E j \in 1 .. Len(messages) :
       Start(messages, j) < p /\ p <= Start(messages, j + 1)

(* What has been said is in the file, or on its way there, in order. *)
Flow == TextOf(said) = (((FlattenSeq(file) \o line) \o ibuf) \o pipe) \o obuf

(* The pieces up to the end of the file, of the line, of what the log       *)
(* process has read and of what has been written to the FIFO.               *)
Done  == Len(FlattenSeq(file))
Taken == Done + Len(line)
Held  == Taken + Len(ibuf)
Sent  == Held + Len(pipe)

(* The gateway writes whole messages to the FIFO, wherever inside one the   *)
(* last read of the log process has ended.                                  *)
Boundary(n) == \E j \in 1 .. Len(said) + 1 : n = Start(said, j)

WholeSent == Boundary(Sent)

(* A message with a newline, behind one, becomes a line. *)
Fresh(j) == HasNewline(said[j].kind) /\ (j > 1 => HasNewline(said[j - 1].kind))

Lines ==
  \A j \in DOMAIN said :
    Fresh(j) =>
      /\ Start(said, j) < Done => Text(said[j]) \in Range(file)
      /\ Done <= Start(said, j) /\ Start(said, j) < Taken => line = Text(said[j])

(* No two messages are alike. *)
Once ==
  /\ \A i, j \in DOMAIN said : said[i] = said[j] => i = j
  /\ \A j \in DOMAIN said : /\ said[j].no <= Len(calls[said[j].by])
                            /\ pc[said[j].by] = "puts" => said[j].no < Len(calls[said[j].by])

(* What the storagemgr says comes to an end. *)
Calls ==
  /\ \A t \in Thread : Len(calls[t]) <= MaxEvents + 3
  /\ calls["storagemgr"] # <<>> =>
       /\ Last(calls["storagemgr"]) = "established" => Len(calls["storagemgr"]) = 1
       /\ Last(calls["storagemgr"]) = "lost" => Len(calls["storagemgr"]) <= 2
       /\ Len(calls["storagemgr"]) <= 3
       /\ Last(calls["storagemgr"]) \notin {"event", "alert"}
  /\ \A t \in Thread : pc[t] \in {"puts", "flush", "write", "exit"} => calls[t] # <<>>

Reader ==
  /\ pc["main"] = "fork" => pc["log"] = "off"
  /\ pc["log"] \in {"off", "open", "create"} => file = <<>> /\ ibuf = <<>> /\ line = <<>>
  /\ pc["log"] = "read" => line = <<>>
  /\ pc["log"] = "record" => line # <<>>

(* Where main, a thread or the log process can be. *)
Place == {"fork", "args", "open", "create", "join", "exited", "off", "idle", "puts", "flush",
          "write", "exit", "read", "record", "ended", "failed"}

(* The part of TypeOK that is about the processes and not about the text. *)
Control ==
  /\ gateway \in {"running", "exiting", "flushed", "ended"}
  /\ pc \in [Process -> Place]
  /\ pc["main"] \in {"fork", "args", "open", "create", "join", "exited"}
  /\ pc["log"] \in {"off", "open", "create", "read", "record", "ended", "failed"}
  /\ \A t \in Thread :
       pc[t] \in {"off", "idle", "puts", "flush", "write", "exit", "exited"}
  /\ lock \in Thread \cup {"none"}
  /\ writer \in {"none", "open", "closed"} /\ reader \in {"none", "open", "closed"}

Typed ==
  /\ Control
  /\ calls \in [Thread -> Seq(Kind)] /\ said \in Seq(Message)
  /\ obuf \in Seq(Piece) /\ pipe \in Seq(Piece) /\ ibuf \in Seq(Piece) /\ line \in Seq(Piece)
  /\ file \in Seq(Seq(Piece))

Base == Typed /\ Calls /\ Reader /\ Once /\ Laid(said) /\ Flow /\ WholeSent /\ Lines

------------------------------------------------------------------------------
(* Messages and their text *)

LEMMA Lengths ==
  \A kind \in Kind : Length[kind] \in 1 .. 3 /\ Length[kind] <= MAX
<1>1. Kind = {"event", "alert", "established", "created", "unable", "lost", "reestablished"}
  BY DEF Kind, Length
<1>2. /\ Length["event"] = 2 /\ Length["alert"] = 3 /\ Length["established"] = 1
      /\ Length["created"] = 1 /\ Length["unable"] = 1 /\ Length["lost"] = 1
      /\ Length["reestablished"] = 1
  BY DEF Length
<1>3. \A kind \in Kind : Length[kind] \in 1 .. 3 BY <1>1, <1>2
<1> QED BY <1>3, LogFifoAssumption

LEMMA TextType ==
  ASSUME NEW m \in Message
  PROVE  /\ Text(m) \in Seq(Piece) /\ Len(Text(m)) = Length[m.kind]
         /\ DOMAIN Text(m) = 1 .. Length[m.kind] /\ Length[m.kind] \in 1 .. 3
         /\ \A i \in 1 .. Length[m.kind] :
              /\ Text(m)[i].of = m
              /\ Text(m)[i].newline <=> i = Length[m.kind] /\ HasNewline(m.kind)
<1>1. m.kind \in Kind BY DEF Message
<1>2. Length[m.kind] \in 1 .. 3 BY <1>1, Lengths
<1>3. DOMAIN Text(m) = 1 .. Length[m.kind] BY DEF Text
<1>4. \A i \in 1 .. Length[m.kind] : Text(m)[i] \in Piece
  <2>1. Range(Text(m)) \subseteq Piece BY Zenon DEF Piece
  <2>2. \A i \in DOMAIN Text(m) : Text(m)[i] \in Range(Text(m)) BY Zenon DEF Range
  <2> QED BY <1>3, <2>1, <2>2
<1>5. Text(m) \in [1 .. Length[m.kind] -> Piece] BY <1>3, <1>4 DEF Text
<1>6. Text(m) \in Seq(Piece) BY <1>2, <1>5, SeqDef
<1>7. Len(Text(m)) = Length[m.kind] BY <1>2, <1>3, <1>6, LenProperties
<1>8. \A i \in 1 .. Length[m.kind] :
        /\ Text(m)[i].of = m
        /\ Text(m)[i].newline <=> i = Length[m.kind] /\ HasNewline(m.kind)
  BY DEF Text
<1> QED BY <1>2, <1>3, <1>6, <1>7, <1>8

LEMMA PieceIs ==
  ASSUME NEW x \in Piece PROVE x.of \in Message /\ x \in Range(Text(x.of))
<1>1. PICK m \in Message : x \in Range(Text(m)) BY DEF Piece
<1>2. PICK i \in DOMAIN Text(m) : x = Text(m)[i] BY <1>1 DEF Range
<1>3. x.of = m BY <1>2, TextType
<1> QED BY <1>1, <1>3

LEMMA TextOfAppend ==
  ASSUME NEW ms \in Seq(Message), NEW m \in Message
  PROVE  /\ TextOf(<<>>) = <<>>
         /\ TextOf(ms) \in Seq(Piece)
         /\ TextOf(Append(ms, m)) = TextOf(ms) \o Text(m)
<1> DEFINE a == [i \in DOMAIN ms |-> Text(ms[i])]
           new == Append(ms, m)
           b == [i \in DOMAIN new |-> Text(new[i])]
<1>1. Len(ms) \in Nat /\ DOMAIN ms = 1 .. Len(ms) /\ \A i \in 1 .. Len(ms) : ms[i] \in Message
  BY LenProperties, ElementOfSeq
<1>2. a \in Seq(Seq(Piece)) /\ Len(a) = Len(ms)
  <2>1. \A i \in 1 .. Len(ms) : Text(ms[i]) \in Seq(Piece) BY <1>1, TextType
  <2>2. a \in [1 .. Len(ms) -> Seq(Piece)] BY <1>1, <2>1
  <2> HIDE DEF a
  <2> QED BY <1>1, <2>2, SeqDef, LenProperties
<1>3. Text(m) \in Seq(Piece) BY TextType
<1>4. /\ new \in Seq(Message) /\ Len(new) = Len(ms) + 1 /\ new[Len(ms) + 1] = m
      /\ \A i \in 1 .. Len(ms) : new[i] = ms[i]
      /\ DOMAIN new = 1 .. Len(ms) + 1
  <2>1. /\ new \in Seq(Message) /\ Len(new) = Len(ms) + 1 /\ new[Len(ms) + 1] = m
        /\ \A i \in 1 .. Len(ms) : new[i] = ms[i]
    BY AppendProperties
  <2> HIDE DEF new
  <2> QED BY <2>1, LenProperties
<1>5. b = Append(a, Text(m))
  <2> DEFINE c == Append(a, Text(m))
  <2>1. /\ c \in Seq(Seq(Piece)) /\ Len(c) = Len(ms) + 1 /\ c[Len(ms) + 1] = Text(m)
        /\ \A i \in 1 .. Len(ms) : c[i] = a[i]
    <3> HIDE DEF a
    <3> QED BY <1>2, <1>3, AppendProperties
  <2>2. \A i \in 1 .. Len(ms) : a[i] = Text(ms[i]) BY <1>1
  <2> HIDE DEF c, a, new
  <2>3. DOMAIN c = 1 .. Len(ms) + 1 BY <2>1, LenProperties
  <2>4. \A i \in 1 .. Len(ms) + 1 : i = Len(ms) + 1 \/ i \in 1 .. Len(ms) BY <1>1
  <2>5. \A i \in 1 .. Len(ms) + 1 : c[i] = Text(new[i]) BY <1>4, <2>1, <2>2, <2>4
  <2>6. c = [i \in DOMAIN c |-> c[i]] BY <2>1, SeqDef
  <2>7. c = b BY <1>4, <2>3, <2>5, <2>6
  <2> QED BY <2>7 DEF c
<1> HIDE DEF a, b, new
<1>6. FlattenSeq(<<>>) = <<>> /\ FlattenSeq(a) \in Seq(Piece) /\ FlattenSeq(b) = FlattenSeq(a) \o Text(m)
  BY <1>2, <1>3, <1>5, FlattenAppend
<1>7. TextOf(<<>>) = <<>>
  <2>1. DOMAIN <<>> = {} BY EmptySeq
  <2>2. [i \in DOMAIN <<>> |-> Text(<<>>[i])] = <<>> BY <2>1
  <2> QED BY <1>6, <2>2 DEF TextOf
<1> QED BY <1>6, <1>7 DEF TextOf, a, b, new

(* Where the messages said before begin does not change. *)
LEMMA StartAppend ==
  ASSUME NEW ms \in Seq(Message), NEW m \in Message
  PROVE  /\ \A j \in 1 .. Len(ms) + 1 : Start(Append(ms, m), j) = Start(ms, j)
         /\ Start(Append(ms, m), Len(ms) + 2) = Len(TextOf(Append(ms, m)))
         /\ Start(ms, Len(ms) + 1) = Len(TextOf(ms))
         /\ Start(ms, 1) = 0
<1> DEFINE new == Append(ms, m)
<1>1. /\ new \in Seq(Message) /\ Len(new) = Len(ms) + 1 /\ Len(ms) \in Nat
      /\ \A i \in 1 .. Len(ms) : new[i] = ms[i]
  BY AppendProperties, LenProperties
<1> HIDE DEF new
<1>2. ASSUME NEW j \in 1 .. Len(ms) + 1 PROVE SubSeq(new, 1, j - 1) = SubSeq(ms, 1, j - 1)
  <2> DEFINE k == j - 1
  <2>1. k \in 0 .. Len(ms) /\ k \in 0 .. Len(new) BY <1>1
  <2> HIDE DEF k
  <2>2. /\ SubSeq(new, 1, k) \in Seq(Message) /\ Len(SubSeq(new, 1, k)) = k
        /\ \A i \in 1 .. k : SubSeq(new, 1, k)[i] = new[i]
    BY <1>1, <2>1, SubSeqProperties
  <2>3. /\ SubSeq(ms, 1, k) \in Seq(Message) /\ Len(SubSeq(ms, 1, k)) = k
        /\ \A i \in 1 .. k : SubSeq(ms, 1, k)[i] = ms[i]
    BY <1>1, <2>1, SubSeqProperties
  <2>4. \A i \in 1 .. k : i \in 1 .. Len(ms) BY <1>1, <2>1
  <2>5. \A i \in 1 .. k : SubSeq(new, 1, k)[i] = SubSeq(ms, 1, k)[i] BY <1>1, <2>2, <2>3, <2>4
  <2>6. SubSeq(new, 1, k) = SubSeq(ms, 1, k) BY <2>2, <2>3, <2>5, SeqEqual
  <2> QED BY <2>6 DEF k
<1>3. \A j \in 1 .. Len(ms) + 1 : Start(new, j) = Start(ms, j) BY <1>2 DEF Start
<1>4. Start(new, Len(ms) + 2) = Len(TextOf(new))
  <2>1. SubSeq(new, 1, Len(new)) = new BY <1>1, SubSeqFull
  <2>2. (Len(ms) + 2) - 1 = Len(new) BY <1>1
  <2> QED BY <2>1, <2>2 DEF Start
<1>5. Start(ms, Len(ms) + 1) = Len(TextOf(ms))
  <2>1. SubSeq(ms, 1, Len(ms)) = ms BY <1>1, SubSeqFull
  <2>2. (Len(ms) + 1) - 1 = Len(ms) BY <1>1
  <2> QED BY <2>1, <2>2 DEF Start
<1>6. Start(ms, 1) = 0
  <2>1. SubSeq(ms, 1, 0) = <<>> BY SubSeqEmpty
  <2>2. TextOf(<<>>) = <<>> /\ Len(<<>>) = 0 BY TextOfAppend, EmptySeq
  <2>3. Start(ms, 1) = Len(TextOf(SubSeq(ms, 1, 1 - 1))) BY DEF Start
  <2>4. 1 - 1 = 0 OBVIOUS
  <2> QED BY <2>1, <2>2, <2>3, <2>4
<1>7. Start(new, Len(ms) + 2) = Len(TextOf(new)) /\ Start(ms, 1) = 0 BY <1>4, <1>6
<1> QED BY <1>3, <1>5, <1>7 DEF new

LEMMA TextOfEmpty == TextOf(<<>>) = <<>>
<1>1. DOMAIN <<>> = {} BY EmptySeq
<1>2. [i \in DOMAIN <<>> |-> Text(<<>>[i])] = <<>> BY <1>1
<1>3. FlattenSeq(<<>>) = <<>> BY EmptySeq DEF FlattenSeq
<1> QED BY <1>2, <1>3 DEF TextOf

LEMMA LaidEmpty == Laid(<<>>)
<1>1. Len(<<>>) = 0 /\ <<>> \in Seq(Piece) /\ <<>> \in Seq(Message) BY EmptySeq
<1>2. TextOf(<<>>) = <<>> BY TextOfEmpty
<1>3. Start(<<>>, 1) = 0
  <2>1. SubSeq(<<>>, 1, 1 - 1) = <<>> BY SubSeqEmpty
  <2> QED BY <1>1, <1>2, <2>1 DEF Start
<1> DEFINE none == <<>>
<1>4. /\ none = <<>> /\ Len(none) = 0 /\ Start(none, 1) = 0 /\ TextOf(none) = none
      /\ none \in Seq(Piece)
  BY <1>1, <1>2, <1>3
<1> HIDE DEF none
<1>5. 1 .. Len(none) = {} /\ 1 .. Len(none) + 1 = {1} /\ Len(none) + 1 = 1
      /\ 1 .. Len(TextOf(none)) = {}
  BY <1>4
<1>6. \A i, j \in {1} : i <= j => Start(none, i) \in Nat /\ Start(none, i) <= Start(none, j)
  BY <1>4
<1>7. Laid(none) BY <1>4, <1>5, <1>6 DEF Laid
<1> QED BY <1>4, <1>7

LEMMA LaidAppend ==
  ASSUME NEW ms \in Seq(Message), NEW m \in Message, Laid(ms) PROVE Laid(Append(ms, m))
<1> DEFINE new == Append(ms, m)
           l == Len(TextOf(ms))
           d == Length[m.kind]
           S(j) == Start(ms, j)
           N(j) == Start(new, j)
<1>1. /\ new \in Seq(Message) /\ Len(new) = Len(ms) + 1 /\ Len(ms) \in Nat
      /\ new[Len(ms) + 1] = m /\ \A i \in 1 .. Len(ms) : new[i] = ms[i]
  BY AppendProperties, LenProperties
<1>2. TextOf(ms) \in Seq(Piece) /\ l \in Nat /\ TextOf(new) = TextOf(ms) \o Text(m)
  BY TextOfAppend, LenProperties
<1>3. Text(m) \in Seq(Piece) /\ Len(Text(m)) = d /\ d \in 1 .. 3 BY TextType
<1>4. /\ TextOf(new) \in Seq(Piece) /\ Len(TextOf(new)) = l + d
      /\ \A i \in 1 .. l : TextOf(new)[i] = TextOf(ms)[i]
      /\ \A i \in 1 .. d : TextOf(new)[l + i] = Text(m)[i]
  <2>1. TextOf(new) \in Seq(Piece) BY <1>2, <1>3, ConcatProperties
  <2>2. /\ Len(TextOf(new)) = l + d
        /\ \A i \in 1 .. l + d : TextOf(new)[i] = IF i <= l THEN TextOf(ms)[i] ELSE Text(m)[i - l]
    BY <1>2, <1>3, ConcatProperties
  <2> HIDE DEF l, d
  <2>3. \A i \in 1 .. l : i \in 1 .. l + d /\ i <= l BY <1>2, <1>3
  <2>4. \A i \in 1 .. d : l + i \in 1 .. l + d /\ ~(l + i <= l) /\ (l + i) - l = i BY <1>2, <1>3
  <2>5. \A i \in 1 .. l : TextOf(new)[i] = TextOf(ms)[i] BY <2>2, <2>3
  <2>6. \A i \in 1 .. d : TextOf(new)[l + i] = Text(m)[i] BY <2>2, <2>4
  <2> QED BY <2>1, <2>2, <2>5, <2>6
<1>5. /\ \A j \in 1 .. Len(ms) + 1 : N(j) = S(j)
      /\ N(Len(ms) + 2) = l + d /\ S(Len(ms) + 1) = l /\ S(1) = 0 /\ N(1) = 0
  <2>1. /\ \A j \in 1 .. Len(ms) + 1 : N(j) = S(j)
        /\ N(Len(ms) + 2) = Len(TextOf(new)) /\ S(Len(ms) + 1) = l /\ S(1) = 0
    BY StartAppend
  <2>2. 1 \in 1 .. Len(ms) + 1 BY <1>1
  <2> QED BY <1>4, <2>1, <2>2
<1>6. /\ \A j \in 1 .. Len(ms) :
           /\ S(j + 1) = S(j) + Length[ms[j].kind]
           /\ \A i \in 1 .. Length[ms[j].kind] : TextOf(ms)[S(j) + i] = Text(ms[j])[i]
      /\ \A i, j \in 1 .. Len(ms) + 1 : i <= j => S(i) \in Nat /\ S(i) <= S(j)
      /\ \A p \in 1 .. l : \E j \in 1 .. Len(ms) : S(j) < p /\ p <= S(j + 1)
  BY DEF Laid
<1> HIDE DEF S, N, l, new
<1>7. \A j \in 1 .. Len(ms) : j \in 1 .. Len(ms) + 1 /\ j + 1 \in 1 .. Len(ms) + 1 /\ j <= j + 1
                              /\ j + 1 <= Len(ms) + 1 /\ Len(ms) + 1 \in 1 .. Len(ms) + 1
  BY <1>1
<1>8. ASSUME NEW j \in 1 .. Len(new)
      PROVE  /\ N(j + 1) = N(j) + Length[new[j].kind]
             /\ \A i \in 1 .. Length[new[j].kind] : TextOf(new)[N(j) + i] = Text(new[j])[i]
  <2>1. CASE j = Len(ms) + 1
    <3>1. new[j] = m /\ j + 1 = Len(ms) + 2 /\ j \in 1 .. Len(ms) + 1 BY <1>1, <2>1
    <3>2. N(j) = l /\ N(j + 1) = l + d BY <1>5, <2>1, <3>1
    <3> QED BY <1>4, <3>1, <3>2
  <2>2. CASE j \in 1 .. Len(ms)
    <3>1. new[j] = ms[j] /\ N(j) = S(j) /\ N(j + 1) = S(j + 1) BY <1>1, <1>5, <1>7, <2>2
    <3>2. ASSUME NEW i \in 1 .. Length[ms[j].kind] PROVE S(j) + i \in 1 .. l
      <4>1. S(j) \in Nat /\ S(j + 1) <= l BY <1>5, <1>6, <1>7, <2>2
      <4>2. ms[j] \in Message BY <2>2, ElementOfSeq
      <4>3. Length[ms[j].kind] \in 1 .. 3 BY <4>2, TextType
      <4>4. S(j + 1) = S(j) + Length[ms[j].kind] BY <1>6, <2>2
      <4> DEFINE k == Length[ms[j].kind]
                 s == S(j)
      <4>5. l \in Nat /\ s \in Nat /\ k \in 1 .. 3 /\ i \in 1 .. k /\ s + k <= l
        BY <1>2, <4>1, <4>3, <4>4
      <4> HIDE DEF k, s
      <4>6. s + i \in 1 .. l BY <4>5
      <4> QED BY <4>6 DEF s
    <3> QED BY <1>4, <1>6, <2>2, <3>1, <3>2
  <2>3. j = Len(ms) + 1 \/ j \in 1 .. Len(ms) BY <1>1
  <2> QED BY <2>1, <2>2, <2>3
<1>9. ASSUME NEW i \in 1 .. Len(new) + 1, NEW j \in 1 .. Len(new) + 1, i <= j
      PROVE  N(i) \in Nat /\ N(i) <= N(j)
  <2>1. /\ i \in 1 .. Len(ms) + 1 \/ i = Len(ms) + 2
        /\ j \in 1 .. Len(ms) + 1 \/ j = Len(ms) + 2
        /\ i = Len(ms) + 2 => j = Len(ms) + 2
        /\ i \in 1 .. Len(ms) + 1 => i <= Len(ms) + 1 /\ Len(ms) + 1 \in 1 .. Len(ms) + 1
    BY <1>1, <1>9
  <2>2. i \in 1 .. Len(ms) + 1 => N(i) \in Nat /\ N(i) <= l BY <1>5, <1>6, <2>1
  <2>3. CASE j \in 1 .. Len(ms) + 1
    <3>1. i \in 1 .. Len(ms) + 1 BY <1>1, <2>1, <2>3
    <3> QED BY <1>5, <1>6, <1>9, <2>3, <3>1
  <2>4. CASE j = Len(ms) + 2
    <3>1. N(j) = l + d BY <1>5, <2>4
    <3> QED BY <1>2, <1>3, <2>1, <2>2, <2>4, <3>1
  <2> QED BY <2>1, <2>3, <2>4
<1>10. ASSUME NEW p \in 1 .. l + d
       PROVE  \E j \in 1 .. Len(new) : N(j) < p /\ p <= N(j + 1)
  <2>1. CASE p \in 1 .. l
    <3>1. PICK j \in 1 .. Len(ms) : S(j) < p /\ p <= S(j + 1) BY <1>6, <2>1
    <3>2. N(j) = S(j) /\ N(j + 1) = S(j + 1) BY <1>5, <1>7
    <3>3. j \in 1 .. Len(new) BY <1>1
    <3> QED BY <3>1, <3>2, <3>3
  <2>2. CASE ~(p \in 1 .. l)
    <3> DEFINE j == Len(ms) + 1
    <3>1. j \in 1 .. Len(new) /\ j \in 1 .. Len(ms) + 1 /\ j + 1 = Len(ms) + 2 BY <1>1
    <3>2. N(j) = l /\ N(j + 1) = l + d BY <1>5, <3>1
    <3>3. l < p /\ p <= l + d BY <1>2, <1>3, <2>2
    <3> QED BY <3>1, <3>2, <3>3
  <2> QED BY <2>1, <2>2
<1>11. N(Len(new) + 1) = l + d
  <2>1. Len(new) + 1 = Len(ms) + 2 BY <1>1
  <2> QED BY <1>5, <2>1
<1> QED BY <1>4, <1>5, <1>8, <1>9, <1>10, <1>11 DEF Laid, N, new

------------------------------------------------------------------------------
(* Steps and the invariant *)

LEMMA TypedImpliesTypeOK == ASSUME Typed PROVE TypeOK
<1>1. ASSUME NEW text \in Seq(Piece), NEW i \in DOMAIN text
      PROVE  text[i].of \in Message /\ text[i] \in Range(Text(text[i].of))
  <2>1. text[i] \in Piece BY LenProperties, ElementOfSeq
  <2> QED BY <2>1, PieceIs
<1>2. Range(file) \subseteq Seq(Piece) BY RangeOfSeq DEF Typed
<1>3. {obuf, pipe, ibuf, line} \cup Range(file) \subseteq Seq(Piece) BY <1>2 DEF Typed
<1> QED BY <1>1, <1>3 DEF Typed, Control, TypeOK

LEMMA InitBase == Init => Base
<1> SUFFICES ASSUME Init PROVE Base OBVIOUS
<1>1. <<>> \in Seq(Piece) /\ <<>> \in Seq(Seq(Piece)) /\ <<>> \in Seq(Message)
      /\ <<>> \in Seq(Kind) /\ Len(<<>>) = 0
  BY EmptySeq
<1>2. Control
  <2>1. /\ DOMAIN pc = Process /\ pc["main"] = "fork" /\ pc["log"] = "off"
        /\ \A t \in Thread : pc[t] = "off"
        /\ \A p \in Process : pc[p] = "fork" \/ pc[p] = "off"
    BY DEF Init, Process, Thread
  <2>2. pc = [p \in Process |-> IF p = "main" THEN "fork" ELSE "off"] BY DEF Init, Process
  <2>3. pc \in [Process -> Place] BY <2>2 DEF Place
  <2> QED BY <2>1, <2>3 DEF Init, Control
<1>3. Typed BY <1>1, <1>2 DEF Init, Typed
<1>4. Calls BY <1>1, LogFifoAssumption DEF Init, Calls, Thread
<1>5. Reader BY DEF Init, Reader
<1>6. DOMAIN said = {} BY EmptySeq DEF Init
<1>7. Once BY <1>6 DEF Once
<1>8. Laid(said) BY LaidEmpty DEF Init
<1>9. TextOf(said) = <<>> /\ FlattenSeq(file) = <<>>
  <2>1. FlattenSeq(<<>>) = <<>> BY EmptySeq DEF FlattenSeq
  <2> QED BY <2>1, TextOfEmpty DEF Init
<1>10. <<>> \o <<>> = <<>> BY <1>1, ConcatEmptySeq
<1>11. Flow BY <1>9, <1>10 DEF Init, Flow
<1>12. Start(said, 1) = 0 /\ Len(said) = 0 BY <1>1, <1>8 DEF Laid, Init
<1>13. Held = 0 /\ Sent = 0 BY <1>1, <1>9 DEF Init, Held, Taken, Done, Sent
<1>14. WholeSent BY <1>12, <1>13 DEF WholeSent, Boundary
<1>15. Lines BY <1>6 DEF Lines
<1> QED BY <1>3, <1>4, <1>5, <1>7, <1>8, <1>11, <1>14, <1>15 DEF Base

(* A step in which nobody says anything. *)
Quiet ==
  /\ Control' /\ UNCHANGED <<calls, said>>
  /\ \A t \in Thread : /\ pc'[t] = "puts" => pc[t] = "puts"
                       /\ pc'[t] \in {"puts", "flush", "write", "exit"} => calls[t] # <<>>

LEMMA QuietStep ==
  ASSUME Base, Quiet
  PROVE  /\ Calls' /\ Once' /\ Laid(said)' /\ said' = said /\ calls' = calls /\ Control'
<1>1. said' = said /\ calls' = calls BY DEF Quiet
<1>2. Laid(said)' BY <1>1 DEF Base
<1>3. \A j \in DOMAIN said : said[j].by \in Thread
  <2>1. \A j \in DOMAIN said : said[j] \in Message BY LenProperties, ElementOfSeq DEF Base, Typed
  <2> QED BY <2>1 DEF Message
<1>4. Once' BY <1>1, <1>3 DEF Base, Once, Quiet
<1>5. Calls' BY <1>1 DEF Base, Calls, Quiet
<1> QED BY <1>1, <1>2, <1>4, <1>5 DEF Quiet

(* ... and no text is moved. *)
LEMMA StillStep ==
  ASSUME Base, Quiet, Reader', UNCHANGED <<obuf, pipe, ibuf, line, file>>
  PROVE  Base'
<1>1. Calls' /\ Once' /\ Laid(said)' /\ said' = said /\ calls' = calls /\ Control' BY QuietStep
<1>2. Typed' BY <1>1 DEF Base, Typed
<1>3. Done' = Done /\ Taken' = Taken /\ Held' = Held /\ Sent' = Sent BY DEF Done, Taken, Held, Sent
<1>4. Flow' BY <1>1 DEF Base, Flow
<1>5. WholeSent' BY <1>1, <1>3 DEF Base, WholeSent, Boundary
<1>6. Lines' BY <1>1, <1>3 DEF Base, Lines, Fresh
<1> QED BY <1>1, <1>2, <1>4, <1>5, <1>6 DEF Base

(* What is in the file is text, and the counts of pieces grow along the way. *)
LEMMA FlattenType == file \in Seq(Seq(Piece)) => FlattenSeq(file) \in Seq(Piece)
<1>1. <<>> \in Seq(Piece) BY EmptySeq
<1> QED BY <1>1, FlattenAppend

LEMMA Counts ==
  ASSUME Typed
  PROVE  /\ Done \in Nat /\ Taken \in Nat /\ Held \in Nat /\ Sent \in Nat
         /\ Done <= Taken /\ Taken <= Held /\ Held <= Sent
<1>1. FlattenSeq(file) \in Seq(Piece) BY FlattenType DEF Typed
<1>2. Len(FlattenSeq(file)) \in Nat BY <1>1, LenProperties
<1>3. Len(line) \in Nat /\ Len(ibuf) \in Nat /\ Len(pipe) \in Nat BY LenProperties DEF Typed
<1> QED BY <1>2, <1>3 DEF Done, Taken, Held, Sent

(* One process goes on. *)
LEMMA GotoStep ==
  ASSUME Typed, NEW p \in Process, NEW to \in Place, Goto(p, to)
  PROVE  /\ pc'[p] = to /\ \A q \in Process \ {p} : pc'[q] = pc[q]
         /\ pc' \in [Process -> Place]
<1>1. pc \in [Process -> Place] /\ pc' = [pc EXCEPT ![p] = to] BY DEF Typed, Control, Goto
<1> QED BY <1>1

(* The steps that say something, and the step before it. *)
LEMMA CallStep ==
  ASSUME Base, NEW t \in Thread, NEW kind \in Kind, Call(t, kind)
  PROVE  Base'
<1>1. /\ pc[t] = "idle" /\ pc' = [pc EXCEPT ![t] = "puts"]
      /\ calls' = [calls EXCEPT ![t] = Append(@, kind)]
      /\ UNCHANGED <<gateway, lock, obuf, said, writer, reader, pipe, ibuf, line, file>>
  BY DEF Call, At, Goto, logvars
<1>2. t \in Process /\ t # "main" /\ t # "log" BY DEF Process, Thread
<1>3. /\ pc'[t] = "puts" /\ \A p \in Process \ {t} : pc'[p] = pc[p]
      /\ pc' \in [Process -> Place] /\ pc'["main"] = pc["main"] /\ pc'["log"] = pc["log"]
  <2>1. /\ pc'[t] = "puts" /\ \A p \in Process \ {t} : pc'[p] = pc[p]
        /\ pc' \in [Process -> Place]
    <3>1. "puts" \in Place /\ "flush" \in Place BY DEF Place
    <3>2. Goto(t, "puts") BY <1>1 DEF Goto
    <3> QED BY <1>2, <3>1, <3>2, GotoStep DEF Base
  <2>2. "main" \in Process \ {t} /\ "log" \in Process \ {t} BY <1>2 DEF Process
  <2> QED BY <2>1, <2>2
<1>4. Control'
  <2>1. \A s \in Thread : s = t \/ pc'[s] = pc[s] BY <1>3 DEF Process
  <2> QED BY <1>1, <1>3, <2>1 DEF Base, Typed, Control
<1>5. /\ calls[t] \in Seq(Kind) /\ Len(calls[t]) \in Nat
      /\ calls'[t] \in Seq(Kind) /\ Len(calls'[t]) = Len(calls[t]) + 1
      /\ calls'[t] # <<>> /\ Last(calls'[t]) = kind
      /\ calls' \in [Thread -> Seq(Kind)] /\ \A s \in Thread \ {t} : calls'[s] = calls[s]
  <2>1. calls[t] \in Seq(Kind) /\ Len(calls[t]) \in Nat BY LenProperties DEF Base, Typed
  <2>2. calls'[t] = Append(calls[t], kind) BY <1>1 DEF Base, Typed
  <2>3. /\ calls'[t] \in Seq(Kind) /\ Len(calls'[t]) = Len(calls[t]) + 1 /\ calls'[t] # <<>>
        /\ calls'[t][Len(calls[t]) + 1] = kind
    BY <2>1, <2>2, AppendProperties
  <2>4. Last(calls'[t]) = kind BY <2>3 DEF Last
  <2>5. calls' \in [Thread -> Seq(Kind)] /\ \A s \in Thread \ {t} : calls'[s] = calls[s]
    BY <1>1, <2>2, <2>3 DEF Base, Typed
  <2> QED BY <2>1, <2>3, <2>4, <2>5
<1>6. Typed' BY <1>1, <1>4, <1>5 DEF Base, Typed
<1>7. Calls'
  <2>1. kind \in MaySay(t) BY DEF Call
  <2>2. ASSUME t # "storagemgr" PROVE Len(calls[t]) < MaxEvents BY <2>1, <2>2 DEF MaySay, Thread
  <2>3. ASSUME t = "storagemgr"
        PROVE  /\ Len(calls[t]) + 1 <= 3
               /\ kind = "established" => Len(calls[t]) + 1 = 1
               /\ kind = "lost" => Len(calls[t]) + 1 <= 2
               /\ kind \notin {"event", "alert"}
    <3>1. kind \in After[IF calls[t] = <<>> THEN "start" ELSE Last(calls[t])]
      BY <2>1, <2>3 DEF MaySay
    <3>2. CASE calls[t] = <<>>
      <4>1. kind \in After["start"] /\ Len(calls[t]) = 0 BY <3>1, <3>2, EmptySeq
      <4> QED BY <4>1 DEF After
    <3>3. CASE calls[t] # <<>>
      <4>1. kind \in After[Last(calls[t])] BY <3>1, <3>3
      <4>2. Last(calls[t]) \in Kind
        <5>1. Len(calls[t]) \in 1 .. Len(calls[t]) BY <1>5, <3>3, EmptySeq
        <5> QED BY <1>5, <5>1, ElementOfSeq DEF Last
      <4>3. Kind = {"event", "alert", "established", "created", "unable", "lost", "reestablished"}
        BY DEF Kind, Length
      <4>4. /\ Last(calls[t]) = "established" => Len(calls[t]) = 1
            /\ Last(calls[t]) = "lost" => Len(calls[t]) <= 2
        BY <2>3, <3>3 DEF Base, Calls
      <4>5. Last(calls[t]) = "established" => kind \in {"created", "lost"}
        BY <4>1 DEF After
      <4>6. Last(calls[t]) = "lost" => kind \in {"reestablished", "unable"}
        BY <4>1 DEF After
      <4>7. Last(calls[t]) \in {"reestablished", "created", "unable"} => FALSE
        BY <4>1 DEF After
      <4>8. Last(calls[t]) \in {"established", "lost", "event", "alert"} BY <4>2, <4>3, <4>7
      <4>9. Last(calls[t]) \notin {"event", "alert"} BY <2>3, <3>3 DEF Base, Calls
      <4> DEFINE last == Last(calls[t])
                 n == Len(calls[t])
      <4>10. last = "established" => n = 1 BY <4>4
      <4>11. last = "lost" => n <= 2 BY <4>4
      <4>12. n \in Nat BY <1>5
      <4>13. last = "established" => kind \in {"created", "lost"} BY <4>5
      <4>14. last = "lost" => kind \in {"reestablished", "unable"} BY <4>6
      <4>15. last \in {"established", "lost", "event", "alert"} BY <4>8
      <4>16. last \notin {"event", "alert"} BY <4>9
      <4> HIDE DEF last, n
      <4>17. last = "established" \/ last = "lost" BY <4>15, <4>16
      <4>18. /\ n + 1 <= 3
             /\ kind = "established" => n + 1 = 1
             /\ kind = "lost" => n + 1 <= 2
             /\ kind \notin {"event", "alert"}
        <5>1. CASE last = "established"
          <6>1. n + 1 = 2 BY <4>10, <5>1
          <6>2. kind = "created" \/ kind = "lost" BY <4>13, <5>1
          <6> QED BY <6>1, <6>2
        <5>2. CASE last = "lost"
          <6>1. n + 1 <= 3 BY <4>11, <4>12, <5>2
          <6>2. kind = "reestablished" \/ kind = "unable" BY <4>14, <5>2
          <6> QED BY <6>1, <6>2
        <5> QED BY <4>17, <5>1, <5>2
      <4> QED BY <4>18 DEF n
    <3> QED BY <3>2, <3>3
  <2>4. \A s \in Thread : Len(calls'[s]) <= MaxEvents + 3
    <3>1. \A s \in Thread : Len(calls[s]) <= MaxEvents + 3 BY DEF Base, Calls
    <3>2. MaxEvents \in Nat BY LogFifoAssumption
    <3>3. Len(calls'[t]) <= MaxEvents + 3
      <4>1. CASE t # "storagemgr" BY <1>5, <2>2, <3>2, <4>1
      <4>2. CASE t = "storagemgr" BY <1>5, <2>3, <3>2, <4>2
      <4> QED BY <4>1, <4>2
    <3>4. \A s \in Thread \ {t} : Len(calls'[s]) = Len(calls[s]) BY <1>5
    <3> QED BY <3>1, <3>3, <3>4
  <2>5. ASSUME calls'["storagemgr"] # <<>>
        PROVE  /\ Last(calls'["storagemgr"]) = "established" => Len(calls'["storagemgr"]) = 1
               /\ Last(calls'["storagemgr"]) = "lost" => Len(calls'["storagemgr"]) <= 2
               /\ Len(calls'["storagemgr"]) <= 3
               /\ Last(calls'["storagemgr"]) \notin {"event", "alert"}
    <3>1. CASE t = "storagemgr" BY <1>5, <2>3, <3>1
    <3>2. CASE t # "storagemgr"
      <4>1. calls'["storagemgr"] = calls["storagemgr"] BY <1>5, <3>2 DEF Thread
      <4> QED BY <2>5, <4>1 DEF Base, Calls
    <3> QED BY <3>1, <3>2
  <2>6. \A s \in Thread : pc'[s] \in {"puts", "flush", "write", "exit"} => calls'[s] # <<>>
    BY <1>3, <1>5 DEF Base, Calls, Process
  <2> QED BY <2>4, <2>5, <2>6 DEF Calls
<1>8. \A j \in DOMAIN said : said[j].by \in Thread
  <2>1. \A j \in DOMAIN said : said[j] \in Message BY LenProperties, ElementOfSeq DEF Base, Typed
  <2> QED BY <2>1 DEF Message
<1>9. Once'
  <2>1. ASSUME NEW j \in DOMAIN said
        PROVE  /\ said[j].no <= Len(calls'[said[j].by])
               /\ pc'[said[j].by] = "puts" => said[j].no < Len(calls'[said[j].by])
    <3>1. said[j].no \in Nat
      <4>1. said[j] \in Message BY LenProperties, ElementOfSeq DEF Base, Typed
      <4> QED BY <4>1, LogFifoAssumption DEF Message
    <3>2. said[j].by \in Thread /\ said[j].no <= Len(calls[said[j].by])
          /\ (pc[said[j].by] = "puts" => said[j].no < Len(calls[said[j].by]))
      BY <1>8 DEF Base, Once
    <3>3. CASE said[j].by = t BY <1>5, <3>1, <3>2, <3>3
    <3>4. CASE said[j].by # t
      <4>1. calls'[said[j].by] = calls[said[j].by] /\ pc'[said[j].by] = pc[said[j].by]
        BY <1>3, <1>5, <3>2, <3>4 DEF Process
      <4> QED BY <3>2, <4>1
    <3> QED BY <3>3, <3>4
  <2>2. said' = said BY <1>1
  <2> QED BY <2>1, <2>2 DEF Base, Once
<1>10. Reader' BY <1>1, <1>3 DEF Base, Reader
<1>11. Laid(said)' /\ said' = said BY <1>1 DEF Base
<1>12. Flow' BY <1>1 DEF Base, Flow
<1>13. Done' = Done /\ Taken' = Taken /\ Held' = Held /\ Sent' = Sent
  BY <1>1 DEF Done, Taken, Held, Sent
<1>14. WholeSent' BY <1>11, <1>13 DEF Base, WholeSent, Boundary
<1>15. Lines' BY <1>1, <1>11, <1>13 DEF Base, Lines, Fresh
<1> QED BY <1>6, <1>7, <1>9, <1>10, <1>11, <1>12, <1>14, <1>15 DEF Base

LEMMA FputsStep ==
  ASSUME Base, NEW t \in Thread, Fputs(t)
  PROVE  Base' /\ Current(t) \in Message
<1> DEFINE m == Current(t)
           n == Len(said) + 1
<1>1. /\ pc[t] = "puts" /\ pc' = [pc EXCEPT ![t] = "flush"]
      /\ obuf' = obuf \o Text(m) /\ said' = Append(said, m)
      /\ UNCHANGED <<gateway, calls, lock, writer, reader, pipe, ibuf, line, file>>
  BY DEF Fputs, At, Goto, logvars
<1>2. t \in Process /\ t # "main" /\ t # "log" BY DEF Process, Thread
<1>3. /\ pc'[t] = "flush" /\ \A p \in Process \ {t} : pc'[p] = pc[p]
      /\ pc' \in [Process -> Place] /\ pc'["main"] = pc["main"] /\ pc'["log"] = pc["log"]
  <2>1. /\ pc'[t] = "flush" /\ \A p \in Process \ {t} : pc'[p] = pc[p]
        /\ pc' \in [Process -> Place]
    <3>1. "puts" \in Place /\ "flush" \in Place BY DEF Place
    <3>2. Goto(t, "flush") BY <1>1 DEF Goto
    <3> QED BY <1>2, <3>1, <3>2, GotoStep DEF Base
  <2>2. "main" \in Process \ {t} /\ "log" \in Process \ {t} BY <1>2 DEF Process
  <2> QED BY <2>1, <2>2
<1>4. Control'
  <2>1. \A s \in Thread : s = t \/ pc'[s] = pc[s] BY <1>3 DEF Process
  <2> QED BY <1>1, <1>3, <2>1 DEF Base, Typed, Control
<1>5. m \in Message /\ m.by = t /\ m.no = Len(calls[t])
  <2>1. calls[t] \in Seq(Kind) /\ calls[t] # <<>> /\ Len(calls[t]) <= MaxEvents + 3
    BY <1>1 DEF Base, Typed, Calls
  <2>2. Len(calls[t]) \in Nat \ {0} BY <2>1, EmptySeq
  <2>3. Len(calls[t]) \in 1 .. Len(calls[t]) BY <2>2
  <2>4. Last(calls[t]) \in Kind BY <2>1, <2>3, ElementOfSeq DEF Last
  <2>5. Len(calls[t]) \in 1 .. MaxEvents + 3 BY <2>1, <2>2, LogFifoAssumption
  <2> QED BY <2>4, <2>5 DEF Current, Message
<1> HIDE DEF m
<1>6. Text(m) \in Seq(Piece) BY <1>5, TextType
<1>7. /\ said' \in Seq(Message) /\ Len(said') = n /\ said'[n] = m /\ n \in Nat
      /\ \A j \in 1 .. Len(said) : said'[j] = said[j]
      /\ DOMAIN said = 1 .. Len(said) /\ DOMAIN said' = 1 .. n /\ Len(said) \in Nat
  <2>1. said \in Seq(Message) BY DEF Base, Typed
  <2>2. /\ said' \in Seq(Message) /\ Len(said') = n /\ said'[n] = m
        /\ \A j \in 1 .. Len(said) : said'[j] = said[j]
    BY <1>1, <1>5, <2>1, AppendProperties
  <2> HIDE DEF n
  <2>3. DOMAIN said = 1 .. Len(said) /\ DOMAIN said' = 1 .. n /\ Len(said) \in Nat
    BY <2>1, <2>2, LenProperties
  <2> QED BY <2>2, <2>3 DEF n
<1>8. Typed'
  <2>1. obuf' \in Seq(Piece) BY <1>1, <1>6, ConcatProperties DEF Base, Typed
  <2> QED BY <1>1, <1>4, <1>7, <2>1 DEF Base, Typed
<1>9. Calls' BY <1>1, <1>3 DEF Base, Calls, Process
<1>10. Reader' BY <1>1, <1>3 DEF Base, Reader
<1>11. \A j \in 1 .. n : j = n \/ j \in 1 .. Len(said) BY <1>7
<1>12. Once'
  <2>1. ASSUME NEW j \in 1 .. Len(said)
        PROVE  /\ said[j].no <= Len(calls[said[j].by])
               /\ pc'[said[j].by] = "puts" => said[j].no < Len(calls[said[j].by])
               /\ said[j] # m
    <3>1. said[j].by \in Thread
      <4>1. said[j] \in Message BY ElementOfSeq DEF Base, Typed
      <4> QED BY <4>1 DEF Message
    <3>2. /\ said[j].no <= Len(calls[said[j].by])
          /\ pc[said[j].by] = "puts" => said[j].no < Len(calls[said[j].by])
      BY <1>7 DEF Base, Once
    <3>3. pc'[said[j].by] = "puts" => pc[said[j].by] = "puts" BY <1>3, <3>1 DEF Process
    <3>4. said[j] # m
      <4> SUFFICES ASSUME said[j] = m PROVE FALSE OBVIOUS
      <4>1. Len(calls[t]) < Len(calls[t]) BY <1>1, <1>5, <3>2
      <4>2. Len(calls[t]) \in Nat BY LenProperties DEF Base, Typed
      <4> QED BY <4>1, <4>2
    <3> QED BY <3>2, <3>3, <3>4
  <2>2. \A i, j \in 1 .. n : said'[i] = said'[j] => i = j
    BY <1>7, <1>11, <2>1 DEF Base, Once
  <2>3. /\ said'[n].no <= Len(calls[said'[n].by])
        /\ pc'[said'[n].by] = "puts" => said'[n].no < Len(calls[said'[n].by])
    <3>1. Len(calls[t]) \in Nat BY LenProperties DEF Base, Typed
    <3> QED BY <1>3, <1>5, <1>7, <3>1
  <2>4. calls' = calls BY <1>1
  <2> QED BY <1>7, <1>11, <2>1, <2>2, <2>3, <2>4 DEF Once
<1>13. Laid(said)'
  <2>1. Laid(said) /\ said \in Seq(Message) BY DEF Base, Typed
  <2>2. Laid(Append(said, m)) BY <1>5, <2>1, LaidAppend
  <2> QED BY <1>1, <2>2
<1>14. /\ \A j \in 1 .. n : Start(said', j) = Start(said, j)
       /\ TextOf(said') = TextOf(said) \o Text(m)
       /\ Start(said, n) = Len(TextOf(said)) /\ TextOf(said) \in Seq(Piece)
  <2>1. said \in Seq(Message) BY DEF Base, Typed
  <2> QED BY <1>1, <1>5, <2>1, StartAppend, TextOfAppend
<1>15. Done' = Done /\ Taken' = Taken /\ Held' = Held /\ Sent' = Sent
  BY <1>1 DEF Done, Taken, Held, Sent
<1>16. Flow' /\ Len(TextOf(said)) = Sent + Len(obuf)
  <2> DEFINE f == FlattenSeq(file)
             a == f \o line
             b == a \o ibuf
             c == b \o pipe
  <2>1. TextOf(said) = c \o obuf BY DEF Base, Flow
  <2>2. f \in Seq(Piece) /\ line \in Seq(Piece) /\ ibuf \in Seq(Piece) /\ pipe \in Seq(Piece)
        /\ obuf \in Seq(Piece)
    BY FlattenType DEF Base, Typed
  <2>3. a \in Seq(Piece) /\ Len(a) = Len(f) + Len(line) BY <2>2, ConcatProperties
  <2>4. b \in Seq(Piece) /\ Len(b) = Len(a) + Len(ibuf) BY <2>2, <2>3, ConcatProperties
  <2>5. c \in Seq(Piece) /\ Len(c) = Len(b) + Len(pipe) BY <2>2, <2>4, ConcatProperties
  <2>6. Len(c \o obuf) = Len(c) + Len(obuf) BY <2>2, <2>5, ConcatProperties
  <2>7. (c \o obuf) \o Text(m) = c \o (obuf \o Text(m))
    <3> DEFINE x == Text(m)
    <3>1. c \in Seq(Piece) /\ obuf \in Seq(Piece) /\ x \in Seq(Piece) BY <1>6, <2>2, <2>5
    <3> HIDE DEF c, x
    <3>2. (c \o obuf) \o x = c \o (obuf \o x) BY <3>1, ConcatAssociative
    <3> QED BY <3>2 DEF x
  <2>8. Sent = Len(c) BY <2>3, <2>4, <2>5 DEF Sent, Held, Taken, Done
  <2>9. TextOf(said') = c \o obuf' BY <1>1, <1>14, <2>1, <2>7
  <2>10. Flow' BY <1>1, <2>9 DEF Flow
  <2> QED BY <2>1, <2>6, <2>8, <2>10
<1>17. WholeSent'
  <2>1. \A j \in 1 .. Len(said) + 1 : j \in 1 .. Len(said') + 1 /\ Start(said', j) = Start(said, j)
    BY <1>7, <1>14
  <2>2. PICK s \in 1 .. Len(said) + 1 : Sent = Start(said, s) BY DEF Base, WholeSent, Boundary
  <2>3. Sent' = Start(said', s) BY <1>15, <2>1, <2>2
  <2> QED BY <2>1, <2>3 DEF WholeSent, Boundary
<1>18. Lines'
  <2>1. ASSUME NEW j \in 1 .. Len(said)
        PROVE  /\ j > 1 => j - 1 \in 1 .. Len(said) /\ said'[j - 1] = said[j - 1]
               /\ said'[j] = said[j] /\ Start(said', j) = Start(said, j)
    BY <1>7, <1>14
  <2>2. \A j \in 1 .. Len(said) : Fresh(j)' => Fresh(j) BY <2>1 DEF Fresh
  <2>3. ~(Start(said', n) < Done) /\ ~(Start(said', n) < Taken)
    <3>1. Start(said', n) = Sent + Len(obuf) BY <1>7, <1>14, <1>16
    <3>2. Sent >= Taken /\ Taken >= Done /\ Sent \in Nat /\ Taken \in Nat /\ Done \in Nat
      BY Counts DEF Base
    <3>3. Len(obuf) \in Nat BY LenProperties DEF Base, Typed
    <3> QED BY <3>1, <3>2, <3>3
  <2>4. file' = file /\ line' = line BY <1>1
  <2>5. ASSUME NEW j \in DOMAIN said', Fresh(j)'
        PROVE  /\ Start(said', j) < Done' => Text(said'[j]) \in Range(file')
               /\ Done' <= Start(said', j) /\ Start(said', j) < Taken' => line' = Text(said'[j])
    <3>1. CASE j = n BY <1>15, <2>3, <3>1
    <3>2. CASE j \in 1 .. Len(said)
      <4>1. Fresh(j) BY <2>2, <2>5, <3>2
      <4> QED BY <1>7, <1>15, <2>1, <2>4, <3>2, <4>1 DEF Base, Lines
    <3> QED BY <1>7, <1>11, <3>1, <3>2
  <2> QED BY <2>5 DEF Lines
<1> QED BY <1>5, <1>8, <1>9, <1>10, <1>12, <1>13, <1>16, <1>17, <1>18 DEF Base, m

(* The text that has been said, cut into the parts along the way. *)
LEMMA Parts ==
  ASSUME Base
  PROVE  /\ FlattenSeq(file) \in Seq(Piece) /\ TextOf(said) \in Seq(Piece)
         /\ Len(TextOf(said)) = Sent + Len(obuf)
         /\ \A i \in 1 .. Len(ibuf) : TextOf(said)[Taken + i] = ibuf[i]
<1> DEFINE f == FlattenSeq(file)
           a == f \o line
           b == a \o ibuf
           c == b \o pipe
<1>1. TextOf(said) = c \o obuf BY DEF Base, Flow
<1>2. f \in Seq(Piece) /\ line \in Seq(Piece) /\ ibuf \in Seq(Piece) /\ pipe \in Seq(Piece)
      /\ obuf \in Seq(Piece)
  BY FlattenType DEF Base, Typed
<1>3. a \in Seq(Piece) /\ Len(a) = Len(f) + Len(line) BY <1>2, ConcatProperties
<1>4. /\ b \in Seq(Piece) /\ Len(b) = Len(a) + Len(ibuf)
      /\ \A i \in 1 .. Len(a) + Len(ibuf) : b[i] = IF i <= Len(a) THEN a[i] ELSE ibuf[i - Len(a)]
  <2> HIDE DEF a
  <2> QED BY <1>2, <1>3, ConcatProperties
<1>5. /\ c \in Seq(Piece) /\ Len(c) = Len(b) + Len(pipe)
      /\ \A i \in 1 .. Len(b) + Len(pipe) : c[i] = IF i <= Len(b) THEN b[i] ELSE pipe[i - Len(b)]
  <2> HIDE DEF b
  <2> QED BY <1>2, <1>4, ConcatProperties
<1>6. /\ c \o obuf \in Seq(Piece) /\ Len(c \o obuf) = Len(c) + Len(obuf)
      /\ \A i \in 1 .. Len(c) + Len(obuf) :
           (c \o obuf)[i] = IF i <= Len(c) THEN c[i] ELSE obuf[i - Len(c)]
  <2> HIDE DEF c
  <2> QED BY <1>2, <1>5, ConcatProperties
<1>7. Taken = Len(a) /\ Sent = Len(c) BY <1>3, <1>4, <1>5 DEF Sent, Held, Taken, Done
<1>8. Len(a) \in Nat /\ Len(ibuf) \in Nat /\ Len(pipe) \in Nat /\ Len(obuf) \in Nat
  <2> HIDE DEF a
  <2> QED BY <1>2, <1>3, LenProperties
<1>9. ASSUME NEW i \in 1 .. Len(ibuf) PROVE TextOf(said)[Taken + i] = ibuf[i]
  <2> DEFINE k == Len(a) + i
  <2> HIDE DEF a, b, c
  <2>1. /\ k \in 1 .. Len(a) + Len(ibuf) /\ ~(k <= Len(a)) /\ k - Len(a) = i
        /\ k \in 1 .. Len(b) + Len(pipe) /\ k <= Len(b)
        /\ k \in 1 .. Len(c) + Len(obuf) /\ k <= Len(c)
    BY <1>4, <1>5, <1>8
  <2> HIDE DEF k
  <2>2. b[k] = ibuf[i] BY <1>4, <2>1
  <2>3. c[k] = b[k] BY <1>5, <2>1
  <2>4. (c \o obuf)[k] = c[k] BY <1>6, <2>1
  <2> QED BY <1>1, <1>7, <2>2, <2>3, <2>4 DEF k
<1> QED BY <1>1, <1>2, <1>6, <1>7, <1>9

(* The log process goes on by itself. *)
LEMMA LogQuiet ==
  ASSUME Base, pc' \in [Process -> Place],
         pc'["log"] \in {"off", "open", "create", "read", "record", "ended", "failed"},
         \A q \in Process \ {"log"} : pc'[q] = pc[q],
         reader' \in {"none", "open", "closed"} \/ reader' = reader,
         UNCHANGED <<gateway, calls, lock, said, writer>>
  PROVE  Quiet
<1>1. \A q \in Thread \cup {"main"} : pc'[q] = pc[q]
  <2>1. \A q \in Thread \cup {"main"} : q \in Process /\ q # "log" BY DEF Process, Thread
  <2> QED BY <2>1
<1>2. Control' BY <1>1 DEF Base, Typed, Control
<1> QED BY <1>1, <1>2 DEF Quiet, Base, Calls

LEMMA Forked ==
  ASSUME Base, pc["log"] # "off", \A q \in Process \ {"log"} : pc'[q] = pc[q]
  PROVE  pc'["main"] # "fork"
<1>1. "main" \in Process \ {"log"} BY DEF Process
<1> QED BY <1>1 DEF Base, Reader

(* The stdio buffer is written to the FIFO, by whom and whenever. *)
LEMMA WriteOutStep ==
  ASSUME Base, Quiet, Reader', WriteOut, UNCHANGED <<ibuf, line, file>>
  PROVE  Base'
<1>1. Calls' /\ Once' /\ Laid(said)' /\ said' = said /\ calls' = calls /\ Control' BY QuietStep
<1>2. pipe' = pipe \o obuf /\ obuf' = <<>> BY DEF WriteOut
<1>3. pipe' \in Seq(Piece) /\ obuf' \in Seq(Piece) /\ Len(pipe') = Len(pipe) + Len(obuf)
  BY <1>2, EmptySeq, ConcatProperties DEF Base, Typed
<1>4. Typed' BY <1>1, <1>3 DEF Base, Typed
<1>5. Done' = Done /\ Taken' = Taken /\ Held' = Held BY DEF Done, Taken, Held
<1>6. Sent' = Len(TextOf(said))
  <2>1. Len(pipe) \in Nat /\ Len(obuf) \in Nat /\ Held \in Nat
    BY LenProperties, Counts DEF Base, Typed
  <2> QED BY <1>3, <1>5, <2>1, Parts DEF Sent
<1>7. Flow'
  <2> DEFINE b == (FlattenSeq(file) \o line) \o ibuf
  <2>1. b \in Seq(Piece) /\ pipe \in Seq(Piece) /\ obuf \in Seq(Piece)
    <3>1. FlattenSeq(file) \in Seq(Piece) BY Parts
    <3>2. line \in Seq(Piece) /\ ibuf \in Seq(Piece) BY DEF Base, Typed
    <3>3. FlattenSeq(file) \o line \in Seq(Piece) BY <3>1, <3>2, ConcatProperties
    <3> QED BY <3>2, <3>3, ConcatProperties DEF Base, Typed
  <2>2. TextOf(said) = (b \o pipe) \o obuf BY DEF Base, Flow
  <2> HIDE DEF b
  <2>3. (b \o pipe) \o obuf = b \o pipe' BY <1>2, <2>1, ConcatAssociative
  <2>4. b \o pipe' \in Seq(Piece) BY <1>3, <2>1, ConcatProperties
  <2>5. (b \o pipe') \o <<>> = b \o pipe' BY <2>4, ConcatEmptySeq
  <2>6. TextOf(said) = (b \o pipe') \o obuf' BY <1>2, <2>2, <2>3, <2>5
  <2> QED BY <1>1, <2>6 DEF Flow, b
<1>8. WholeSent'
  <2>1. Len(said) \in Nat BY LenProperties DEF Base, Typed
  <2>2. Len(said) + 1 \in 1 .. Len(said) + 1 BY <2>1
  <2>3. Boundary(Len(TextOf(said))) BY <2>2 DEF Base, Laid, Boundary
  <2> QED BY <1>1, <1>6, <2>3 DEF WholeSent, Boundary
<1>9. Lines' BY <1>1, <1>5 DEF Base, Lines, Fresh
<1> QED BY <1>1, <1>4, <1>7, <1>8, <1>9 DEF Base

(* Concatenation, apart from the facts a longer proof has in view. *)
LEMMA Together == \A x, y \in Seq(Piece) : x \o y \in Seq(Piece)
BY ConcatProperties

LEMMA Regroup ==
  \A f, x, y \in Seq(Piece) : (f \o x) \o y = f \o (x \o y)
BY ConcatAssociative

(* A sequence cut in two. *)
LEMMA Split ==
  ASSUME NEW s \in Seq(Piece), NEW n \in 1 .. Len(s)
  PROVE  /\ SubSeq(s, 1, n) \in Seq(Piece) /\ Len(SubSeq(s, 1, n)) = n
         /\ \A i \in 1 .. n : SubSeq(s, 1, n)[i] = s[i]
         /\ SubSeq(s, n + 1, Len(s)) \in Seq(Piece) /\ Len(SubSeq(s, n + 1, Len(s))) = Len(s) - n
         /\ SubSeq(s, 1, n) \o SubSeq(s, n + 1, Len(s)) = s
<1> DEFINE e == Len(s)
<1>1. Len(s) \in Nat BY LenProperties
<1>2. \A i \in 1 .. n : s[i] \in Piece
  <2>1. \A i \in 1 .. n : i \in 1 .. Len(s) BY <1>1
  <2> QED BY <2>1, ElementOfSeq
<1>3. \A i \in n + 1 .. e : s[i] \in Piece
  <2>1. \A i \in n + 1 .. e : i \in 1 .. Len(s) BY <1>1
  <2> QED BY <2>1, ElementOfSeq
<1>4. n \in Nat /\ 1 <= n /\ n <= e /\ e \in Nat /\ (n - 1) + 1 = n
      /\ \A i \in 1 .. n : (1 + i) - 1 = i
  BY <1>1
<1>5. /\ SubSeq(s, 1, n) \in Seq(Piece) /\ Len(SubSeq(s, 1, n)) = n
      /\ \A i \in 1 .. n : SubSeq(s, 1, n)[i] = s[i]
  <2>1. SubSeq(s, 1, n) \in Seq(Piece) BY <1>2, <1>4, SubSeqProperties
  <2>2. Len(SubSeq(s, 1, n)) = n BY <1>2, <1>4, SubSeqProperties
  <2>3. \A i \in 1 .. n : SubSeq(s, 1, n)[i] = s[i] BY <1>2, <1>4, SubSeqProperties
  <2> QED BY <2>1, <2>2, <2>3
<1>6. SubSeq(s, n + 1, e) \in Seq(Piece) /\ Len(SubSeq(s, n + 1, e)) = e - n
  <2>1. SubSeq(s, n + 1, e) \in Seq(Piece) BY <1>3, <1>4, SubSeqProperties
  <2>2. CASE n = e
    <3>1. SubSeq(s, n + 1, e) = <<>> BY <1>4, <2>2, SubSeqEmpty
    <3> QED BY <1>4, <2>1, <2>2, <3>1, EmptySeq
  <2>3. CASE n # e
    <3> HIDE DEF e
    <3>1. n + 1 <= e /\ e - (n + 1) + 1 = e - n BY <1>4, <2>3
    <3> QED BY <1>3, <1>4, <2>1, <3>1, SubSeqProperties
  <2> QED BY <2>2, <2>3
<1>7. SubSeq(s, 1, n) \o SubSeq(s, n + 1, e) = SubSeq(s, 1, e)
  <2>1. 1 \in 1 .. Len(s) + 1 /\ n \in 1 - 1 .. Len(s) /\ Len(s) \in n .. Len(s) BY <1>1
  <2> QED BY <2>1, ConcatAdjacentSubSeq
<1>8. SubSeq(s, 1, e) = s BY SubSeqFull
<1> QED BY <1>5, <1>6, <1>7, <1>8

(* A read may end anywhere. *)
LEMMA FillStep == ASSUME Base, Fill PROVE Base'
<1>1. PICK n \in {Len(pipe), ReadSize} :
        /\ pipe # <<>> /\ n = IF Len(pipe) <= ReadSize THEN Len(pipe) ELSE ReadSize
        /\ ibuf' = ibuf \o SubSeq(pipe, 1, n) /\ pipe' = SubSeq(pipe, n + 1, Len(pipe))
  BY DEF Fill
<1>2. /\ pc["log"] = "read"
      /\ UNCHANGED <<gateway, calls, lock, obuf, said, pc, writer, reader, line, file>>
  BY DEF Fill, At, startup
<1>3. pipe \in Seq(Piece) /\ ibuf \in Seq(Piece) /\ Len(pipe) \in Nat /\ Len(ibuf) \in Nat
  BY LenProperties DEF Base, Typed
<1>4. n \in 1 .. Len(pipe) BY <1>1, <1>3, EmptySeq, LogFifoAssumption
<1> DEFINE x == SubSeq(pipe, 1, n)
<1>5. /\ x \in Seq(Piece) /\ Len(x) = n /\ x \o pipe' = pipe
      /\ pipe' \in Seq(Piece) /\ Len(pipe') = Len(pipe) - n
  BY <1>1, <1>3, <1>4, Split
<1>6. ibuf' = ibuf \o x BY <1>1
<1> HIDE DEF x
<1>7. ibuf' \in Seq(Piece) /\ Len(ibuf') = Len(ibuf) + n BY <1>3, <1>5, <1>6, ConcatProperties
<1>8. Quiet BY <1>2 DEF Quiet, Base, Typed, Control, Calls
<1>9. Calls' /\ Once' /\ Laid(said)' /\ said' = said /\ calls' = calls /\ Control'
  BY <1>8, QuietStep
<1>10. Typed' BY <1>2, <1>5, <1>7, <1>9 DEF Base, Typed
<1>11. Reader' BY <1>2 DEF Base, Reader
<1>12. Done' = Done /\ Taken' = Taken BY <1>2 DEF Done, Taken
<1>13. Sent' = Sent
  <2>1. Taken \in Nat /\ n \in Nat BY <1>3, <1>4, Counts DEF Base
  <2> QED BY <1>3, <1>5, <1>7, <1>12, <2>1 DEF Sent, Held
<1>14. Flow'
  <2> DEFINE a == FlattenSeq(file) \o line
             b == a \o ibuf
             y == pipe'
  <2>1. a \in Seq(Piece) BY Parts, ConcatProperties DEF Base, Typed
  <2>2. b \in Seq(Piece) BY <1>3, <2>1, Together
  <2>3. TextOf(said) = (b \o pipe) \o obuf BY DEF Base, Flow
  <2>4. a \o ibuf' = b \o x
    <3> HIDE DEF a
    <3> QED BY <1>3, <1>5, <1>6, <2>1, Regroup
  <2> HIDE DEF b
  <2>5. (b \o x) \o y = b \o pipe
    <3>1. x \in Seq(Piece) /\ y \in Seq(Piece) /\ x \o y = pipe BY <1>5
    <3> HIDE DEF y
    <3>2. (b \o x) \o y = b \o (x \o y) BY <2>2, <3>1, Regroup
    <3> QED BY <3>1, <3>2
  <2>6. TextOf(said) = ((a \o ibuf') \o pipe') \o obuf BY <2>3, <2>4, <2>5
  <2> QED BY <1>2, <2>6 DEF Flow, a
<1>15. WholeSent' BY <1>9, <1>13 DEF Base, WholeSent, Boundary
<1>16. Lines' BY <1>2, <1>12 DEF Base, Lines, Fresh
<1> QED BY <1>9, <1>10, <1>11, <1>14, <1>15, <1>16 DEF Base

(* What fgets hands out when a message with a newline, behind one, is next: *)
(* that message, which is there as a whole.  As long as it is not, nothing  *)
(* ends a line, and fgets reads on.                                         *)
LEMMA FreshWhole ==
  ASSUME Base, line = <<>>, NEW n \in 1 .. Len(ibuf),
         \A i \in 1 .. n - 1 : ~(ibuf[i].newline \/ i = MAX),
         ibuf[n].newline \/ n = MAX \/ pipe = <<>>,
         NEW j \in DOMAIN said, Fresh(j), Done <= Start(said, j), Start(said, j) < Done + n
  PROVE  LET l == Length[said[j].kind]
         IN  /\ Start(said, j) = Done /\ l \in n .. Len(ibuf) /\ l <= MAX
             /\ ibuf[l].newline
             /\ \A i \in 1 .. l : ibuf[i] = Text(said[j])[i]
             /\ ibuf[n].newline => n = l
<1> DEFINE l == Length[said[j].kind]
           S(k) == Start(said, k)
           T == TextOf(said)
<1>1. /\ said \in Seq(Message) /\ Len(said) \in Nat /\ j \in 1 .. Len(said)
      /\ said[j] \in Message
  <2>1. said \in Seq(Message) BY DEF Base, Typed
  <2> QED BY <2>1, LenProperties, ElementOfSeq
<1>2. /\ Done \in Nat /\ Taken = Done /\ Held = Done + Len(ibuf) /\ Len(ibuf) \in Nat
      /\ \A i \in 1 .. Len(ibuf) : T[Done + i] = ibuf[i]
  <2>1. Done \in Nat BY Counts DEF Base
  <2>2. Taken = Done BY <2>1, EmptySeq DEF Taken
  <2>3. Len(ibuf) \in Nat BY LenProperties DEF Base, Typed
  <2> QED BY <2>1, <2>2, <2>3, Parts DEF Held
<1>3. /\ \A k \in 1 .. Len(said) :
           /\ S(k + 1) = S(k) + Length[said[k].kind]
           /\ \A i \in 1 .. Length[said[k].kind] : T[S(k) + i] = Text(said[k])[i]
      /\ \A k, m \in 1 .. Len(said) + 1 : k <= m => S(k) \in Nat /\ S(k) <= S(m)
      /\ S(1) = 0
  BY DEF Base, Laid
<1>4. l \in 1 .. 3 /\ l <= MAX /\ said[j].kind \in Kind
  <2>1. said[j].kind \in Kind BY <1>1 DEF Message
  <2> QED BY <2>1, Lengths
<1>5. /\ \A i \in 1 .. l : Text(said[j])[i].newline <=> i = l /\ HasNewline(said[j].kind)
      /\ HasNewline(said[j].kind)
  BY <1>1, TextType DEF Fresh
<1> HIDE DEF l, S, T
<1>6. S(j) \in Nat /\ Done <= S(j) /\ S(j) < Done + n
  <2>1. j \in 1 .. Len(said) + 1 BY <1>1
  <2> QED BY <1>3, <2>1 DEF S
<1>7. S(j) = Done
  <2> SUFFICES ASSUME S(j) > Done PROVE FALSE BY <1>2, <1>6
  <2>1. j # 1 BY <1>2, <1>3
  <2> DEFINE k == j - 1
  <2>2. k \in 1 .. Len(said) /\ k + 1 = j BY <1>1, <2>1
  <2>3. said[k] \in Message BY <1>1, <2>2, ElementOfSeq
  <2>4. HasNewline(said[k].kind)
    <3>1. j > 1 BY <1>1, <2>1
    <3> QED BY <3>1 DEF Fresh
  <2> HIDE DEF k
  <2> DEFINE d == Length[said[k].kind]
  <2>5. d \in 1 .. 3 /\ Text(said[k])[d].newline
    <3>1. d \in 1 .. 3 BY <2>3, TextType
    <3>2. d \in 1 .. d BY <3>1
    <3> QED BY <2>3, <2>4, <3>1, <3>2, TextType
  <2>6. S(j) = S(k) + d BY <1>3, <2>2
  <2>7. T[S(k) + d] = Text(said[k])[d]
    <3>1. d \in 1 .. d BY <2>5
    <3> QED BY <1>3, <2>2, <3>1
  <2> HIDE DEF d
  <2> DEFINE p == S(j) - Done
  <2>8. p \in 1 .. n - 1 /\ p \in 1 .. Len(ibuf) /\ Done + p = S(j) BY <1>2, <1>6
  <2> HIDE DEF p
  <2>9. ibuf[p] = Text(said[k])[d] BY <1>2, <2>6, <2>7, <2>8
  <2> QED BY <2>5, <2>8, <2>9
<1>8. ASSUME NEW i \in 1 .. l, i <= Len(ibuf) PROVE ibuf[i] = Text(said[j])[i]
  <2>1. i \in 1 .. Len(ibuf) BY <1>2, <1>4, <1>8
  <2>2. T[S(j) + i] = Text(said[j])[i] BY <1>1, <1>3 DEF l
  <2> QED BY <1>2, <1>7, <2>1, <2>2
<1>9. l <= Len(ibuf)
  <2>1. CASE pipe = <<>>
    <3>1. Held = Sent BY <1>2, <2>1, EmptySeq DEF Sent
    <3>2. PICK h \in 1 .. Len(said) + 1 : Held = S(h)
      BY <3>1 DEF Base, WholeSent, Boundary, S
    <3>3. j \in 1 .. Len(said) + 1 /\ j + 1 \in 1 .. Len(said) + 1 /\ h \in Nat /\ j \in Nat
      BY <1>1
    <3>4. ~(h <= j)
      <4> SUFFICES ASSUME h <= j PROVE FALSE OBVIOUS
      <4>1. S(h) <= S(j) BY <1>3, <3>3
      <4> QED BY <1>2, <1>6, <1>7, <3>2, <4>1
    <3>5. j + 1 <= h BY <3>3, <3>4
    <3>6. S(j + 1) <= S(h) BY <1>3, <3>3, <3>5
    <3>7. S(j + 1) = S(j) + l BY <1>1, <1>3 DEF l
    <3> QED BY <1>2, <1>4, <1>7, <3>2, <3>6, <3>7
  <2>2. CASE pipe # <<>>
    <3> SUFFICES ASSUME Len(ibuf) < l PROVE FALSE BY <1>2, <1>4
    <3>1. n \in 1 .. l /\ n <= Len(ibuf) /\ n # l /\ n # MAX
      BY <1>2, <1>4, LogFifoAssumption
    <3>2. ibuf[n].newline BY <2>2, <3>1
    <3> QED BY <1>5, <1>8, <3>1, <3>2
  <2> QED BY <2>1, <2>2
<1>10. \A i \in 1 .. l : ibuf[i] = Text(said[j])[i] BY <1>2, <1>4, <1>8, <1>9
<1>11. ibuf[l].newline
  <2>1. l \in 1 .. l BY <1>4
  <2> QED BY <1>5, <1>10, <2>1
<1>12. n <= l
  <2> SUFFICES ASSUME ~(n <= l) PROVE FALSE OBVIOUS
  <2>1. l \in 1 .. n - 1 BY <1>2, <1>4
  <2> QED BY <1>11, <2>1
<1>13. ibuf[n].newline => n = l
  <2>1. n \in 1 .. l BY <1>2, <1>4, <1>12
  <2> QED BY <1>5, <1>10, <2>1
<1>14. l \in n .. Len(ibuf) BY <1>2, <1>4, <1>9, <1>12
<1> QED BY <1>4, <1>7, <1>10, <1>11, <1>13, <1>14 DEF l, S

(* The first n pieces read ahead become the line. *)
LEMMA LineStep ==
  ASSUME Base, Quiet, Reader', line = <<>>, NEW n \in 1 .. Len(ibuf),
         line' = SubSeq(ibuf, 1, n), ibuf' = SubSeq(ibuf, n + 1, Len(ibuf)),
         \A i \in 1 .. n - 1 : ~(ibuf[i].newline \/ i = MAX),
         ibuf[n].newline \/ n = MAX \/ pipe = <<>>,
         \A j \in DOMAIN said :
           Fresh(j) /\ Start(said, j) = Done /\ Length[said[j].kind] \in n .. Len(ibuf)
             => n = Length[said[j].kind],
         UNCHANGED <<obuf, pipe, file>>
  PROVE  Base'
<1>1. Calls' /\ Once' /\ Laid(said)' /\ said' = said /\ calls' = calls /\ Control' BY QuietStep
<1>2. ibuf \in Seq(Piece) /\ Len(ibuf) \in Nat BY LenProperties DEF Base, Typed
<1>3. /\ line' \in Seq(Piece) /\ Len(line') = n /\ \A i \in 1 .. n : line'[i] = ibuf[i]
      /\ ibuf' \in Seq(Piece) /\ Len(ibuf') = Len(ibuf) - n
      /\ line' \o ibuf' = ibuf
  BY <1>2, Split
<1>4. Typed' BY <1>1, <1>3 DEF Base, Typed
<1>5. Taken = Done /\ Done \in Nat BY Counts, EmptySeq DEF Base, Taken
<1>6. Done' = Done /\ Taken' = Done + n /\ Held' = Held /\ Sent' = Sent
  <2>1. Done' = Done /\ Taken' = Done + n BY <1>3 DEF Done, Taken
  <2>2. Len(ibuf') = Len(ibuf) - n /\ n \in Nat BY <1>2, <1>3
  <2>3. Held' = (Done + n) + Len(ibuf') /\ Held = Done + Len(ibuf) BY <1>5, <2>1 DEF Held
  <2>4. Held' = Held BY <1>2, <1>5, <2>2, <2>3
  <2> QED BY <2>1, <2>4 DEF Sent
<1>7. Flow'
  <2> DEFINE f == FlattenSeq(file)
  <2>1. f \in Seq(Piece) BY Parts
  <2> HIDE DEF f
  <2>2. (f \o line) \o ibuf = f \o ibuf
    <3>1. f \o <<>> = f BY <2>1, ConcatEmptySeq
    <3> QED BY <3>1
  <2>3. (f \o line') \o ibuf' = f \o ibuf
    <3> DEFINE x == line'
               y == ibuf'
    <3>1. f \in Seq(Piece) /\ x \in Seq(Piece) /\ y \in Seq(Piece) BY <1>3, <2>1
    <3> HIDE DEF x, y
    <3>2. (f \o x) \o y = f \o (x \o y) BY <3>1, Regroup
    <3> QED BY <1>3, <3>2 DEF x, y
  <2>4. TextOf(said) = (((f \o line) \o ibuf) \o pipe) \o obuf BY DEF Base, Flow, f
  <2>5. TextOf(said) = (((f \o line') \o ibuf') \o pipe) \o obuf BY <2>2, <2>3, <2>4
  <2> QED BY <1>1, <2>5 DEF Flow, f
<1>8. WholeSent' BY <1>1, <1>6 DEF Base, WholeSent, Boundary
<1>9. Lines'
  <2>1. ASSUME NEW j \in DOMAIN said, Fresh(j), Done <= Start(said, j), Start(said, j) < Done + n
        PROVE  line' = Text(said[j])
    <3> DEFINE l == Length[said[j].kind]
               x == Text(said[j])
    <3>1. /\ Start(said, j) = Done /\ l \in n .. Len(ibuf)
          /\ \A i \in 1 .. l : ibuf[i] = x[i]
      BY <2>1, FreshWhole
    <3>2. n = l BY <2>1, <3>1
    <3>3. said[j] \in Message BY LenProperties, ElementOfSeq DEF Base, Typed
    <3>4. x \in Seq(Piece) /\ Len(x) = l BY <3>3, TextType
    <3> HIDE DEF l, x
    <3>5. line' \in Seq(Piece) /\ Len(line') = Len(x) BY <1>3, <3>2, <3>4
    <3>6. \A i \in 1 .. Len(line') : line'[i] = x[i] BY <1>3, <3>1, <3>2
    <3>7. line' = x BY <3>4, <3>5, <3>6, SeqEqual
    <3> QED BY <3>7 DEF x
  <2>2. \A j \in DOMAIN said : Fresh(j)' => Fresh(j) BY <1>1 DEF Fresh
  <2> QED BY <1>1, <1>6, <2>1, <2>2 DEF Base, Lines
<1> QED BY <1>1, <1>4, <1>7, <1>8, <1>9 DEF Base

LEMMA GetLineStep == ASSUME Base, GetLine PROVE Base'
<1> DEFINE n == CHOOSE i \in LineEnds : \A j \in LineEnds : i <= j
<1>1. /\ pc["log"] = "read" /\ Goto("log", "record") /\ LineEnds # {}
      /\ line' = SubSeq(ibuf, 1, n) /\ ibuf' = SubSeq(ibuf, n + 1, Len(ibuf))
      /\ UNCHANGED <<gateway, calls, lock, obuf, said, writer, reader, pipe, file>>
  BY DEF GetLine, At, startup
<1>2. DOMAIN ibuf = 1 .. Len(ibuf) /\ Len(ibuf) \in Nat BY LenProperties DEF Base, Typed
<1>3. n \in LineEnds /\ \A j \in LineEnds : n <= j
  <2>1. LineEnds \in SUBSET Nat BY <1>2 DEF LineEnds
  <2>2. \E i \in LineEnds : \A j \in LineEnds : i <= j BY <1>1, <2>1, MinNat
  <2> QED BY <2>2
<1> HIDE DEF n
<1>4. n \in 1 .. Len(ibuf) /\ (ibuf[n].newline \/ n = MAX) BY <1>2, <1>3 DEF LineEnds
<1>5. \A i \in 1 .. n - 1 : ~(ibuf[i].newline \/ i = MAX)
  <2>1. \A i \in 1 .. n - 1 : i \in DOMAIN ibuf /\ ~(n <= i) BY <1>2, <1>4
  <2> QED BY <1>3, <2>1 DEF LineEnds
<1>6. line = <<>> BY <1>1 DEF Base, Reader
<1>7. /\ pc'["log"] = "record" /\ \A q \in Process \ {"log"} : pc'[q] = pc[q]
      /\ pc' \in [Process -> Place]
  <2>1. "log" \in Process /\ "record" \in Place BY DEF Process, Place
  <2> QED BY <1>1, <2>1, GotoStep DEF Base
<1>8. Quiet BY <1>1, <1>7, LogQuiet
<1>9. Reader'
  <2>1. line' # <<>>
    <3>1. 1 \in 1 .. n /\ n \in Nat BY <1>2, <1>4
    <3>2. Len(line') = n
      <4>1. \A i \in 1 .. n : ibuf[i] \in Piece
        <5>1. \A i \in 1 .. n : i \in 1 .. Len(ibuf) BY <1>2, <1>4
        <5> QED BY <5>1, ElementOfSeq DEF Base, Typed
      <4>2. 1 <= n /\ (n - 1) + 1 = n BY <3>1
      <4> QED BY <1>1, <3>1, <4>1, <4>2, SubSeqProperties
    <3> QED BY <1>4, <3>1, <3>2, EmptySeq
  <2>2. pc'["main"] # "fork" BY <1>1, <1>7, Forked
  <2> QED BY <1>7, <2>1, <2>2 DEF Reader
<1>10. ASSUME NEW j \in DOMAIN said, Fresh(j), Start(said, j) = Done,
              Length[said[j].kind] \in n .. Len(ibuf)
       PROVE  n = Length[said[j].kind]
  <2> DEFINE l == Length[said[j].kind]
  <2>1. Start(said, j) < Done + n
    <3>1. Done \in Nat BY Counts DEF Base
    <3> QED BY <1>2, <1>4, <1>10, <3>1
  <2>2. Done <= Start(said, j)
    <3>1. Done \in Nat BY Counts DEF Base
    <3> QED BY <1>10, <3>1
  <2>3. l <= MAX /\ l \in n .. Len(ibuf) /\ (ibuf[n].newline => n = l)
    BY <1>4, <1>5, <1>6, <1>10, <2>1, <2>2, FreshWhole
  <2> HIDE DEF l
  <2>4. n = l BY <1>2, <1>4, <2>3, LogFifoAssumption
  <2> QED BY <2>4 DEF l
<1> QED BY <1>1, <1>4, <1>5, <1>6, <1>8, <1>9, <1>10, LineStep

LEMMA EndOfFileStep == ASSUME Base, EndOfFile PROVE Base'
<1>1. /\ pc["log"] = "read" /\ LineEnds = {} /\ pipe = <<>>
      /\ UNCHANGED <<gateway, calls, lock, obuf, said, writer, pipe, file>>
  BY DEF EndOfFile, At, startup
<1>2. line = <<>> BY <1>1 DEF Base, Reader
<1>3. "log" \in Process /\ "record" \in Place /\ "ended" \in Place BY DEF Process, Place
<1>4. CASE ibuf = <<>>
  <2>1. Goto("log", "ended") /\ line' = line /\ ibuf' = ibuf /\ reader' = "closed"
    BY <1>4 DEF EndOfFile
  <2>2. /\ pc'["log"] = "ended" /\ \A q \in Process \ {"log"} : pc'[q] = pc[q]
        /\ pc' \in [Process -> Place]
    BY <1>3, <2>1, GotoStep DEF Base
  <2>3. Quiet BY <1>1, <2>1, <2>2, LogQuiet
  <2>4. Reader'
    <3>1. pc'["main"] # "fork" BY <1>1, <2>2, Forked
    <3> QED BY <2>2, <3>1 DEF Reader
  <2> QED BY <1>1, <2>1, <2>3, <2>4, StillStep
<1>5. CASE ibuf # <<>>
  <2> DEFINE n == Len(ibuf)
  <2>1. Goto("log", "record") /\ line' = ibuf /\ ibuf' = <<>> /\ reader' = reader
    BY <1>5 DEF EndOfFile
  <2>2. /\ pc'["log"] = "record" /\ \A q \in Process \ {"log"} : pc'[q] = pc[q]
        /\ pc' \in [Process -> Place]
    BY <1>3, <2>1, GotoStep DEF Base
  <2>3. Quiet BY <1>1, <2>1, <2>2, LogQuiet
  <2>4. Reader'
    <3>1. pc'["main"] # "fork" BY <1>1, <2>2, Forked
    <3> QED BY <1>5, <2>1, <2>2, <3>1 DEF Reader
  <2>5. ibuf \in Seq(Piece) /\ n \in Nat /\ DOMAIN ibuf = 1 .. n BY LenProperties DEF Base, Typed
  <2>6. n \in 1 .. n BY <1>5, <2>5, EmptySeq
  <2>7. line' = SubSeq(ibuf, 1, n) /\ ibuf' = SubSeq(ibuf, n + 1, n)
    <3>1. SubSeq(ibuf, 1, n) = ibuf BY <2>5, SubSeqFull
    <3>2. n + 1 \in Int /\ n \in Int /\ n < n + 1 BY <2>5
    <3> HIDE DEF n
    <3>3. SubSeq(ibuf, n + 1, n) = <<>> BY <3>2, SubSeqEmpty
    <3> QED BY <2>1, <3>1, <3>3
  <2>8. \A i \in 1 .. n : ~(ibuf[i].newline \/ i = MAX) BY <1>1, <2>5 DEF LineEnds
  <2>9. \A i \in 1 .. n - 1 : ~(ibuf[i].newline \/ i = MAX)
    <3>1. \A i \in 1 .. n - 1 : i \in 1 .. n BY <2>5
    <3> QED BY <2>8, <3>1
  <2>10. ASSUME NEW j \in DOMAIN said, Fresh(j), Start(said, j) = Done,
                Length[said[j].kind] \in n .. Len(ibuf)
         PROVE  n = Length[said[j].kind]
    BY <2>5, <2>10
  <2> QED BY <1>1, <1>2, <2>3, <2>4, <2>6, <2>7, <2>9, <2>10, LineStep
<1> QED BY <1>4, <1>5

LEMMA RecordStep ==
  ASSUME Base, Record
  PROVE  /\ Base' /\ FlattenSeq(file') = FlattenSeq(file) \o line
         /\ line # <<>> /\ UNCHANGED said
<1>1. /\ pc["log"] = "record" /\ Goto("log", "read")
      /\ file' = Append(file, line) /\ line' = <<>>
      /\ UNCHANGED <<gateway, calls, lock, obuf, said, writer, reader, pipe, ibuf>>
  BY DEF Record, At, startup
<1>2. /\ pc'["log"] = "read" /\ \A q \in Process \ {"log"} : pc'[q] = pc[q]
      /\ pc' \in [Process -> Place]
  <2>1. "log" \in Process /\ "read" \in Place BY DEF Process, Place
  <2> QED BY <1>1, <2>1, GotoStep DEF Base
<1>3. Quiet BY <1>1, <1>2, LogQuiet
<1>4. Calls' /\ Once' /\ Laid(said)' /\ said' = said /\ calls' = calls /\ Control'
  BY <1>3, QuietStep
<1>5. Reader'
  <2>1. pc'["main"] # "fork" BY <1>1, <1>2, Forked
  <2> QED BY <1>1, <1>2, <2>1 DEF Reader
<1>6. file \in Seq(Seq(Piece)) /\ line \in Seq(Piece) /\ ibuf \in Seq(Piece) BY DEF Base, Typed
<1>7. FlattenSeq(file') = FlattenSeq(file) \o line /\ FlattenSeq(file) \in Seq(Piece)
  BY <1>1, <1>6, FlattenAppend
<1>8. file' \in Seq(Seq(Piece)) /\ Range(file') = Range(file) \cup {line}
  <2>1. file' \in Seq(Seq(Piece)) BY <1>1, <1>6, AppendProperties
  <2>2. file' = file \o <<line>> /\ <<line>> \in Seq(Seq(Piece)) BY <1>1, <1>6, AppendIsConcat
  <2>3. Range(file') = Range(file) \cup Range(<<line>>) BY <1>6, <2>2, RangeConcatenation
  <2>4. Range(<<line>>) = {line} BY DEF Range
  <2> QED BY <2>1, <2>3, <2>4
<1>9. Typed'
  <2>1. line' \in Seq(Piece) BY <1>1, EmptySeq
  <2> QED BY <1>1, <1>4, <1>8, <2>1 DEF Base, Typed
<1>10. Done' = Taken /\ Taken' = Taken /\ Held' = Held /\ Sent' = Sent /\ Taken \in Nat
  <2>1. Done' = Taken BY <1>6, <1>7, ConcatProperties DEF Done, Taken
  <2>2. Taken \in Nat BY Counts DEF Base
  <2>3. Len(line') = 0 BY <1>1, EmptySeq
  <2>4. Taken' = Done' + Len(line') BY DEF Taken
  <2>5. Taken' = Taken BY <2>1, <2>2, <2>3, <2>4
  <2>6. Held' = Held BY <1>1, <2>5 DEF Held
  <2> QED BY <1>1, <2>1, <2>2, <2>5, <2>6 DEF Sent
<1>11. Flow'
  <2> DEFINE f == FlattenSeq(file)
  <2>1. f \o line \in Seq(Piece) BY <1>6, <1>7, ConcatProperties
  <2>2. (f \o line) \o <<>> = f \o line BY <2>1, ConcatEmptySeq
  <2>3. TextOf(said) = (((f \o line) \o ibuf) \o pipe) \o obuf BY DEF Base, Flow
  <2> HIDE DEF f
  <2>4. TextOf(said) = ((((f \o line) \o <<>>) \o ibuf) \o pipe) \o obuf BY <2>2, <2>3
  <2>5. TextOf(said) = (((FlattenSeq(file') \o line') \o ibuf) \o pipe) \o obuf
    BY <1>1, <1>7, <2>4 DEF f
  <2> QED BY <1>1, <2>5 DEF Flow
<1>12. WholeSent' BY <1>4, <1>10 DEF Base, WholeSent, Boundary
<1>13. Lines'
  <2>1. \A j \in DOMAIN said : Fresh(j)' => Fresh(j) BY <1>4 DEF Fresh
  <2>2. ASSUME NEW j \in DOMAIN said, Fresh(j)
        PROVE  /\ Start(said, j) < Taken => Text(said[j]) \in Range(file')
               /\ ~(Taken <= Start(said, j) /\ Start(said, j) < Taken)
    <3>1. j \in 1 .. Len(said) + 1
      <4>1. Len(said) \in Nat /\ DOMAIN said = 1 .. Len(said) BY LenProperties DEF Base, Typed
      <4> QED BY <4>1
    <3>2. Start(said, j) \in Nat BY <3>1 DEF Base, Laid
    <3>3. /\ Start(said, j) < Done => Text(said[j]) \in Range(file)
          /\ Done <= Start(said, j) /\ Start(said, j) < Taken => line = Text(said[j])
      BY <2>2 DEF Base, Lines
    <3>4. Done \in Nat BY Counts DEF Base
    <3>5. Start(said, j) < Done \/ Done <= Start(said, j) BY <3>2, <3>4
    <3>6. ~(Taken <= Start(said, j) /\ Start(said, j) < Taken) BY <1>10, <3>2
    <3> QED BY <1>8, <3>3, <3>5, <3>6
  <2> QED BY <1>1, <1>10, <2>1, <2>2 DEF Lines
<1>14. line # <<>> BY <1>1 DEF Base, Reader
<1> QED BY <1>4, <1>5, <1>7, <1>9, <1>11, <1>12, <1>13, <1>14 DEF Base

(* Main or a thread goes on without a word. *)
LEMMA MoveQuiet ==
  ASSUME Base, NEW p \in Thread \cup {"main"}, NEW to, Goto(p, to),
         p = "main" => to \in {"open", "exited"},
         p # "main" => to \in {"idle", "exit", "write", "exited"},
         to \in {"exit", "write"} => pc[p] \in {"flush", "write"},
         gateway' \in {"running", "exiting", "flushed", "ended"},
         lock' \in Thread \cup {"none"},
         UNCHANGED <<calls, said, writer, reader, ibuf, line, file>>
  PROVE  Quiet /\ Reader'
<1>1. p \in Process /\ p # "log" /\ "log" \in Process /\ "main" \in Process
      /\ "main" \notin Thread /\ \A t \in Thread : t \in Process
  BY DEF Process, Thread
<1>2. to \in Place BY DEF Place
<1>3. pc'[p] = to /\ (\A q \in Process \ {p} : pc'[q] = pc[q]) /\ pc' \in [Process -> Place]
  BY <1>1, <1>2, GotoStep DEF Base
<1>4. pc'["log"] = pc["log"] BY <1>1, <1>3
<1>5. Reader'
  <2>1. pc'["main"] = pc["main"] \/ pc'["main"] \in {"open", "exited"} BY <1>1, <1>3
  <2> QED BY <1>4, <2>1 DEF Base, Reader
<1>6. \A t \in Thread : t = p \/ pc'[t] = pc[t] BY <1>1, <1>3
<1>7. Control'
  <2>1. pc'["main"] \in {"fork", "args", "open", "create", "join", "exited"}
    <3>1. CASE p = "main" BY <1>3, <3>1
    <3>2. CASE p # "main"
      <4>1. pc'["main"] = pc["main"] BY <1>1, <1>3, <3>2
      <4> QED BY <4>1 DEF Base, Typed, Control
    <3> QED BY <3>1, <3>2
  <2>2. \A t \in Thread :
          pc'[t] \in {"off", "idle", "puts", "flush", "write", "exit", "exited"}
    <3>1. p # "main" => pc'[p] \in {"idle", "exit", "write", "exited"} BY <1>3
    <3>2. ASSUME NEW t \in Thread, t = p
          PROVE  pc'[t] \in {"off", "idle", "puts", "flush", "write", "exit", "exited"}
      BY <1>1, <3>1, <3>2
    <3>3. ASSUME NEW t \in Thread, pc'[t] = pc[t]
          PROVE  pc'[t] \in {"off", "idle", "puts", "flush", "write", "exit", "exited"}
      BY <3>3 DEF Base, Typed, Control
    <3> QED BY <1>6, <3>2, <3>3
  <2> QED BY <1>3, <1>4, <2>1, <2>2 DEF Base, Typed, Control
<1>8. ASSUME NEW t \in Thread
      PROVE  /\ pc'[t] = "puts" => pc[t] = "puts"
             /\ pc'[t] \in {"puts", "flush", "write", "exit"} => calls[t] # <<>>
  <2>1. CASE t = p
    <3>1. pc'[t] \in {"idle", "exit", "write", "exited"} BY <1>1, <1>3, <2>1
    <3>2. pc'[t] \in {"exit", "write"} => pc[t] \in {"flush", "write"} BY <1>3, <2>1
    <3>3. pc[t] \in {"flush", "write"} => calls[t] # <<>> BY DEF Base, Calls
    <3> QED BY <3>1, <3>2, <3>3
  <2>2. CASE pc'[t] = pc[t] BY <2>2 DEF Base, Calls
  <2> QED BY <1>6, <2>1, <2>2
<1> QED BY <1>5, <1>7, <1>8 DEF Quiet

(* Nobody goes on. *)
LEMMA StayQuiet ==
  ASSUME Base, gateway' \in {"running", "exiting", "flushed", "ended"},
         writer' \in {"none", "open", "closed"},
         UNCHANGED <<pc, lock, calls, said, reader, ibuf, line, file>>
  PROVE  Quiet /\ Reader'
<1>1. Control' BY DEF Base, Typed, Control
<1> QED BY <1>1 DEF Quiet, Base, Calls, Reader

LEMMA CloseType == ASSUME Base, CloseWriter PROVE writer' \in {"none", "open", "closed"}
BY DEF Base, Typed, Control, CloseWriter

(* The steps of starting. *)
LEMMA StartSteps ==
  ASSUME Base, Fork \/ ArgumentsRight \/ OpenFifo \/ CreateThreads
  PROVE  Base' /\ UNCHANGED <<said, file>>
<1>1. /\ "main" \in Process /\ "log" \in Process /\ "main" # "log"
      /\ "main" \notin Thread /\ "log" \notin Thread /\ \A t \in Thread : t \in Process
  BY DEF Process, Thread
<1>2. Control /\ pc \in [Process -> Place] BY DEF Base, Typed, Control
<1>3. UNCHANGED <<gateway, calls, lock, obuf, said, pipe, ibuf, line, file>>
  BY DEF Fork, ArgumentsRight, OpenFifo, CreateThreads, startup, logvars
<1>4. CASE Fork
  <2>1. /\ pc' = [pc EXCEPT !["main"] = "args", !["log"] = "open"] /\ pc["main"] = "fork"
        /\ UNCHANGED <<writer, reader>>
    BY <1>4 DEF Fork, At
  <2>2. /\ pc'["main"] = "args" /\ pc'["log"] = "open" /\ \A t \in Thread : pc'[t] = pc[t]
        /\ pc' \in [Process -> Place]
    BY <1>1, <1>2, <2>1 DEF Place
  <2>3. Quiet BY <1>2, <1>3, <2>1, <2>2 DEF Quiet, Control, Base, Calls
  <2>4. Reader' BY <1>3, <2>1, <2>2 DEF Base, Reader
  <2> QED BY <1>3, <2>3, <2>4, StillStep
<1>5. CASE ArgumentsRight
  <2>1. Goto("main", "open") /\ UNCHANGED <<writer, reader>> BY <1>5 DEF ArgumentsRight
  <2>2. Quiet /\ Reader' BY <1>2, <1>3, <2>1, MoveQuiet DEF Control
  <2> QED BY <1>3, <2>2, StillStep
<1>6. CASE OpenFifo
  <2>1. /\ pc' = [pc EXCEPT !["main"] = "create", !["log"] = "create"] /\ pc["log"] = "open"
        /\ writer' = "open" /\ reader' = "open"
    BY <1>6 DEF OpenFifo
  <2>2. /\ pc'["main"] = "create" /\ pc'["log"] = "create" /\ \A t \in Thread : pc'[t] = pc[t]
        /\ pc' \in [Process -> Place]
    BY <1>1, <1>2, <2>1 DEF Place
  <2>3. Quiet BY <1>2, <1>3, <2>1, <2>2 DEF Quiet, Control, Base, Calls
  <2>4. Reader' BY <1>3, <2>1, <2>2 DEF Base, Reader
  <2> QED BY <1>3, <2>3, <2>4, StillStep
<1>7. CASE CreateThreads
  <2>1. /\ pc' = [p \in DOMAIN pc |-> IF p = "main" THEN "join"
                                     ELSE IF p \in Thread THEN "idle" ELSE pc[p]]
        /\ UNCHANGED <<writer, reader>>
    BY <1>7 DEF CreateThreads
  <2>2. DOMAIN pc = Process BY <1>2
  <2>3. /\ pc'["main"] = "join" /\ pc'["log"] = pc["log"] /\ \A t \in Thread : pc'[t] = "idle"
    BY <1>1, <2>1, <2>2
  <2>4. pc' \in [Process -> Place]
    <3>1. \A p \in Process : pc[p] \in Place BY <1>2
    <3>2. "join" \in Place /\ "idle" \in Place BY DEF Place
    <3> QED BY <2>1, <2>2, <3>1, <3>2
  <2>5. Quiet BY <1>2, <1>3, <2>1, <2>3, <2>4 DEF Quiet, Control, Base, Calls
  <2>6. Reader' BY <1>3, <2>3 DEF Base, Reader
  <2> QED BY <1>3, <2>5, <2>6, StillStep
<1> QED BY <1>3, <1>4, <1>5, <1>6, <1>7

(* The steps that end the gateway. *)
LEMMA EndSteps ==
  ASSUME Base, MainEnd \/ ExitFlush \/ ExitEnd \/ Abort \/ Sigpipe
  PROVE  Base' /\ UNCHANGED <<said, file>>
<1>1. UNCHANGED <<pc, lock, calls, said, reader, ibuf, line, file>>
  BY DEF MainEnd, ExitFlush, ExitEnd, Abort, Sigpipe, logvars
<1>2. gateway' \in {"running", "exiting", "flushed", "ended"}
  BY DEF MainEnd, ExitFlush, ExitEnd, Abort, Sigpipe
<1>3. writer' = writer \/ CloseWriter BY DEF MainEnd, ExitFlush, ExitEnd, Abort, Sigpipe
<1>4. writer' \in {"none", "open", "closed"}
  BY <1>3, CloseType DEF Base, Typed, Control
<1>5. Quiet /\ Reader' BY <1>1, <1>2, <1>4, StayQuiet
<1>6. WriteOut \/ UNCHANGED <<pipe, obuf>>
  BY DEF MainEnd, ExitFlush, ExitEnd, Abort, Sigpipe
<1>7. CASE WriteOut BY <1>1, <1>5, <1>7, WriteOutStep
<1>8. CASE UNCHANGED <<pipe, obuf>> BY <1>1, <1>5, <1>8, StillStep
<1> QED BY <1>1, <1>6, <1>7, <1>8

(* The steps of a thread after fputs, and exit. *)
LEMMA ThreadSteps ==
  ASSUME Base, NEW p \in Thread \cup {"main"}, Exit(p) \/ (p \in Thread /\ (Fflush(p) \/ Write(p)))
  PROVE  Base' /\ UNCHANGED <<said, file>>
<1>1. "main" \notin Thread BY DEF Thread
<1>2. UNCHANGED <<calls, said, writer, reader, ibuf, line, file>>
  BY DEF Exit, Fflush, Write, logvars
<1>3. CASE Exit(p)
  <2>1. Goto(p, "exited") /\ gateway' = "exiting" /\ UNCHANGED <<lock, obuf, pipe>>
    BY <1>3 DEF Exit
  <2>2. Quiet /\ Reader' BY <1>2, <2>1, MoveQuiet DEF Base, Typed, Control
  <2> QED BY <1>2, <2>1, <2>2, StillStep
<1>4. Returned(p) \in {"exit", "idle"} BY DEF Returned
<1>5. CASE p \in Thread /\ Fflush(p)
  <2>1. pc[p] = "flush" /\ UNCHANGED <<gateway, obuf, pipe>> BY <1>5 DEF Fflush, At
  <2>2. /\ Goto(p, Returned(p)) \/ Goto(p, "write")
        /\ lock' = lock \/ lock' = p
    BY <1>5 DEF Fflush
  <2>3. lock' \in Thread \cup {"none"} BY <1>5, <2>2 DEF Base, Typed, Control
  <2>4. PICK to \in {"exit", "idle", "write"} : Goto(p, to) BY <1>4, <2>2
  <2>5. p # "main" BY <1>1, <1>5
  <2>6. gateway' \in {"running", "exiting", "flushed", "ended"} BY <2>1 DEF Base, Typed, Control
  <2>7. Quiet /\ Reader' BY <1>2, <2>1, <2>3, <2>4, <2>5, <2>6, MoveQuiet
  <2> QED BY <1>2, <2>1, <2>7, StillStep
<1>6. CASE p \in Thread /\ Write(p)
  <2>1. pc[p] = "write" /\ WriteOut /\ lock' = "none" /\ gateway' = gateway
    BY <1>6 DEF Write, At
  <2>2. PICK to \in {"exit", "idle"} : Goto(p, to) BY <1>4, <1>6 DEF Write
  <2>3. p # "main" BY <1>1, <1>6
  <2>4. gateway' \in {"running", "exiting", "flushed", "ended"} BY <2>1 DEF Base, Typed, Control
  <2>5. Quiet /\ Reader' BY <1>2, <2>1, <2>2, <2>3, <2>4, MoveQuiet
  <2> QED BY <1>2, <2>1, <2>5, WriteOutStep
<1> QED BY <1>3, <1>5, <1>6

(* The log process empties its file when it starts, and may fail. *)
LEMMA LogSteps ==
  ASSUME Base, LogCreate \/ LogFail
  PROVE  Base' /\ UNCHANGED <<said, file>>
<1>1. "log" \in Process /\ "read" \in Place /\ "failed" \in Place /\ "main" \in Process \ {"log"}
  BY DEF Process, Place
<1>2. UNCHANGED <<gateway, calls, lock, obuf, said, writer, pipe, ibuf, line, file>>
  BY DEF LogCreate, LogFail, At, startup, logvars, Base, Reader
<1>3. PICK to \in {"read", "failed"} : Goto("log", to) BY DEF LogCreate, LogFail
<1>4. /\ pc'["log"] = to /\ (\A q \in Process \ {"log"} : pc'[q] = pc[q])
      /\ pc' \in [Process -> Place]
  <2>1. to \in Place BY <1>1
  <2> QED BY <1>1, <1>3, <2>1, GotoStep DEF Base
<1>5. reader' \in {"none", "open", "closed"}
  BY DEF LogCreate, LogFail, Base, Typed, Control
<1>6. Quiet BY <1>2, <1>4, <1>5, LogQuiet
<1>7. Reader'
  <2>1. pc["log"] \in {"open", "create", "record"} BY DEF LogCreate, LogFail, At
  <2>2. pc'["main"] # "fork" BY <1>1, <1>4, <2>1 DEF Base, Reader
  <2>3. to = "read" => line = <<>>
    <3>1. CASE LogCreate BY <3>1 DEF LogCreate, At, Base, Reader
    <3>2. CASE LogFail
      <4>1. pc'["log"] = "failed" BY <1>1, <3>2, GotoStep DEF Base, LogFail
      <4> QED BY <1>4, <4>1
    <3> QED BY <3>1, <3>2
  <2> QED BY <1>2, <1>4, <2>2, <2>3 DEF Reader
<1> QED BY <1>2, <1>6, <1>7, StillStep

LEMMA NextBase == Base /\ [Next]_vars => Base'
<1> SUFFICES ASSUME Base, [Next]_vars PROVE Base' OBVIOUS
<1>1. CASE Main BY <1>1, StartSteps, EndSteps DEF Main
<1>2. CASE MainEnd \/ Abort BY <1>2, EndSteps
<1>3. CASE LogProcess
  BY <1>3, LogSteps, FillStep, GetLineStep, EndOfFileStep, RecordStep DEF LogProcess
<1>4. CASE LogFail BY <1>4, LogSteps
<1>5. CASE \E t \in Thread : LogToFifo(t) \/ \E kind \in Kind : Call(t, kind)
  <2>1. PICK t \in Thread : LogToFifo(t) \/ \E kind \in Kind : Call(t, kind) BY <1>5
  <2>2. t \in Thread \cup {"main"} OBVIOUS
  <2>3. CASE Fputs(t) BY <2>3, FputsStep
  <2>4. CASE Fflush(t) \/ Write(t) BY <2>2, <2>4, ThreadSteps
  <2>5. CASE \E kind \in Kind : Call(t, kind) BY <2>5, CallStep
  <2> QED BY <2>1, <2>3, <2>4, <2>5 DEF LogToFifo
<1>6. CASE \E p \in Thread \cup {"main"} : Exit(p) BY <1>6, ThreadSteps
<1>7. CASE UNCHANGED vars
  <2>1. Quiet /\ Reader' BY <1>7, StayQuiet DEF vars, Base, Typed, Control
  <2> QED BY <1>7, <2>1, StillStep DEF vars
<1> QED BY <1>1, <1>2, <1>3, <1>4, <1>5, <1>6, <1>7 DEF Next

------------------------------------------------------------------------------
(* Wherever the threads, main and the log process are: what has been said   *)
(* is in gateway.log, in the buffers or in the FIFO, in order, and only     *)
(* whole messages are written to the FIFO, though the log process may read  *)
(* a part of one (main.c:119-134, 182-231).                                 *)
THEOREM Invariant == Spec => []Base
<1>1. Init => Base BY InitBase
<1>2. Base /\ [Next]_vars => Base' BY NextBase
<1> QED BY <1>1, <1>2, PTL DEF Spec

LEMMA PrefixOfConcat ==
  ASSUME NEW a \in Seq(Piece), NEW b \in Seq(Piece)
  PROVE  /\ Len(a) \in Nat /\ Len(a) <= Len(a \o b)
         /\ \A i \in 1 .. Len(a) : i \in 1 .. Len(a \o b) /\ (a \o b)[i] = a[i]
         /\ SubSeq(a \o b, 1, Len(a)) = a
<1>1. /\ a \o b \in Seq(Piece) /\ Len(a \o b) = Len(a) + Len(b)
      /\ \A i \in 1 .. Len(a) + Len(b) : (a \o b)[i] = IF i <= Len(a) THEN a[i] ELSE b[i - Len(a)]
  BY ConcatProperties
<1>2. Len(a) \in Nat /\ Len(b) \in Nat BY LenProperties
<1> DEFINE c == a \o b
           n == Len(a)
<1> HIDE DEF c
<1>3. n <= Len(c) /\ \A i \in 1 .. n : i \in 1 .. Len(c) /\ i <= n BY <1>1, <1>2 DEF c
<1>4. \A i \in 1 .. n : c[i] = a[i] BY <1>1, <1>3 DEF c
<1> HIDE DEF n
<1>5. SubSeq(c, 1, n) = a
  <2>1. /\ n \in Nat /\ (n - 1) + 1 = n
        /\ \A i \in 1 .. n : (1 + i) - 1 = i
        /\ \A i \in 1 .. n : c[i] \in Piece
    <3>1. c \in Seq(Piece) BY <1>1 DEF c
    <3> QED BY <1>2, <1>3, <3>1, ElementOfSeq DEF n
  <2> DEFINE d == SubSeq(c, 1, n)
  <2>2. d \in Seq(Piece) BY <2>1, SubSeqProperties
  <2>3. Len(d) = IF 1 <= n THEN n ELSE 0 BY <2>1, SubSeqProperties
  <2>4. \A i \in 1 .. n : d[i] = c[i] BY <2>1, SubSeqProperties
  <2> HIDE DEF d
  <2>5. Len(d) = n BY <2>1, <2>3
  <2>6. d = a BY <1>4, <2>2, <2>4, <2>5, SeqEqual DEF n
  <2> QED BY <2>6 DEF d
<1> QED BY <1>2, <1>3, <1>4, <1>5 DEF c, n

(* The file is the front of what has been said, and with the line it is too. *)
LEMMA FileInFront ==
  ASSUME Base
  PROVE  /\ FlattenSeq(file) \in Seq(Piece) /\ Done \in Nat
         /\ \A p \in 1 .. Done : /\ p \in 1 .. Len(TextOf(said))
                                /\ TextOf(said)[p] = FlattenSeq(file)[p]
         /\ Len(FlattenSeq(file) \o line) <= Len(TextOf(said))
         /\ SubSeq(TextOf(said), 1, Len(FlattenSeq(file) \o line)) = FlattenSeq(file) \o line
<1> DEFINE f == FlattenSeq(file)
           g == f \o line
           x == ibuf \o pipe
           y == x \o obuf
           z == line \o y
<1>1. f \in Seq(Piece) /\ line \in Seq(Piece) /\ ibuf \in Seq(Piece) /\ pipe \in Seq(Piece)
      /\ obuf \in Seq(Piece)
  BY FlattenType DEF Base, Typed
<1>2. g \in Seq(Piece) /\ x \in Seq(Piece) BY <1>1, Together
<1>3. y \in Seq(Piece) BY <1>1, <1>2, Together
<1>4. z \in Seq(Piece) BY <1>1, <1>3, Together
<1>5. TextOf(said) = ((g \o ibuf) \o pipe) \o obuf BY DEF Base, Flow
<1>6. g \o y = f \o z
  <2> HIDE DEF f, x, y
  <2>1. f \in Seq(Piece) /\ line \in Seq(Piece) /\ y \in Seq(Piece) BY <1>1, <1>3
  <2> QED BY <2>1, Regroup
<1> HIDE DEF f, g
<1>7. (g \o ibuf) \o pipe = g \o x
  <2>1. g \in Seq(Piece) /\ ibuf \in Seq(Piece) /\ pipe \in Seq(Piece) BY <1>1, <1>2
  <2> QED BY <2>1, Regroup
<1> HIDE DEF x
<1>8. (g \o x) \o obuf = g \o y
  <2>1. g \in Seq(Piece) /\ x \in Seq(Piece) /\ obuf \in Seq(Piece) BY <1>1, <1>2
  <2> QED BY <2>1, Regroup
<1> HIDE DEF y, z
<1>9. TextOf(said) = g \o y /\ TextOf(said) = f \o z BY <1>5, <1>6, <1>7, <1>8
<1>10. /\ Len(g) <= Len(TextOf(said)) /\ SubSeq(TextOf(said), 1, Len(g)) = g
  BY <1>2, <1>3, <1>9, PrefixOfConcat
<1>11. /\ Len(f) \in Nat
       /\ \A i \in 1 .. Len(f) : i \in 1 .. Len(TextOf(said)) /\ TextOf(said)[i] = f[i]
  BY <1>1, <1>4, <1>9, PrefixOfConcat
<1> QED BY <1>1, <1>10, <1>11 DEF f, g, Done

(* A message a piece of which is in gateway.log began before the end of it. *)
LEMMA InFile ==
  ASSUME Base, NEW j \in DOMAIN said, NEW i \in DOMAIN file, NEW k \in DOMAIN file[i],
         file[i][k].of = said[j]
  PROVE  Start(said, j) < Done
<1>1. file \in Seq(Seq(Piece)) /\ said \in Seq(Message) BY DEF Base, Typed
<1>2. PICK p \in 1 .. Done : FlattenSeq(file)[p] = file[i][k]
  BY <1>1, FlattenHas DEF Done
<1>3. /\ FlattenSeq(file) \in Seq(Piece) /\ Done \in Nat
      /\ p \in 1 .. Len(TextOf(said)) /\ TextOf(said)[p] = FlattenSeq(file)[p]
  BY FileInFront
<1>4. PICK m \in 1 .. Len(said) : Start(said, m) < p /\ p <= Start(said, m + 1)
  BY <1>3 DEF Base, Laid
<1> DEFINE d == p - Start(said, m)
<1>5. said[m] \in Message /\ Len(said) \in Nat BY <1>1, LenProperties, ElementOfSeq
<1>6. Start(said, m) \in Nat
      /\ Start(said, m + 1) = Start(said, m) + Length[said[m].kind]
  <2>1. m \in 1 .. Len(said) + 1 /\ m <= m BY <1>5
  <2>2. /\ \A k1, k2 \in 1 .. Len(said) + 1 : k1 <= k2 => Start(said, k1) \in Nat
        /\ \A k1 \in 1 .. Len(said) :
             Start(said, k1 + 1) = Start(said, k1) + Length[said[k1].kind]
    BY DEF Base, Laid
  <2> QED BY <2>1, <2>2
<1>7. Length[said[m].kind] \in 1 .. 3 BY <1>5, TextType
<1>8. d \in 1 .. Length[said[m].kind] /\ Start(said, m) + d = p
  <2> DEFINE b == Start(said, m)
             e == Start(said, m + 1)
             l == Length[said[m].kind]
  <2>1. b \in Nat /\ e = b + l /\ l \in 1 .. 3 /\ b < p /\ p <= e /\ p \in Nat
    BY <1>3, <1>4, <1>6, <1>7
  <2> HIDE DEF b, e, l
  <2>2. p - b \in 1 .. l /\ b + (p - b) = p BY <2>1
  <2> QED BY <2>2 DEF b, l
<1> HIDE DEF d
<1>9. TextOf(said)[p] = Text(said[m])[d]
  <2>1. TextOf(said)[Start(said, m) + d] = Text(said[m])[d] BY <1>8 DEF Base, Laid
  <2> QED BY <1>8, <2>1
<1>10. Text(said[m])[d].of = said[m] BY <1>5, <1>8, TextType
<1>11. said[m] = said[j] BY <1>2, <1>3, <1>9, <1>10
<1>12. m \in DOMAIN said BY <1>1, LenProperties
<1>13. m = j BY <1>11, <1>12 DEF Base, Once
<1> QED BY <1>3, <1>4, <1>6, <1>13

(* Each message that was said behind a whole line is a line of its own in   *)
(* gateway.log: whatever the threads, the buffers and the ends of the       *)
(* gateway do to it (main.c:182-209, sensor_db.c:45,92,145,153,179).        *)
THEOREM LinesAreWhole == Spec => []LinesWhole
<1>1. ASSUME Base PROVE LinesWhole
  <2>1. TypeOK BY <1>1, TypedImpliesTypeOK DEF Base
  <2>2. ASSUME NEW j \in DOMAIN said, HasNewline(said[j].kind),
               j > 1 => HasNewline(said[j - 1].kind),
               NEW i \in DOMAIN file, NEW k \in DOMAIN file[i], file[i][k].of = said[j]
        PROVE  Text(said[j]) \in Range(file)
    <3>1. Fresh(j) BY <2>2 DEF Fresh
    <3>2. Start(said, j) < Done BY <1>1, <2>2, InFile
    <3> QED BY <1>1, <3>1, <3>2 DEF Base, Lines
  <2> QED BY <2>1, <2>2 DEF LinesWhole
<1> QED BY <1>1, Invariant, PTL

(* What the log process writes is what the threads say, in the order in     *)
(* which they say it, nothing missing, doubled or torn apart: LogFifo       *)
(* implements EventLog.                                                     *)
THEOREM LogIsOrdered == Spec => ImplementsLog
<1>1. Init => E!Init
  <2>1. FlattenSeq(<<>>) = <<>> BY EmptySeq DEF FlattenSeq
  <2> QED BY <2>1 DEF Init, E!Init
<1>2. ASSUME Base, [Next]_vars PROVE [E!Next]_<<said, FlattenSeq(file)>>
  <2>1. ASSUME NEW t \in Thread, Fputs(t) PROVE E!Say
    <3>1. Current(t) \in Message BY <1>2, <2>1, FputsStep
    <3>2. said' = Append(said, Current(t)) /\ file' = file BY <2>1 DEF Fputs, logvars
    <3>3. FlattenSeq(file)' = FlattenSeq(file) BY <3>2
    <3> QED BY <3>1, <3>2, <3>3 DEF E!Say
  <2>2. ASSUME Record PROVE E!Write
    <3> DEFINE f == FlattenSeq(file)
               g == f \o line
               n == Len(g)
    <3>1. FlattenSeq(file') = g /\ line # <<>> /\ said' = said BY <1>2, <2>2, RecordStep
    <3>2. f \in Seq(Piece) /\ line \in Seq(Piece) BY <1>2, FileInFront DEF Base, Typed
    <3>3. n = Len(f) + Len(line) BY <3>2, ConcatProperties
    <3>4. Len(f) \in Nat /\ Len(line) \in Nat \ {0} BY <3>1, <3>2, LenProperties, EmptySeq
    <3>5. g = SubSeq(TextOf(said), 1, n) /\ n <= Len(TextOf(said)) BY <1>2, FileInFront
    <3>6. E!TextOf(said) = TextOf(said)
      BY DEF E!TextOf, TextOf, E!FlattenSeq, FlattenSeq
    <3>7. Len(TextOf(said)) \in Nat BY <1>2, Parts, LenProperties
    <3> HIDE DEF g, n
    <3>8. n \in Len(f) + 1 .. Len(E!TextOf(said)) BY <3>3, <3>4, <3>5, <3>6, <3>7
    <3>9. FlattenSeq(file)' = SubSeq(E!TextOf(said), 1, n) BY <3>1, <3>5, <3>6
    <3> QED BY <3>1, <3>8, <3>9 DEF E!Write
  <2>3. ASSUME UNCHANGED <<said, file>> PROVE UNCHANGED <<said, FlattenSeq(file)>> BY <2>3
  <2>4. \/ \E t \in Thread : Fputs(t)
        \/ Record
        \/ UNCHANGED <<said, file>>
    <3>1. CASE Main BY <1>2, <3>1, StartSteps, EndSteps DEF Main
    <3>2. CASE MainEnd \/ Abort BY <1>2, <3>2, EndSteps
    <3>3. CASE LogCreate \/ LogFail BY <1>2, <3>3, LogSteps
    <3>4. CASE Fill \/ GetLine \/ EndOfFile
      BY <3>4 DEF Fill, GetLine, EndOfFile, startup
    <3>5. CASE \E t \in Thread : LogToFifo(t) \/ \E kind \in Kind : Call(t, kind)
      BY <3>5 DEF LogToFifo, Fflush, Write, Call, logvars
    <3>6. CASE \E p \in Thread \cup {"main"} : Exit(p) BY <3>6 DEF Exit, logvars
    <3>7. CASE UNCHANGED vars BY <3>7 DEF vars
    <3> QED BY <1>2, <3>1, <3>2, <3>3, <3>4, <3>5, <3>6, <3>7 DEF Next, LogProcess
  <2> QED BY <2>1, <2>2, <2>3, <2>4 DEF E!Next
<1> QED BY <1>1, <1>2, Invariant, PTL DEF Spec, ImplementsLog, E!Spec
==============================================================================

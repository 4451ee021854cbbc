---------------------------- MODULE Gateway_proofs ----------------------------
(****************************************************************************)
(* Theorems about Gateway, for every set of readings and every TIMEOUT.     *)
(****************************************************************************)
EXTENDS Gateway, SequenceTheorems, TLAPS

(* The threads, buffers and the input of each consumer, spelled out. *)
LEMMA ThreadFacts ==
  /\ Consumer \subseteq Thread
  /\ "connmgr" \in Thread /\ "connmgr" \notin Consumer
  /\ "datamgr" \in Consumer /\ "storagemgr" \in Consumer
  /\ \A c \in Consumer : c = "datamgr" \/ c = "storagemgr"
  /\ "fir_buffer" \in Buffer /\ "sec_buffer" \in Buffer
  /\ Input["datamgr"] = "fir_buffer" /\ Input["storagemgr"] = "sec_buffer"
  /\ \A c \in Consumer : Input[c] \in Buffer
BY DEF Consumer, Thread, Buffer, Input

(* Moving the oldest element of a sequence to a place of its own, and       *)
(* appending it further up the line, leaves the whole line as it is.        *)
LEMMA SplitHead ==
  ASSUME NEW T, NEW s \in Seq(T), s # <<>>
  PROVE  /\ Head(s) \in T /\ Tail(s) \in Seq(T)
         /\ s = <<Head(s)>> \o Tail(s)
<1>1. /\ Head(s) \in T /\ Tail(s) \in Seq(T) /\ Len(Tail(s)) = Len(s) - 1
      /\ \A i \in 1 .. Len(Tail(s)) : Tail(s)[i] = s[i + 1]
  BY HeadTailProperties
<1>2. Len(<<Head(s)>>) = 1 /\ <<Head(s)>>[1] = s[1] /\ <<Head(s)>> \in Seq(T)
  BY <1>1
<1>3. /\ <<Head(s)>> \o Tail(s) \in Seq(T)
      /\ Len(<<Head(s)>> \o Tail(s)) = Len(s)
      /\ \A i \in 1 .. Len(s) : (<<Head(s)>> \o Tail(s))[i] = s[i]
  <2>1. /\ <<Head(s)>> \o Tail(s) \in Seq(T)
        /\ Len(<<Head(s)>> \o Tail(s)) = 1 + Len(Tail(s))
        /\ \A i \in 1 .. 1 + Len(Tail(s)) :
             (<<Head(s)>> \o Tail(s))[i] = IF i <= 1 THEN <<Head(s)>>[1] ELSE Tail(s)[i - 1]
    BY <1>1, <1>2, ConcatProperties
  <2> QED BY <2>1, <1>1, <1>2
<1> QED BY <1>1, <1>3, SeqEqual

LEMMA AppendMiddle ==
  ASSUME NEW T, NEW s \in Seq(T), NEW t \in Seq(T), NEW e \in T
  PROVE  s \o Append(t, e) = Append(s \o t, e)
<1>1. Append(t, e) = t \o <<e>> /\ <<e>> \in Seq(T) BY AppendIsConcat
<1>2. s \o t \in Seq(T) BY ConcatProperties
<1>3. Append(s \o t, e) = (s \o t) \o <<e>> BY <1>2, AppendIsConcat
<1> QED BY <1>1, <1>3, ConcatAssociative

------------------------------------------------------------------------------
(* What the types alone do not say: where a thread stands tells what it has *)
(* in hand and what it knows of its buffer.                                 *)
Flow ==
  \A c \in Consumer :
    /\ IF pc[c] = "use" THEN \E r \in Reading : hand[c] = <<r>> ELSE hand[c] = <<>>
    /\ pc[c] = "take" => buf[Input[c]] # <<>>

TypeInv == TypeOK /\ Flow

LEMMA TypeInit == Init => TypeInv
<1> SUFFICES ASSUME Init PROVE TypeOK /\ Flow BY DEF TypeInv
<1>1. TypeOK BY GatewayAssumption DEF Init, TypeOK, Thread, Consumer
<1>2. Flow BY ThreadFacts DEF Init, Flow
<1> QED BY <1>1, <1>2

(* sbuffer_insert changes one buffer, by one reading at its end. *)
LEMMA InsertEffect ==
  ASSUME TypeOK, NEW b \in Buffer, NEW r \in Reading, Insert(b, r)
  PROVE  /\ buf' \in [Buffer -> Seq(Reading)]
         /\ silence' \in [Buffer -> 0 .. TIMEOUT]
         /\ gap' \in [Buffer -> BOOLEAN]
         /\ buf'[b] = Append(buf[b], r) /\ buf'[b] # <<>>
         /\ \A d \in Buffer \ {b} : buf'[d] = buf[d]
<1> USE GatewayAssumption DEF TypeOK, Insert
<1>1. Append(buf[b], r) \in Seq(Reading) /\ Append(buf[b], r) # <<>>
  BY AppendProperties
<1>2. gap' \in [Buffer -> BOOLEAN]
  <2> DEFINE new == gap[b] \/ silence[b] >= TIMEOUT
  <2>1. new \in BOOLEAN OBVIOUS
  <2>2. gap' = [gap EXCEPT ![b] = new] OBVIOUS
  <2> HIDE DEF new
  <2> QED BY <2>1, <2>2, Zenon
<1> QED BY <1>1, <1>2

LEMMA InsertKeeps ==
  ASSUME TypeOK, NEW b \in Buffer, NEW r \in Reading, Insert(b, r)
  PROVE  /\ buf' \in [Buffer -> Seq(Reading)] /\ silence' \in [Buffer -> 0 .. TIMEOUT]
         /\ gap' \in [Buffer -> BOOLEAN]
         /\ \A d \in Buffer : buf[d] # <<>> => buf'[d] # <<>>
BY InsertEffect

LEMMA TypeNext == TypeInv /\ [Next]_vars => TypeInv'
<1> SUFFICES ASSUME TypeInv, [Next]_vars PROVE TypeInv' OBVIOUS
<1> USE GatewayAssumption, ThreadFacts DEF TypeInv, TypeOK, Flow, Running, Goto
<1>1. CASE Listen BY <1>1 DEF Listen
<1>2. CASE Accept BY <1>2 DEF Accept
<1>3. CASE Readable BY <1>3 DEF Readable
<1>4. ASSUME NEW r \in Reading, Receive(r) PROVE TypeInv'
  <2>1. /\ buf' \in [Buffer -> Seq(Reading)] /\ silence' \in [Buffer -> 0 .. TIMEOUT]
        /\ gap' \in [Buffer -> BOOLEAN]
        /\ \A b \in Buffer : buf[b] # <<>> => buf'[b] # <<>>
    <3>1. Insert("fir_buffer", r) BY <1>4 DEF Receive
    <3> HIDE DEF TypeInv, TypeOK, Flow
    <3>2. TypeOK BY DEF TypeInv
    <3> QED BY <3>1, <3>2, InsertKeeps
  <2>2. Append(received, r) \in Seq(Reading) BY AppendProperties
  <2>3. TypeOK'
    <3>1. pc' = [pc EXCEPT !["connmgr"] = "poll"] /\ waited' = [waited EXCEPT !["connmgr"] = 0]
      BY <1>4 DEF Receive
    <3>2. /\ pc' \in [Thread -> {"start", "poll", "recv", "enter", "sleep", "check", "take", "use",
                                "match", "done"}]
          /\ waited' \in [Thread -> 0 .. TIMEOUT]
      BY <3>1
    <3>3. UNCHANGED <<join, status, hand, matched, stored, events>>
          /\ received' = Append(received, r)
      BY <1>4 DEF Receive
    <3> QED BY <2>1, <2>2, <3>2, <3>3
  <2>4. /\ \A c \in Consumer : pc'[c] = pc[c] /\ hand'[c] = hand[c]
        /\ \A c \in Consumer : buf[Input[c]] # <<>> => buf'[Input[c]] # <<>>
    BY <1>4, <2>1 DEF Receive
  <2>5. Flow' BY <2>4
  <2> QED BY <2>3, <2>5
<1>5. CASE ReceiveNothing BY <1>5 DEF ReceiveNothing
<1>6. CASE PollTimeout BY <1>6 DEF PollTimeout
<1>7. ASSUME NEW c \in Consumer, Ready(c) PROVE TypeInv' BY <1>7 DEF Ready
<1>8. ASSUME NEW c \in Consumer, Enter(c) PROVE TypeInv' BY <1>8 DEF Enter
<1>9. ASSUME NEW c \in Consumer, Poll(c) PROVE TypeInv' BY <1>9 DEF Poll
<1>10. ASSUME NEW c \in Consumer, Check(c) PROVE TypeInv' BY <1>10 DEF Check
<1>11. ASSUME NEW c \in Consumer, Take(c) PROVE TypeInv'
  <2>1. pc[c] = "take" /\ buf[Input[c]] # <<>> /\ hand[c] = <<>> BY <1>11 DEF Take
  <2>2. Head(buf[Input[c]]) \in Reading /\ Tail(buf[Input[c]]) \in Seq(Reading)
    BY <2>1, SplitHead
  <2>3. /\ hand' \in [Consumer -> Seq(Reading)] /\ hand'[c] = <<Head(buf[Input[c]])>>
        /\ \A d \in Consumer \ {c} : hand'[d] = hand[d]
    BY <1>11, <2>2 DEF Take
  <2>4. /\ buf' \in [Buffer -> Seq(Reading)]
        /\ \A d \in Consumer \ {c} : buf'[Input[d]] = buf[Input[d]]
    BY <1>11, <2>2 DEF Take
  <2>5. TypeOK' BY <1>11, <2>3, <2>4 DEF Take
  <2>6. pc'[c] = "use" /\ \A d \in Consumer \ {c} : pc'[d] = pc[d] BY <1>11 DEF Take
  <2>7. Flow'
    <3> SUFFICES ASSUME NEW d \in Consumer
                 PROVE /\ IF pc'[d] = "use" THEN \E r \in Reading : hand'[d] = <<r>>
                                            ELSE hand'[d] = <<>>
                       /\ pc'[d] = "take" => buf'[Input[d]] # <<>>
      OBVIOUS
    <3>1. CASE d = c BY <3>1, <2>2, <2>3, <2>6
    <3>2. CASE d # c
      <4>1. hand'[d] = hand[d] /\ pc'[d] = pc[d] /\ buf'[Input[d]] = buf[Input[d]]
        BY <3>2, <2>3, <2>4, <2>6
      <4>2. /\ IF pc[d] = "use" THEN \E r \in Reading : hand[d] = <<r>> ELSE hand[d] = <<>>
            /\ pc[d] = "take" => buf[Input[d]] # <<>>
        OBVIOUS
      <4> HIDE DEF TypeInv, TypeOK, Flow
      <4> QED BY <4>1, <4>2
    <3> QED BY <3>1, <3>2
  <2> QED BY <2>5, <2>7
<1>12. CASE Forward
  <2>1. PICK r \in Reading : hand["datamgr"] = <<r>> BY <1>12 DEF Forward
  <2>2. Insert("sec_buffer", r) BY <1>12, <2>1 DEF Forward
  <2>3. /\ buf' \in [Buffer -> Seq(Reading)] /\ silence' \in [Buffer -> 0 .. TIMEOUT]
        /\ gap' \in [Buffer -> BOOLEAN]
        /\ \A b \in Buffer : buf[b] # <<>> => buf'[b] # <<>>
    BY <2>2, InsertKeeps
  <2>4. /\ hand' \in [Consumer -> Seq(Reading)] /\ hand'["datamgr"] = <<>>
        /\ hand'["storagemgr"] = hand["storagemgr"]
    BY <1>12 DEF Forward
  <2> QED BY <1>12, <2>3, <2>4 DEF Forward
<1>13. CASE Match BY <1>13 DEF Match
<1>14. CASE Store BY <1>14 DEF Store
<1>15. CASE MainJoin
  <2>1. \A t \in Thread : NextJoin[t] \in Thread \cup {"none"} BY DEF NextJoin, Thread, Consumer
  <2> QED BY <1>15, <2>1 DEF MainJoin
<1>16. CASE MainEnd BY <1>16 DEF MainEnd
<1>17. ASSUME NEW t \in Thread, Fail(t) PROVE TypeInv' BY <1>17 DEF Fail
<1>18. CASE Tick
  <2>1. \A n \in 0 .. TIMEOUT : Later(n) \in 0 .. TIMEOUT BY DEF Later
  <2>2. waited' \in [Thread -> 0 .. TIMEOUT] /\ silence' \in [Buffer -> 0 .. TIMEOUT]
    BY <1>18, <2>1 DEF Tick
  <2>3. pc' = [t \in Thread |-> IF pc[t] = "sleep" THEN "poll" ELSE pc[t]] BY <1>18 DEF Tick
  <2>4. \A c \in Consumer : pc'[c] \in {"take", "use"} \/ pc[c] \in {"take", "use"} => pc'[c] = pc[c]
    BY <2>3
  <2>5. UNCHANGED <<join, status, buf, hand, matched, stored, received, gap, events>>
    BY <1>18 DEF Tick
  <2>6. TypeOK' BY <2>2, <2>3, <2>5
  <2>7. Flow' BY <2>4, <2>5
  <2> QED BY <2>6, <2>7
<1>19. CASE UNCHANGED vars BY <1>19 DEF vars
<1> QED BY <1>1, <1>2, <1>3, <1>4, <1>5, <1>6, <1>7, <1>8, <1>9, <1>10, <1>11, <1>12, <1>13,
           <1>14, <1>15, <1>16, <1>17, <1>18, <1>19
        DEF Next, Connmgr, Sensors, Datamgr, Storagemgr, Remove, Main

(* Type correctness: in every reachable state the variables have the types  *)
(* of TypeOK; a consumer holds a reading exactly between sbuffer_remove_    *)
(* block and handing it over, and its buffer is not empty once it has       *)
(* decided to remove.                                                       *)
THEOREM TypeCorrect == Spec => []TypeInv
BY TypeInit, TypeNext, PTL DEF Spec

(* The part of it the runs check: program counters, clocks, buffers, hands  *)
(* and records of what has happened have their types.                       *)
THEOREM WellTyped == Spec => []TypeOK
<1>1. TypeInv => TypeOK BY DEF TypeInv
<1> QED BY <1>1, TypeCorrect, PTL

------------------------------------------------------------------------------
(* Conservation is inductive by itself once Flow is known: each step either *)
(* appends at the end of the line or moves the oldest reading of one part   *)
(* to the end of the part before it.                                        *)
LEMMA Shift ==
  ASSUME NEW T, NEW x \in Seq(T), NEW s \in Seq(T), s # <<>>
  PROVE  (x \o <<>>) \o s = (x \o <<Head(s)>>) \o Tail(s)
<1>1. Head(s) \in T /\ Tail(s) \in Seq(T) /\ s = <<Head(s)>> \o Tail(s) BY SplitHead
<1>2. <<Head(s)>> \in Seq(T) BY <1>1
<1>3. (x \o <<Head(s)>>) \o Tail(s) = x \o (<<Head(s)>> \o Tail(s))
  BY <1>1, <1>2, ConcatAssociative
<1> QED BY <1>1, <1>3, ConcatEmptySeq

LEMMA ConservationInit == Init => Conservation
<1> SUFFICES ASSUME Init PROVE Conservation OBVIOUS
<1>1. /\ received = <<>> /\ stored = <<>>
      /\ hand["storagemgr"] = <<>> /\ buf["sec_buffer"] = <<>>
      /\ hand["datamgr"] = <<>> /\ buf["fir_buffer"] = <<>>
  BY ThreadFacts DEF Init
<1>2. <<>> \in Seq(Reading) /\ <<>> \o <<>> = <<>> BY ConcatEmptySeq
<1> QED BY <1>1, <1>2 DEF Conservation

LEMMA ConservationNext == TypeInv /\ Conservation /\ [Next]_vars => Conservation'
<1> SUFFICES ASSUME TypeInv, Conservation, [Next]_vars PROVE Conservation' OBVIOUS
<1> DEFINE hs == hand["storagemgr"]   bs == buf["sec_buffer"]
           hd == hand["datamgr"]      bf == buf["fir_buffer"]
<1> USE ThreadFacts
<1>types. /\ received \in Seq(Reading) /\ stored \in Seq(Reading)
          /\ hs \in Seq(Reading) /\ bs \in Seq(Reading)
          /\ hd \in Seq(Reading) /\ bf \in Seq(Reading)
          /\ hand \in [Consumer -> Seq(Reading)] /\ buf \in [Buffer -> Seq(Reading)]
  BY DEF TypeInv, TypeOK
<1>prefixes. /\ stored \o hs \in Seq(Reading) /\ stored \o hs \o bs \in Seq(Reading)
             /\ stored \o hs \o bs \o hd \in Seq(Reading)
  BY <1>types, ConcatProperties
<1>line. received = stored \o hs \o bs \o hd \o bf BY DEF Conservation
<1>1. ASSUME NEW r \in Reading, Receive(r) PROVE Conservation'
  <2>1. /\ received' = Append(received, r) /\ bf' = Append(bf, r)
        /\ stored' = stored /\ hs' = hs /\ bs' = bs /\ hd' = hd
    BY <1>1, <1>types DEF Receive, Insert
  <2>2. stored \o hs \o bs \o hd \o Append(bf, r) = Append(received, r)
    BY <1>types, <1>prefixes, <1>line, AppendMiddle
  <2> QED BY <2>1, <2>2 DEF Conservation
<1>2. CASE Take("datamgr")
  <2>1. bf # <<>> /\ hd = <<>> BY <1>2 DEF Take, Running, TypeInv, Flow
  <2>2. /\ hd' = <<Head(bf)>> /\ bf' = Tail(bf)
        /\ received' = received /\ stored' = stored /\ hs' = hs /\ bs' = bs
    BY <1>2, <1>types DEF Take
  <2>3. (stored \o hs \o bs \o <<>>) \o bf = (stored \o hs \o bs \o <<Head(bf)>>) \o Tail(bf)
    BY <2>1, <1>types, <1>prefixes, Shift
  <2> QED BY <2>1, <2>2, <2>3, <1>line DEF Conservation
<1>3. CASE Take("storagemgr")
  <2>1. bs # <<>> /\ hs = <<>> BY <1>3 DEF Take, Running, TypeInv, Flow
  <2>2. /\ hs' = <<Head(bs)>> /\ bs' = Tail(bs)
        /\ received' = received /\ stored' = stored /\ hd' = hd /\ bf' = bf
    BY <1>3, <1>types DEF Take
  <2>3. (stored \o <<>>) \o bs = (stored \o <<Head(bs)>>) \o Tail(bs)
    BY <2>1, <1>types, Shift
  <2> QED BY <2>1, <2>2, <2>3, <1>line DEF Conservation
<1>4. CASE Forward
  <2>1. PICK r \in Reading : hd = <<r>> BY <1>4 DEF Forward, Running, TypeInv, Flow
  <2>2. /\ hd' = <<>> /\ bs' = Append(bs, r)
        /\ received' = received /\ stored' = stored /\ hs' = hs /\ bf' = bf
    BY <1>4, <1>types, <2>1 DEF Forward, Insert
  <2>3. Append(bs, r) = bs \o <<r>> /\ <<r>> \in Seq(Reading) /\ Append(bs, r) \in Seq(Reading)
    BY <1>types, AppendIsConcat, AppendProperties
  <2>4. stored \o hs \o Append(bs, r) = stored \o hs \o bs \o <<r>>
    BY <2>3, <1>types, <1>prefixes, ConcatAssociative
  <2>5. stored \o hs \o Append(bs, r) \o <<>> = stored \o hs \o Append(bs, r)
    BY <2>3, <1>prefixes, ConcatProperties, ConcatEmptySeq
  <2> QED BY <2>1, <2>2, <2>4, <2>5, <1>line DEF Conservation
<1>5. CASE Store
  <2>1. /\ stored' = stored \o hs /\ hs' = <<>>
        /\ received' = received /\ bs' = bs /\ hd' = hd /\ bf' = bf
    BY <1>5, <1>types DEF Store
  <2>2. stored \o hs \o <<>> = stored \o hs BY <1>prefixes, ConcatEmptySeq
  <2> QED BY <2>1, <2>2, <1>line DEF Conservation
<1>6. ASSUME UNCHANGED <<buf, hand, stored, received>> PROVE Conservation'
  BY <1>6 DEF Conservation
<1>7. ASSUME NEW c \in Consumer, Ready(c) \/ Enter(c) \/ Poll(c) \/ Check(c)
      PROVE UNCHANGED <<buf, hand, stored, received>>
  BY <1>7 DEF Ready, Enter, Poll, Check
<1>8. ASSUME Listen \/ PollTimeout \/ Accept \/ Readable \/ ReceiveNothing \/ Match
             \/ MainJoin \/ MainEnd \/ Tick \/ (\E t \in Thread : Fail(t)) \/ UNCHANGED vars
      PROVE UNCHANGED <<buf, hand, stored, received>>
  BY <1>8 DEF Listen, PollTimeout, Accept, Readable, ReceiveNothing, Match, MainJoin, MainEnd,
              Tick, Fail, vars
<1> QED BY <1>1, <1>2, <1>3, <1>4, <1>5, <1>6, <1>7, <1>8
        DEF Next, Connmgr, Sensors, Datamgr, Storagemgr, Remove, Main

(* Every reading received is stored, in hand or in a buffer, once, and in   *)
(* the order of reception, in every reachable state.                        *)
THEOREM ConservationHolds == Spec => []Conservation
<1>1. Init => TypeInv /\ Conservation BY TypeInit, ConservationInit
<1>2. TypeInv /\ Conservation /\ [Next]_vars => (TypeInv /\ Conservation)'
  BY TypeNext, ConservationNext
<1> QED BY <1>1, <1>2, PTL DEF Spec

------------------------------------------------------------------------------
(* The gateway implements the abstract store. *)
LEMMA StoreInit == Init => S!Init
BY DEF Init, S!Init

LEMMA NextElement ==
  ASSUME NEW T, NEW s \in Seq(T), NEW r \in T, NEW rest \in Seq(T)
  PROVE  LET whole == Append(s, r) \o rest
         IN  Len(s) < Len(whole) /\ whole[Len(s) + 1] = r
<1>1. /\ Append(s, r) \in Seq(T) /\ Len(Append(s, r)) = Len(s) + 1
      /\ Append(s, r)[Len(s) + 1] = r
  BY AppendProperties
<1>2. /\ Len(Append(s, r) \o rest) = Len(Append(s, r)) + Len(rest)
      /\ \A i \in 1 .. Len(Append(s, r)) + Len(rest) :
           (Append(s, r) \o rest)[i] = IF i <= Len(Append(s, r))
              THEN Append(s, r)[i] ELSE rest[i - Len(Append(s, r))]
  BY <1>1, ConcatProperties
<1>3. Len(s) \in Nat /\ Len(rest) \in Nat OBVIOUS
<1> QED BY <1>1, <1>2, <1>3

LEMMA StoreNext ==
  TypeInv /\ Conservation /\ [Next]_vars => [S!Next]_<<received, stored>>
<1> SUFFICES ASSUME TypeInv, Conservation, [Next]_vars
             PROVE  S!Next \/ UNCHANGED <<received, stored>>
  OBVIOUS
<1> USE ThreadFacts
<1>1. ASSUME NEW r \in Reading, Receive(r) PROVE S!Receive
  BY <1>1 DEF Receive, S!Receive
<1>2. CASE Store
  <2> DEFINE h == hand["storagemgr"]
  <2>1. PICK r \in Reading : h = <<r>> BY <1>2 DEF Store, Running, TypeInv, Flow
  <2>2. /\ stored \in Seq(Reading) /\ received \in Seq(Reading) /\ h \in Seq(Reading)
        /\ buf["sec_buffer"] \in Seq(Reading) /\ hand["datamgr"] \in Seq(Reading)
        /\ buf["fir_buffer"] \in Seq(Reading)
    BY DEF TypeInv, TypeOK
  <2>3. Append(stored, r) = stored \o h /\ stored \o h \in Seq(Reading)
    <3>1. Append(stored, r) = stored \o <<r>> BY <2>2, AppendIsConcat
    <3>2. stored \o h \in Seq(Reading) BY <2>2, ConcatProperties
    <3> QED BY <2>1, <3>1, <3>2
  <2>4. PICK rest \in Seq(Reading) : received = Append(stored, r) \o rest
    <3> DEFINE a == stored \o h
    <3>1. a \in Seq(Reading) BY <2>3
    <3> DEFINE b == buf["sec_buffer"]   d == hand["datamgr"]   f == buf["fir_buffer"]
    <3>2. b \in Seq(Reading) /\ d \in Seq(Reading) /\ f \in Seq(Reading) BY <2>2
    <3>3. received = ((a \o b) \o d) \o f BY DEF Conservation, a
    <3> HIDE DEF a, b, d, f
    <3>4. b \o d \in Seq(Reading) /\ (a \o b) \o d = a \o (b \o d)
      BY <3>1, <3>2, ConcatProperties, ConcatAssociative
    <3>5. (b \o d) \o f \in Seq(Reading) /\ (a \o (b \o d)) \o f = a \o ((b \o d) \o f)
      BY <3>1, <3>2, <3>4, ConcatProperties, ConcatAssociative
    <3> QED BY <2>3, <3>3, <3>4, <3>5 DEF a
  <2>5. Len(stored) < Len(received) /\ received[Len(stored) + 1] = r
    BY <2>2, <2>4, NextElement
  <2>6. stored' = Append(stored, received[Len(stored) + 1]) /\ received' = received
    BY <1>2, <2>3, <2>5 DEF Store
  <2> QED BY <2>5, <2>6 DEF S!Next, S!Store
<1>3. ASSUME NEW c \in Consumer, Remove(c) PROVE UNCHANGED <<received, stored>>
  BY <1>3 DEF Remove, Ready, Enter, Poll, Check, Take
<1>4. ASSUME Listen \/ PollTimeout \/ Accept \/ Readable \/ ReceiveNothing \/ Forward \/ Match
             \/ MainJoin \/ MainEnd \/ Tick \/ (\E t \in Thread : Fail(t)) \/ UNCHANGED vars
      PROVE UNCHANGED <<received, stored>>
  BY <1>4 DEF Listen, PollTimeout, Accept, Readable, ReceiveNothing, Forward, Match, MainJoin,
              MainEnd, Tick, Fail, vars
<1> QED BY <1>1, <1>2, <1>3, <1>4
        DEF Next, Connmgr, Sensors, Datamgr, Storagemgr, Main, S!Next

(* The gateway implements SensorStore: the database receives the readings   *)
(* one by one, in the order of reception, none skipped and none repeated.   *)
THEOREM Refinement == Spec => ImplementsStore
<1>1. Init => TypeInv /\ Conservation BY TypeInit, ConservationInit
<1>2. TypeInv /\ Conservation /\ [Next]_vars => (TypeInv /\ Conservation)'
  BY TypeNext, ConservationNext
<1>3. Init => S!Init BY StoreInit
<1>4. TypeInv /\ Conservation /\ [Next]_vars => [S!Next]_<<received, stored>> BY StoreNext
<1> QED BY <1>1, <1>2, <1>3, <1>4, PTL DEF Spec, ImplementsStore, S!Spec

------------------------------------------------------------------------------
(* What a consumer knows while it waits: either a reading has come in the   *)
(* meantime, or its own clock shows no more than the silence there has      *)
(* really been.  And what remains true of it after it has ended.            *)
Clocks ==
  \A c \in Consumer :
    /\ pc[c] \in {"sleep", "poll", "check"}
         => buf[Input[c]] # <<>> \/ waited[c] <= silence[Input[c]]
    /\ pc[c] = "done" => IF buf[Input[c]] = <<>> THEN silence[Input[c]] >= TIMEOUT
                                                ELSE gap[Input[c]]

LEMMA ClocksInit == Init => Clocks
BY ThreadFacts DEF Init, Clocks

(* An insertion into b is a step that cannot harm what Clocks says of c.    *)
LEMMA ClocksInsert ==
  ASSUME TypeInv, Clocks, NEW b \in Buffer, NEW r \in Reading, Insert(b, r),
         waited' \in [Thread -> 0 .. TIMEOUT],
         \A c \in Consumer : waited'[c] = waited[c],
         \A c \in Consumer : pc'[c] = pc[c] \/ pc'[c] = "match"
  PROVE  Clocks'
<1> SUFFICES ASSUME NEW c \in Consumer
             PROVE  /\ pc'[c] \in {"sleep", "poll", "check"}
                          => buf'[Input[c]] # <<>> \/ waited'[c] <= silence'[Input[c]]
                    /\ pc'[c] = "done" => IF buf'[Input[c]] = <<>>
                          THEN silence'[Input[c]] >= TIMEOUT ELSE gap'[Input[c]]
  BY DEF Clocks
<1> DEFINE d == Input[c]
<1>0. d \in Buffer /\ c \in Thread BY ThreadFacts
<1>1. TypeOK BY DEF TypeInv
<1>2. CASE d = b
  <2>1. buf'[b] # <<>> BY <1>1, InsertEffect
  <2>2. ASSUME pc[c] = "done" PROVE gap'[b]
    <3>1. IF buf[b] = <<>> THEN silence[b] >= TIMEOUT ELSE gap[b] BY <1>2, <2>2 DEF Clocks
    <3>2. gap'[b] = (gap[b] \/ silence[b] >= TIMEOUT) BY <1>1 DEF Insert, TypeOK
    <3> QED BY <3>1, <3>2
  <2> QED BY <1>2, <2>1, <2>2
<1>3. CASE d # b
  <2>1. buf'[d] = buf[d] /\ silence'[d] = silence[d] /\ gap'[d] = gap[d]
    BY <1>0, <1>1, <1>3 DEF Insert, TypeOK
  <2> QED BY <1>0, <2>1 DEF Clocks
<1> QED BY <1>2, <1>3

LEMMA ClocksNext == TypeInv /\ Clocks /\ [Next]_vars => Clocks'
<1> SUFFICES ASSUME TypeInv, Clocks, [Next]_vars PROVE Clocks' OBVIOUS
<1> USE GatewayAssumption, ThreadFacts
<1>t. TypeOK /\ TypeOK' BY TypeNext DEF TypeInv
<1>1. ASSUME NEW r \in Reading, Receive(r) PROVE Clocks'
  <2>1. Insert("fir_buffer", r) /\ waited' \in [Thread -> 0 .. TIMEOUT]
    BY <1>1, <1>t DEF Receive, TypeOK
  <2>2. \A c \in Consumer : waited'[c] = waited[c] /\ pc'[c] = pc[c]
    BY <1>1, <1>t DEF Receive, Goto, TypeOK
  <2> QED BY <2>1, <2>2, ClocksInsert
<1>2. CASE Forward
  <2>1. PICK r \in Reading : hand["datamgr"] = <<r>>
    BY <1>2 DEF Forward, Running, TypeInv, Flow
  <2>2. Insert("sec_buffer", r) /\ waited' \in [Thread -> 0 .. TIMEOUT]
    BY <1>2, <1>t, <2>1 DEF Forward, TypeOK
  <2>3. \A c \in Consumer : waited'[c] = waited[c] /\ (pc'[c] = pc[c] \/ pc'[c] = "match")
    BY <1>2, <1>t DEF Forward, Goto, TypeOK
  <2> QED BY <2>2, <2>3, ClocksInsert
<1>3. ASSUME NEW c \in Consumer, Ready(c) \/ Enter(c) \/ Poll(c) \/ Check(c) PROVE Clocks'
  <2>1. /\ \A d \in Consumer \ {c} : pc'[d] = pc[d] /\ waited'[d] = waited[d]
        /\ UNCHANGED <<buf, silence, gap>>
    BY <1>3, <1>t DEF Ready, Enter, Poll, Check, Goto, TypeOK
  <2>2. /\ pc'[c] \in {"sleep", "poll", "check"}
             => buf[Input[c]] # <<>> \/ waited'[c] <= silence[Input[c]]
        /\ pc'[c] = "done" => buf[Input[c]] = <<>> /\ silence[Input[c]] >= TIMEOUT
    <3>0. /\ silence[Input[c]] \in 0 .. TIMEOUT /\ waited[c] \in 0 .. TIMEOUT
          /\ c \in Thread
      BY <1>t DEF TypeOK
    <3>1. CASE Ready(c) BY <1>t, <3>1 DEF Ready, Goto, TypeOK
    <3>2. CASE Enter(c)
      <4>1. waited'[c] = 0 /\ pc'[c] \in {"sleep", "take"}
        BY <1>t, <3>2, <3>0 DEF Enter, Goto, TypeOK
      <4>2. silence[Input[c]] >= 0 BY <3>0
      <4> QED BY <4>1, <4>2
    <3>3. CASE Poll(c) BY <1>t, <3>0, <3>3 DEF Poll, Running, Goto, Clocks, TypeOK
    <3>4. CASE Check(c) BY <1>t, <3>0, <3>4 DEF Check, GiveUp, Running, Goto, Clocks, TypeOK
    <3> QED BY <1>3, <3>1, <3>2, <3>3, <3>4
  <2> QED BY <2>1, <2>2 DEF Clocks
<1>4. ASSUME NEW c \in Consumer, Take(c) PROVE Clocks'
  <2>1. /\ pc'[c] = "use" /\ \A d \in Consumer \ {c} : pc'[d] = pc[d]
        /\ \A d \in Consumer \ {c} : buf'[Input[d]] = buf[Input[d]]
        /\ UNCHANGED <<waited, silence, gap>>
    BY <1>4, <1>t DEF Take, Goto, TypeOK
  <2> QED BY <2>1 DEF Clocks
<1>5. CASE Tick
  <2> SUFFICES ASSUME NEW c \in Consumer
               PROVE  /\ pc'[c] \in {"sleep", "poll", "check"}
                            => buf'[Input[c]] # <<>> \/ waited'[c] <= silence'[Input[c]]
                      /\ pc'[c] = "done" => IF buf'[Input[c]] = <<>>
                            THEN silence'[Input[c]] >= TIMEOUT ELSE gap'[Input[c]]
    BY DEF Clocks
  <2>1. /\ waited'[c] = Later(waited[c]) /\ silence'[Input[c]] = Later(silence[Input[c]])
        /\ pc'[c] = (IF pc[c] = "sleep" THEN "poll" ELSE pc[c])
        /\ buf' = buf /\ gap' = gap
        /\ waited[c] \in 0 .. TIMEOUT /\ silence[Input[c]] \in 0 .. TIMEOUT
    BY <1>5, <1>t DEF Tick, TypeOK
  <2>2. Later(silence[Input[c]]) >= silence[Input[c]] BY <2>1 DEF Later
  <2>3. waited[c] <= silence[Input[c]] => Later(waited[c]) <= Later(silence[Input[c]])
    BY <2>1 DEF Later
  <2> QED BY <2>1, <2>2, <2>3 DEF Clocks, Later
<1>6. ASSUME Listen \/ PollTimeout \/ Accept \/ Readable \/ ReceiveNothing \/ Match \/ Store
      PROVE Clocks'
  <2>1. /\ \A c \in Consumer : pc'[c] = pc[c] \/ pc'[c] = "enter"
        /\ \A c \in Consumer : waited'[c] = waited[c]
        /\ UNCHANGED <<buf, silence, gap>>
    BY <1>6, <1>t DEF Listen, PollTimeout, Accept, Readable, ReceiveNothing, Match, Store, Goto,
                      TypeOK
  <2> QED BY <2>1 DEF Clocks
<1>7. ASSUME MainJoin \/ MainEnd \/ (\E t \in Thread : Fail(t)) \/ UNCHANGED vars PROVE Clocks'
  BY <1>7 DEF MainJoin, MainEnd, Fail, vars, Clocks
<1> QED BY <1>1, <1>2, <1>3, <1>4, <1>5, <1>6, <1>7
        DEF Next, Connmgr, Sensors, Datamgr, Storagemgr, Remove, Main

(* Readings are left behind only after a gap of TIMEOUT seconds. *)
THEOREM AbandonedOnlyAfterGap == Spec => []AbandonedAfterGap
<1>1. Init => TypeInv /\ Clocks BY TypeInit, ClocksInit
<1>2. TypeInv /\ Clocks /\ [Next]_vars => (TypeInv /\ Clocks)' BY TypeNext, ClocksNext
<1>3. Clocks => AbandonedAfterGap BY DEF Clocks, AbandonedAfterGap
<1> QED BY <1>1, <1>2, <1>3, PTL DEF Spec

(* A consumer gives up only after TIMEOUT seconds without an insertion.     *)
THEOREM GivingUpTakesSilence == Spec => GivesUpAfterSilence
<1> DEFINE GivingUp(c) == pc[c] # "done" /\ pc'[c] = "done"
           Silent(c)   == buf[Input[c]] = <<>> /\ silence[Input[c]] >= TIMEOUT
<1>1. TypeInv /\ Clocks /\ [Next]_vars
        => [\A c \in Consumer : GivingUp(c) => Silent(c)]_vars
  <2> SUFFICES ASSUME TypeInv, Clocks, Next, NEW c \in Consumer, GivingUp(c) PROVE Silent(c)
    OBVIOUS
  <2> USE GatewayAssumption, ThreadFacts
  <2>t. TypeOK BY DEF TypeInv
  <2>1. CASE Check(c)
    <3>1. GiveUp(c) /\ pc[c] = "check" BY <2>1, <2>t DEF Check, Running, Goto, TypeOK
    <3>2. waited[c] \in 0 .. TIMEOUT /\ silence[Input[c]] \in 0 .. TIMEOUT BY <2>t DEF TypeOK
    <3> QED BY <3>1, <3>2 DEF GiveUp, Clocks
  <2>2. ASSUME NEW d \in Consumer, Ready(d) \/ Enter(d) \/ Poll(d) \/ Take(d) PROVE FALSE
    BY <2>2, <2>t DEF Ready, Enter, Poll, Take, Goto, TypeOK
  <2>3. ASSUME NEW d \in Consumer, Check(d), d # c PROVE FALSE
    BY <2>3, <2>t DEF Check, Goto, TypeOK
  <2>4. ASSUME Listen \/ PollTimeout \/ Accept \/ Readable \/ ReceiveNothing
               \/ (\E r \in Reading : Receive(r)) \/ Forward \/ Match \/ Store
        PROVE FALSE
    BY <2>4, <2>t DEF Listen, PollTimeout, Accept, Readable, ReceiveNothing, Receive, Forward,
                      Match, Store, Goto, TypeOK
  <2>5. ASSUME MainJoin \/ MainEnd \/ Tick \/ (\E t \in Thread : Fail(t)) \/ UNCHANGED vars
        PROVE FALSE
    BY <2>5, <2>t DEF MainJoin, MainEnd, Tick, Fail, vars, TypeOK
  <2> QED BY <2>1, <2>2, <2>3, <2>4, <2>5
          DEF Next, Connmgr, Sensors, Datamgr, Storagemgr, Remove, Main
<1>2. Init => TypeInv /\ Clocks BY TypeInit, ClocksInit
<1>3. TypeInv /\ Clocks /\ [Next]_vars => (TypeInv /\ Clocks)' BY TypeNext, ClocksNext
<1> QED BY <1>1, <1>2, <1>3, PTL DEF Spec, GivesUpAfterSilence

------------------------------------------------------------------------------
(* main joins the threads in the order in which it created them, and the    *)
(* process ends in the regular way only when all three have ended.          *)
Joined ==
  /\ join # "connmgr" => pc["connmgr"] = "done"
  /\ join \notin {"connmgr", "datamgr"} => pc["datamgr"] = "done"
  /\ join = "none" => pc["storagemgr"] = "done"
  /\ status = "ended" => join = "none"

LEMMA JoinedNext == TypeInv /\ Joined /\ [Next]_vars => Joined'
<1> SUFFICES ASSUME TypeInv, Joined, [Next]_vars PROVE Joined' OBVIOUS
<1> USE ThreadFacts
<1>t. TypeOK BY DEF TypeInv
<1>1. CASE MainJoin
  <2>1. join \in Thread /\ join' = NextJoin[join] /\ pc[join] = "done" /\ status = "running"
    BY <1>1, <1>t DEF MainJoin, TypeOK
  <2>2. \/ join = "connmgr" /\ join' = "datamgr"
        \/ join = "datamgr" /\ join' = "storagemgr"
        \/ join = "storagemgr" /\ join' = "none"
    BY <2>1 DEF NextJoin, Thread, Consumer
  <2> QED BY <1>1, <2>1, <2>2 DEF MainJoin, Joined
<1>2. CASE MainEnd BY <1>2 DEF MainEnd, Joined
<1>3. ASSUME NEW t \in Thread, Fail(t) PROVE Joined' BY <1>3 DEF Fail, Joined
<1>4. CASE Tick BY <1>4, <1>t DEF Tick, Joined, TypeOK
<1>5. ASSUME UNCHANGED <<join, status>>, \A t \in Thread : pc[t] = "done" => pc'[t] = "done"
      PROVE Joined'
  BY <1>5 DEF Joined
<1>6. ASSUME NEW c \in Consumer, Remove(c) PROVE Joined'
  <2>1. UNCHANGED <<join, status>> /\ \A t \in Thread : pc[t] = "done" => pc'[t] = "done"
    BY <1>6, <1>t DEF Remove, Ready, Enter, Poll, Check, Take, Running, Goto, TypeOK
  <2> QED BY <1>5, <2>1
<1>7. ASSUME Listen \/ PollTimeout \/ Accept \/ Readable \/ ReceiveNothing
             \/ (\E r \in Reading : Receive(r)) \/ Forward \/ Match \/ Store
      PROVE Joined'
  <2>1. UNCHANGED <<join, status>> /\ \A t \in Thread : pc[t] = "done" => pc'[t] = "done"
    BY <1>7, <1>t DEF Listen, PollTimeout, Accept, Readable, ReceiveNothing, Receive, Forward,
                      Match, Store, Running, Goto, TypeOK
  <2> QED BY <1>5, <2>1
<1>8. CASE UNCHANGED vars BY <1>8 DEF vars, Joined
<1> QED BY <1>1, <1>2, <1>3, <1>4, <1>6, <1>7, <1>8
        DEF Next, Connmgr, Sensors, Datamgr, Storagemgr, Main

(* A process that ends in the regular way without a gap has stored every    *)
(* reading it has received.                                                 *)
THEOREM EndsComplete == Spec => []EndComplete
<1> DEFINE IInv == TypeInv /\ Conservation /\ Clocks /\ Joined
<1>1. Init => IInv
  <2>1. Init => Joined BY ThreadFacts DEF Init, Joined
  <2> QED BY <2>1, TypeInit, ConservationInit, ClocksInit
<1>2. IInv /\ [Next]_vars => IInv'
  BY TypeNext, ConservationNext, ClocksNext, JoinedNext
<1>3. IInv => EndComplete
  <2> SUFFICES ASSUME IInv, status = "ended", \A b \in Buffer : ~gap[b] PROVE stored = received
    BY DEF EndComplete
  <2>1. \A c \in Consumer : pc[c] = "done" BY ThreadFacts DEF Joined
  <2>2. /\ buf["fir_buffer"] = <<>> /\ buf["sec_buffer"] = <<>>
        /\ hand["datamgr"] = <<>> /\ hand["storagemgr"] = <<>>
    BY <2>1, ThreadFacts DEF Clocks, TypeInv, Flow
  <2>3. stored \in Seq(Reading) /\ stored \o <<>> = stored BY ConcatEmptySeq DEF TypeInv, TypeOK
  <2> QED BY <2>2, <2>3 DEF Conservation
<1> HIDE DEF IInv
<1> QED BY <1>1, <1>2, <1>3, PTL DEF Spec

------------------------------------------------------------------------------
(* Everything datamgr has passed on has also been matched, but for the one  *)
(* reading between the two calls.                                           *)
Ahead ==
  Len(stored) + Len(hand["storagemgr"]) + Len(buf["sec_buffer"])
    = matched + IF pc["datamgr"] = "match" THEN 1 ELSE 0

LEMMA AheadNext == TypeInv /\ Ahead /\ [Next]_vars => Ahead'
<1> SUFFICES ASSUME TypeInv, Ahead, [Next]_vars PROVE Ahead' OBVIOUS
<1> DEFINE hs == hand["storagemgr"]   bs == buf["sec_buffer"]   at == pc["datamgr"]
<1> USE ThreadFacts
<1>t. TypeOK BY DEF TypeInv
<1>s. stored \in Seq(Reading) /\ hs \in Seq(Reading) /\ bs \in Seq(Reading)
  BY <1>t DEF TypeOK
<1>n. /\ Len(stored) \in Nat /\ Len(hs) \in Nat /\ Len(bs) \in Nat /\ matched \in Nat
  BY <1>t DEF TypeOK
<1>a. Len(stored) + Len(hs) + Len(bs) = matched + IF at = "match" THEN 1 ELSE 0
  BY DEF Ahead
<1>b. ASSUME Len(stored') + Len(hs') + Len(bs') = matched' + IF at' = "match" THEN 1 ELSE 0
      PROVE  Ahead'
  BY <1>b DEF Ahead
<1>1. ASSUME UNCHANGED <<stored, hs, bs, matched>>, at = "match" <=> at' = "match" PROVE Ahead'
  BY <1>1 DEF Ahead
<1>2. CASE Take("storagemgr")
  <2>1. /\ hs = <<>> /\ bs # <<>> /\ hs' = <<Head(bs)>> /\ bs' = Tail(bs) /\ at' = at
        /\ UNCHANGED <<stored, matched>>
    BY <1>2, <1>t DEF Take, Running, Goto, TypeOK, TypeInv, Flow
  <2>2. /\ Len(hs) = 0 /\ Len(hs') = 1 /\ Len(bs') = Len(bs) - 1 /\ Len(stored') = Len(stored)
    BY <1>s, <2>1, HeadTailProperties
  <2>3. at' = at /\ matched' = matched BY <2>1
  <2> HIDE DEF hs, bs, at
  <2> QED BY <1>n, <1>a, <1>b, <2>2, <2>3
<1>3. CASE Forward
  <2>1. PICK r \in Reading : hand["datamgr"] = <<r>> BY <1>3 DEF Forward, Running, TypeInv, Flow
  <2>2. /\ at = "use" /\ at' = "match" /\ hs' = hs /\ bs' = Append(bs, r)
        /\ UNCHANGED <<stored, matched>>
    BY <1>3, <1>t, <2>1 DEF Forward, Insert, Running, Goto, TypeOK
  <2>3. /\ Len(bs') = Len(bs) + 1 /\ Len(hs') = Len(hs) /\ Len(stored') = Len(stored)
    BY <1>s, <2>2, AppendProperties
  <2>4. at = "use" /\ at' = "match" /\ matched' = matched BY <2>2
  <2> HIDE DEF hs, bs, at
  <2> QED BY <1>n, <1>a, <1>b, <2>3, <2>4
<1>4. CASE Match
  <2>1. /\ at = "match" /\ at' = "enter" /\ matched' = matched + 1
        /\ UNCHANGED <<stored, hs, bs>>
    BY <1>4, <1>t DEF Match, Running, Goto, TypeOK
  <2>2. Len(stored') = Len(stored) /\ Len(hs') = Len(hs) /\ Len(bs') = Len(bs) BY <2>1
  <2>3. at = "match" /\ at' = "enter" /\ matched' = matched + 1 BY <2>1
  <2> HIDE DEF hs, bs, at
  <2> QED BY <1>n, <1>a, <1>b, <2>2, <2>3
<1>5. CASE Store
  <2>1. PICK r \in Reading : hs = <<r>> BY <1>5 DEF Store, Running, TypeInv, Flow
  <2>2. /\ stored' = stored \o hs /\ hs' = <<>> /\ bs' = bs /\ at' = at /\ matched' = matched
    BY <1>5, <1>t DEF Store, Goto, TypeOK
  <2>3. /\ Len(stored') = Len(stored) + Len(hs) /\ Len(hs') = 0 /\ Len(bs') = Len(bs)
    BY <1>s, <2>2, ConcatProperties
  <2>4. at' = at /\ matched' = matched BY <2>2
  <2> HIDE DEF hs, bs, at
  <2> QED BY <1>n, <1>a, <1>b, <2>3, <2>4
<1>6. CASE Take("datamgr")
  <2>1. UNCHANGED <<stored, hs, bs, matched>> /\ at = "take" /\ at' = "use"
    BY <1>6, <1>t DEF Take, Running, Goto, TypeOK
  <2> QED BY <1>1, <2>1
<1>7. ASSUME NEW c \in Consumer, Ready(c) \/ Enter(c) \/ Poll(c) \/ Check(c) PROVE Ahead'
  <2>1. UNCHANGED <<stored, hs, bs, matched>> /\ (at = "match" <=> at' = "match")
    BY <1>7, <1>t DEF Ready, Enter, Poll, Check, Running, Goto, TypeOK
  <2> QED BY <1>1, <2>1
<1>8. ASSUME Listen \/ PollTimeout \/ Accept \/ Readable \/ ReceiveNothing
             \/ (\E r \in Reading : Receive(r))
      PROVE Ahead'
  <2>1. UNCHANGED <<stored, hs, bs, matched, at>>
    BY <1>8, <1>t DEF Listen, PollTimeout, Accept, Readable, ReceiveNothing, Receive, Insert,
                      Goto, TypeOK
  <2> QED BY <1>1, <2>1
<1>9. ASSUME MainJoin \/ MainEnd \/ Tick \/ (\E t \in Thread : Fail(t)) \/ UNCHANGED vars
      PROVE Ahead'
  <2>1. UNCHANGED <<stored, hs, bs, matched>> /\ (at = "match" <=> at' = "match")
    BY <1>9, <1>t DEF MainJoin, MainEnd, Tick, Fail, vars, TypeOK
  <2> QED BY <1>1, <2>1
<1> QED BY <1>2, <1>3, <1>4, <1>5, <1>6, <1>7, <1>8, <1>9
        DEF Next, Connmgr, Sensors, Datamgr, Storagemgr, Remove, Main

(* The database is at most one reading ahead of the temperature control.    *)
THEOREM NeverFarAhead == Spec => []OneAhead
<1>1. Init => TypeInv /\ Ahead
  <2>1. Init => Ahead
    <3> SUFFICES ASSUME Init PROVE Ahead OBVIOUS
    <3>1. /\ Len(stored) = 0 /\ Len(hand["storagemgr"]) = 0 /\ Len(buf["sec_buffer"]) = 0
          /\ matched = 0 /\ pc["datamgr"] # "match"
      BY ThreadFacts DEF Init
    <3>2. (IF pc["datamgr"] = "match" THEN 1 ELSE 0) = 0 BY <3>1
    <3> QED BY <3>1, <3>2 DEF Ahead
  <2> QED BY <2>1, TypeInit
<1>2. TypeInv /\ Ahead /\ [Next]_vars => (TypeInv /\ Ahead)' BY TypeNext, AheadNext
<1>3. TypeInv /\ Ahead => OneAhead
  <2> SUFFICES ASSUME TypeInv, Ahead PROVE OneAhead OBVIOUS
  <2>1. /\ Len(stored) \in Nat /\ Len(hand["storagemgr"]) \in Nat
        /\ Len(buf["sec_buffer"]) \in Nat /\ matched \in Nat
    BY ThreadFacts DEF TypeInv, TypeOK
  <2> DEFINE a == Len(stored)   h == Len(hand["storagemgr"])   b == Len(buf["sec_buffer"])
             n == IF pc["datamgr"] = "match" THEN 1 ELSE 0
  <2>2. a + h + b = matched + n BY DEF Ahead
  <2>3. n = 0 \/ n = 1 OBVIOUS
  <2>4. a \in Nat /\ h \in Nat /\ b \in Nat /\ matched \in Nat BY <2>1
  <2> HIDE DEF a, h, b, n
  <2>5. a <= matched + 1 BY <2>2, <2>3, <2>4
  <2> QED BY <2>5 DEF a, OneAhead
<1> QED BY <1>1, <1>2, <1>3, PTL DEF Spec

==============================================================================

------------------------------- MODULE Gateway -------------------------------
(****************************************************************************)
(* The gateway process: the three threads main.c creates, the two shared    *)
(* buffers between them, and the way they come to an end.                   *)
(*                                                                          *)
(*   sensors -> connmgr -> fir_buffer -> datamgr -> sec_buffer ->           *)
(*                                                  storagemgr -> database  *)
(*                                                                          *)
(* Nothing tells a consumer that its producer has finished: each thread     *)
(* ends by itself when it has seen nothing for TIMEOUT seconds, connmgr in  *)
(* poll(), the other two in sbuffer_remove_block.  So the threads measure   *)
(* the same silence with three different clocks that were started at three  *)
(* different moments.  Time passes in steps of one second; what a clock     *)
(* shows beyond TIMEOUT makes no difference, so the clocks stop there.      *)
(*                                                                          *)
(* The buffers are FIFO queues with atomic operations here: SBuffer shows   *)
(* that sbuffer.c implements that.  Only the two unlocked looks of          *)
(* sbuffer_remove_block remain separate steps.                              *)
(****************************************************************************)
EXTENDS Integers, Sequences

CONSTANTS
  Reading,              \* values of sensor_data_t
  TIMEOUT,              \* seconds
  MaxEvents             \* bound on how often the sensors wake up connmgr

ASSUME GatewayAssumption ==
  /\ TIMEOUT \in Nat
  /\ MaxEvents \in Nat

Consumer == {"datamgr", "storagemgr"}
Thread   == {"connmgr"} \cup Consumer
Buffer   == {"fir_buffer", "sec_buffer"}

(* The buffer a consumer removes from. *)
Input == [datamgr |-> "fir_buffer", storagemgr |-> "sec_buffer"]

VARIABLES
  pc,                   \* where each thread is
  join,                 \* the thread main waits for in pthread_join
  status,               \* of the process: "running", "failed" or "ended"
  buf,                  \* contents of the two buffers
  hand,                 \* *data_ptr of a consumer: removed, not yet passed on
  matched,              \* readings datamgr has run through match_with_sensor_data
  stored,               \* readings insert_sensor has put into the database
  waited,               \* seconds since poll() or since block_time
  \* the rest is not in the program: it is what the properties speak about
  received,             \* readings inserted into fir_buffer so far
  silence,              \* seconds since the last insertion into each buffer
  gap,                  \* a buffer was inserted into after TIMEOUT of silence
  events                \* wakeups of connmgr so far

vars == <<pc, join, status, buf, hand, matched, stored, waited,
          received, silence, gap, events>>

Init ==
  /\ pc = [t \in Thread |-> "start"] /\ join = "connmgr" /\ status = "running"
  /\ buf = [b \in Buffer |-> <<>>] /\ hand = [c \in Consumer |-> <<>>]
  /\ matched = 0 /\ stored = <<>> /\ received = <<>>
  /\ waited = [t \in Thread |-> 0] /\ silence = [b \in Buffer |-> 0]
  /\ gap = [b \in Buffer |-> FALSE] /\ events = 0

Running(t, from) == status = "running" /\ pc[t] = from

Goto(t, to) == pc' = [pc EXCEPT ![t] = to]

(* sbuffer_insert, and the bookkeeping of the silence it ends *)
Insert_InFront(b, r) ==  \* mutant: the new node becomes head
  /\ buf'     = [buf EXCEPT ![b] = <<r>> \o @]
  /\ gap'     = [gap EXCEPT ![b] = @ \/ silence[b] >= TIMEOUT]
  /\ silence' = [silence EXCEPT ![b] = 0]

Insert(b, r) ==
  /\ buf'     = [buf EXCEPT ![b] = Append(@, r)]
  /\ gap'     = [gap EXCEPT ![b] = @ \/ silence[b] >= TIMEOUT]
  /\ silence' = [silence EXCEPT ![b] = 0]

------------------------------------------------------------------------------
(* connmgr *)

(* tcp_passive_open has succeeded, poll() is entered. *)
Listen ==
  /\ Running("connmgr", "start")
  /\ Goto("connmgr", "poll") /\ waited' = [waited EXCEPT !["connmgr"] = 0]
  /\ UNCHANGED <<join, status, buf, hand, matched, stored, received, silence, gap, events>>

(* A new client: it is added to the poll set and poll() starts afresh. *)
Accept ==
  /\ Running("connmgr", "poll") /\ events < MaxEvents
  /\ waited' = [waited EXCEPT !["connmgr"] = 0] /\ events' = events + 1
  /\ UNCHANGED <<pc, join, status, buf, hand, matched, stored, received, silence, gap>>

(* A client is readable: connmgr is now inside tcp_receive, which blocks    *)
(* until that client has sent a whole record or closed the connection.      *)
Readable ==
  /\ Running("connmgr", "poll") /\ events < MaxEvents
  /\ Goto("connmgr", "recv") /\ events' = events + 1
  /\ UNCHANGED <<join, status, buf, hand, matched, stored, waited, received, silence, gap>>

(* A whole record has come: it goes into the first buffer. *)
Receive(r) ==
  /\ Running("connmgr", "recv")
  /\ Insert("fir_buffer", r) /\ received' = Append(received, r)
  /\ Goto("connmgr", "poll") /\ waited' = [waited EXCEPT !["connmgr"] = 0]
  /\ UNCHANGED <<join, status, hand, matched, stored, events>>

(* End of file or an error on the client's socket: nothing is inserted. *)
ReceiveNothing_Inserts ==  \* mutant: result and bytes are not looked at
  /\ Running("connmgr", "recv")
  /\ Insert("fir_buffer", "uninitialized")
  /\ Goto("connmgr", "poll") /\ waited' = [waited EXCEPT !["connmgr"] = 0]
  /\ UNCHANGED <<join, status, hand, matched, stored, received, events>>

ReceiveNothing ==
  /\ Running("connmgr", "recv")
  /\ Goto("connmgr", "poll") /\ waited' = [waited EXCEPT !["connmgr"] = 0]
  /\ UNCHANGED <<join, status, buf, hand, matched, stored, received, silence, gap, events>>

(* poll() returned 0: the loop ends, the server socket is closed. *)
PollTimeout_Continues ==  \* mutant: the loop goes on after the timeout
  /\ Running("connmgr", "poll") /\ waited["connmgr"] >= TIMEOUT
  /\ waited' = [waited EXCEPT !["connmgr"] = 0]
  /\ UNCHANGED <<pc, join, status, buf, hand, matched, stored, received, silence, gap, events>>

PollTimeout ==
  /\ Running("connmgr", "poll") /\ waited["connmgr"] >= TIMEOUT
  /\ Goto("connmgr", "done")
  /\ UNCHANGED <<join, status, buf, hand, matched, stored, waited, received, silence, gap, events>>

------------------------------------------------------------------------------
(* the two consumers: sbuffer_remove_block on Input[c] *)

(* datamgr has read the sensor map, storagemgr has connected to the         *)
(* database and created its table.                                          *)
Ready(c) ==
  /\ Running(c, "start") /\ Goto(c, "enter")
  /\ UNCHANGED <<join, status, buf, hand, matched, stored, waited, received, silence, gap, events>>

(* The first look: block if the buffer is empty. *)
Enter_KeepsTime(c) ==  \* mutant: block_time is taken once and for all
  /\ Running(c, "enter")
  /\ Goto(c, IF buf[Input[c]] = <<>> THEN "sleep" ELSE "take")
  /\ UNCHANGED <<join, status, buf, hand, matched, stored, waited, received, silence, gap, events>>

Enter(c) ==
  /\ Running(c, "enter")
  /\ Goto(c, IF buf[Input[c]] = <<>> THEN "sleep" ELSE "take")
  /\ waited' = [waited EXCEPT ![c] = 0]
  /\ UNCHANGED <<join, status, buf, hand, matched, stored, received, silence, gap, events>>

(* if(sbuffer_size(buffer) != 0) break; *)
Poll_Blind(c) ==  \* mutant: only the elapsed time is looked at
  /\ Running(c, "poll")
  /\ Goto(c, "check")
  /\ UNCHANGED <<join, status, buf, hand, matched, stored, waited, received, silence, gap, events>>

Poll(c) ==
  /\ Running(c, "poll")
  /\ Goto(c, IF buf[Input[c]] # <<>> THEN "take" ELSE "check")
  /\ UNCHANGED <<join, status, buf, hand, matched, stored, waited, received, silence, gap, events>>

(* Still empty and long enough: SBUFFER_NO_DATA, and the thread ends. *)
GiveUp_NoRecheck(c) ==  \* mutant: the buffer is not looked at again
  waited[c] >= TIMEOUT

GiveUp(c) == buf[Input[c]] = <<>> /\ waited[c] >= TIMEOUT

Check(c) ==
  /\ Running(c, "check")
  /\ Goto(c, IF GiveUp(c) THEN "done" ELSE "sleep")
  /\ UNCHANGED <<join, status, buf, hand, matched, stored, waited, received, silence, gap, events>>

Take(c) ==
  /\ Running(c, "take")
  /\ hand' = [hand EXCEPT ![c] = <<Head(buf[Input[c]])>>]
  /\ buf'  = [buf EXCEPT ![Input[c]] = Tail(@)]
  /\ Goto(c, "use")
  /\ UNCHANGED <<join, status, matched, stored, waited, received, silence, gap, events>>

(* datamgr passes the reading on before it looks at it ... *)
Forward_Only ==  \* mutant: an early continue skips match_with_sensor_data
  /\ Running("datamgr", "use")
  /\ Insert("sec_buffer", hand["datamgr"][1])
  /\ hand' = [hand EXCEPT !["datamgr"] = <<>>]
  /\ Goto("datamgr", "enter")
  /\ UNCHANGED <<join, status, matched, stored, waited, received, events>>

Forward ==
  /\ Running("datamgr", "use")
  /\ Insert("sec_buffer", hand["datamgr"][1])
  /\ hand' = [hand EXCEPT !["datamgr"] = <<>>]
  /\ Goto("datamgr", "match")
  /\ UNCHANGED <<join, status, matched, stored, waited, received, events>>

(* ... and then updates the running average and logs. *)
Match ==
  /\ Running("datamgr", "match")
  /\ matched' = matched + 1
  /\ Goto("datamgr", "enter")
  /\ UNCHANGED <<join, status, buf, hand, stored, waited, received, silence, gap, events>>

(* insert_sensor has executed its INSERT. *)
Store_Repeats ==  \* mutant: the INSERT is retried although it succeeded
  /\ Running("storagemgr", "use")
  /\ stored' = stored \o hand["storagemgr"]
  /\ \/ hand' = [hand EXCEPT !["storagemgr"] = <<>>] /\ Goto("storagemgr", "enter")
     \/ UNCHANGED <<hand, pc>>
  /\ UNCHANGED <<join, status, buf, matched, waited, received, silence, gap, events>>

Store ==
  /\ Running("storagemgr", "use")
  /\ stored' = stored \o hand["storagemgr"]
  /\ hand' = [hand EXCEPT !["storagemgr"] = <<>>]
  /\ Goto("storagemgr", "enter")
  /\ UNCHANGED <<join, status, buf, matched, waited, received, silence, gap, events>>

------------------------------------------------------------------------------
(* main and the process *)

NextJoin == [connmgr |-> "datamgr", datamgr |-> "storagemgr", storagemgr |-> "none"]

MainJoin_Unwaited ==  \* mutant: the return of pthread_join is taken for the end
  /\ status = "running" /\ join # "none"
  /\ join' = NextJoin[join]
  /\ UNCHANGED <<pc, status, buf, hand, matched, stored, waited, received, silence, gap, events>>

MainJoin ==
  /\ status = "running" /\ join # "none" /\ pc[join] = "done"
  /\ join' = NextJoin[join]
  /\ UNCHANGED <<pc, status, buf, hand, matched, stored, waited, received, silence, gap, events>>

(* fclose, sem_destroy and pthread_exit: the last thread is gone, and with  *)
(* it the process.  The sbuffer_free calls of main() are never reached.     *)
MainEnd ==
  /\ status = "running" /\ join = "none"
  /\ status' = "ended"
  /\ UNCHANGED <<pc, join, buf, hand, matched, stored, waited, received, silence, gap, events>>

(* exit() from one thread ends all of them, wherever they are.  connmgr:    *)
(* sockets, poll, accept, malloc.  datamgr: the sensor map, malloc.         *)
(* storagemgr: the database cannot be opened or an INSERT fails.            *)
MayFail == [connmgr    |-> {"start", "poll", "recv"},
            datamgr    |-> {"start", "use", "match"},
            storagemgr |-> {"start", "use"}]

Fail(t) ==
  /\ status = "running" /\ pc[t] \in MayFail[t]
  /\ status' = "failed"
  /\ UNCHANGED <<pc, join, buf, hand, matched, stored, waited, received, silence, gap, events>>

Later(n) == IF n < TIMEOUT THEN n + 1 ELSE n

(* A second passes.  Whoever was in usleep(1000000) has slept enough. *)
Tick ==
  /\ status = "running"
  /\ waited'  = [t \in Thread |-> Later(waited[t])]
  /\ silence' = [b \in Buffer |-> Later(silence[b])]
  /\ pc'      = [t \in Thread |-> IF pc[t] = "sleep" THEN "poll" ELSE pc[t]]
  /\ UNCHANGED <<join, status, buf, hand, matched, stored, received, gap, events>>

------------------------------------------------------------------------------
Connmgr == Listen \/ PollTimeout

Sensors == Accept \/ Readable \/ ReceiveNothing \/ \E r \in Reading : Receive(r)

Remove(c) == Ready(c) \/ Enter(c) \/ Poll(c) \/ Check(c) \/ Take(c)

Datamgr == Remove("datamgr") \/ Forward \/ Match

Storagemgr == Remove("storagemgr") \/ Store

Main == MainJoin \/ MainEnd

Next ==
  \/ Connmgr \/ Sensors \/ Datamgr \/ Storagemgr \/ Main \/ Tick
  \/ \E t \in Thread : Fail(t)
  \/ status # "running" /\ UNCHANGED vars

Spec == Init /\ [][Next]_vars

(* Every runnable thread runs on, and time passes.  The sensors owe us      *)
(* nothing: they may stop at any point, in the middle of a record too.      *)
FairSpec == Spec /\ WF_vars(Connmgr) /\ WF_vars(Datamgr) /\ WF_vars(Storagemgr)
                 /\ WF_vars(Main) /\ WF_vars(Tick)

------------------------------------------------------------------------------
TypeOK ==
  /\ pc \in [Thread -> {"start", "poll", "recv", "enter", "sleep", "check", "take",
                        "use", "match", "done"}]
  /\ join \in Thread \cup {"none"} /\ status \in {"running", "failed", "ended"}
  /\ buf \in [Buffer -> Seq(Reading)] /\ hand \in [Consumer -> Seq(Reading)]
  /\ matched \in Nat /\ stored \in Seq(Reading) /\ received \in Seq(Reading)
  /\ waited \in [Thread -> 0 .. TIMEOUT] /\ silence \in [Buffer -> 0 .. TIMEOUT]
  /\ gap \in [Buffer -> BOOLEAN] /\ events \in Nat

(* No reading is lost, copied or overtaken between the sockets and the      *)
(* database while the process lives: what was received is what is stored,   *)
(* followed by what is on its way, oldest first.                            *)
Conservation ==
  received = stored \o hand["storagemgr"] \o buf["sec_buffer"]
                    \o hand["datamgr"] \o buf["fir_buffer"]

(* A consumer leaves readings behind in its buffer only if they came in     *)
(* after the buffer had been without any for TIMEOUT seconds: the two       *)
(* unlocked looks and the three separate clocks add no other way of losing  *)
(* readings (datamgr.c:122, sensor_db.c:57).                                *)
AbandonedAfterGap ==
  \A c \in Consumer : pc[c] = "done" /\ buf[Input[c]] # <<>> => gap[Input[c]]

(* A consumer ends only in front of an empty buffer into which nothing has  *)
(* been inserted for TIMEOUT seconds, however late it started to wait.      *)
GivesUpAfterSilence ==
  [][\A c \in Consumer : pc[c] # "done" /\ pc'[c] = "done"
        => buf[Input[c]] = <<>> /\ silence[Input[c]] >= TIMEOUT]_vars

(* The database is never more than one reading ahead of the temperature     *)
(* control: datamgr passes a reading on before it has looked at it.         *)
OneAhead == Len(stored) <= matched + 1

(* When the threads have been joined and the process ends, every reading    *)
(* has been stored, provided neither buffer ever had a gap of TIMEOUT       *)
(* seconds followed by more readings.                                       *)
EndComplete == status = "ended" /\ (\A b \in Buffer : ~gap[b]) => stored = received

(* The gateway implements the abstract store of sensor data. *)
S == INSTANCE SensorStore
ImplementsStore == S!Spec

(* When the sensors fall silent the process comes to an end, although       *)
(* nothing tells a thread that the others have finished; unless connmgr is  *)
(* stuck in tcp_receive on a record that never becomes complete.            *)
Termination == <>(status # "running" \/ [](pc["connmgr"] = "recv"))

(* Each reading reaches the database, or the process fails, or there was a  *)
(* gap.                                                                     *)
ReceivedIsStored ==
  \A i \in 1 .. MaxEvents :
    Len(received) >= i ~> Len(stored) >= i \/ status = "failed" \/ \E b \in Buffer : gap[b]

(* README.md:2: the database stores all sensor data processed by the        *)
(* gateway, when the process has ended in the regular way.                  *)
AllStored == status = "ended" => stored = received
==============================================================================

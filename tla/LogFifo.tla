------------------------------- MODULE LogFifo -------------------------------
(****************************************************************************)
(* Two processes and the FIFO between them.  main forks the log process;    *)
(* the threads of the gateway write their messages to the FIFO through one  *)
(* stdio stream, fp; the log process reads a line per second and writes it  *)
(* to gateway.log.                                                          *)
(*                                                                          *)
(*   log_to_fifo -> fp (stdio) -> logFifo (pipe) -> fgets -> gateway.log    *)
(*                                                                          *)
(* log_to_fifo takes the semaphore by value, so that sem_wait finds it free *)
(* whoever else is inside: it orders nothing and is no guard here.  What    *)
(* keeps messages whole is the lock stdio holds during fputs and fflush,    *)
(* and that a write of at most PIPE_BUF bytes is atomic.                    *)
(*                                                                          *)
(* Lengths are in pieces of about a third of a line: what the properties    *)
(* need is which messages fit into the buffer of fgets together.            *)
(****************************************************************************)
EXTENDS Integers, Sequences, FiniteSets, SequencesExt

CONSTANTS
  MAX,                  \* pieces that fgets reads at most
  PipeSize,             \* pieces the kernel keeps for a reader
  ReadSize,             \* pieces one read of the log process takes at most
  MaxEvents             \* bound on the messages of connmgr, and of datamgr

Thread == {"connmgr", "datamgr", "storagemgr"}

(* The messages, their length, and those that end in a newline. *)
Length == [event |-> 2, alert |-> 3, established |-> 1, created |-> 1,
           unable |-> 1, lost |-> 1, reestablished |-> 1]

Kind == DOMAIN Length

HasNewline(kind) == kind \notin {"unable", "lost", "reestablished"}

ASSUME LogFifoAssumption ==
  /\ MAX \in Nat /\ PipeSize \in Nat /\ ReadSize \in Nat \ {0} /\ MaxEvents \in Nat
  /\ \A kind \in Kind : Length[kind] <= MAX
  /\ PipeSize >= Length["event"] + Length["alert"] + 1    \* one write of all threads

Message == [by : Thread, no : 1 .. MaxEvents + 3, kind : Kind]

Text(m) ==
  [i \in 1 .. Length[m.kind] |->
     [of |-> m, piece |-> i, newline |-> i = Length[m.kind] /\ HasNewline(m.kind)]]

VARIABLES
  gateway,              \* the process: "running", "exiting", "flushed" or "ended"
  pc,                   \* where main, the threads and the log process are
  calls,                \* messages each thread has passed to log_to_fifo
  lock,                 \* who holds the lock of fp, or "none"
  obuf,                 \* text in the stdio buffer of fp
  writer, reader,       \* the two ends of the FIFO: "none", "open", "closed"
  pipe,                 \* text in the FIFO
  ibuf,                 \* text the log process has read ahead
  line,                 \* what fgets has returned
  file,                 \* the lines of gateway.log
  said                  \* messages in the order of fputs (not in the program)

startup == <<gateway, calls, lock, obuf, said>>
logvars == <<ibuf, line, file>>
vars == <<gateway, pc, calls, lock, obuf, writer, reader, pipe, ibuf, line, file, said>>

Init ==
  /\ gateway = "running" /\ lock = "none"
  /\ pc = [p \in Thread \cup {"main", "log"} |-> IF p = "main" THEN "fork" ELSE "off"]
  /\ calls = [t \in Thread |-> <<>>] /\ said = <<>>
  /\ writer = "none" /\ reader = "none"
  /\ obuf = <<>> /\ pipe = <<>> /\ ibuf = <<>> /\ line = <<>> /\ file = <<>>

At(p, from) == pc[p] = from /\ (p # "log" => gateway # "ended")

Goto(p, to) == pc' = [pc EXCEPT ![p] = to]

------------------------------------------------------------------------------
(* Starting *)

(* The child goes its own way at once: the arguments are checked later. *)
Fork ==
  /\ At("main", "fork")
  /\ pc' = [pc EXCEPT !["main"] = "args", !["log"] = "open"]
  /\ UNCHANGED <<startup, writer, reader, pipe, logvars>>

ArgumentsRight ==
  /\ At("main", "args") /\ Goto("main", "open")
  /\ UNCHANGED <<startup, writer, reader, pipe, logvars>>

(* fopen() of one end of a FIFO returns when the other end is opened. *)
OpenFifo ==
  /\ At("main", "open") /\ pc["log"] = "open"
  /\ pc' = [pc EXCEPT !["main"] = "create", !["log"] = "create"]
  /\ writer' = "open" /\ reader' = "open"
  /\ UNCHANGED <<startup, pipe, logvars>>

CreateThreads ==
  /\ At("main", "create")
  /\ pc' = [p \in DOMAIN pc |-> IF p = "main" THEN "join"
                                ELSE IF p \in Thread THEN "idle" ELSE pc[p]]
  /\ UNCHANGED <<startup, writer, reader, pipe, logvars>>

------------------------------------------------------------------------------
(* log_to_fifo, and when it is called *)

(* What thread t may have to say next.  The storagemgr reports the          *)
(* database, with an assertion between "established" and "lost" that a      *)
(* build may leave out.                                                     *)
After == [start         |-> {"established", "unable"},
          established   |-> {"created", "lost"},
          lost          |-> {"reestablished", "unable"},
          reestablished |-> {}, created |-> {}, unable |-> {}]

MaySay(t) ==
  CASE t = "connmgr" -> IF Len(calls[t]) < MaxEvents THEN {"event"} ELSE {}
    [] t = "datamgr" -> IF Len(calls[t]) < MaxEvents THEN {"alert"} ELSE {}
    [] OTHER         -> After[IF calls[t] = <<>> THEN "start" ELSE Last(calls[t])]

Current(t) == [by |-> t, no |-> Len(calls[t]), kind |-> Last(calls[t])]

Call(t, kind) ==
  /\ At(t, "idle") /\ kind \in MaySay(t)
  /\ calls' = [calls EXCEPT ![t] = Append(@, kind)] /\ Goto(t, "puts")
  /\ UNCHANGED <<gateway, lock, obuf, said, writer, reader, pipe, logvars>>

Fputs_NoFlush(t) ==  \* mutant: the message is left in the stdio buffer
  /\ At(t, "puts") /\ lock = "none"
  /\ obuf' = obuf \o Text(Current(t)) /\ said' = Append(said, Current(t))
  /\ Goto(t, "idle")
  /\ UNCHANGED <<gateway, calls, lock, writer, reader, pipe, logvars>>

(* fputs: the message is added to the stdio buffer. *)
Fputs(t) ==
  /\ At(t, "puts") /\ lock = "none"
  /\ obuf' = obuf \o Text(Current(t)) /\ said' = Append(said, Current(t))
  /\ Goto(t, "flush")
  /\ UNCHANGED <<gateway, calls, lock, writer, reader, pipe, logvars>>

(* "Unable to connect" is followed by exit(0). *)
Returned(t) == IF Last(calls[t]) = "unable" THEN "exit" ELSE "idle"

(* fflush: nothing to do if another thread has flushed this message too;    *)
(* else the lock is kept during the write, however long it blocks.          *)
Fflush(t) ==
  /\ At(t, "flush") /\ lock = "none"
  /\ IF obuf = <<>> THEN Goto(t, Returned(t)) /\ UNCHANGED lock
                    ELSE Goto(t, "write") /\ lock' = t
  /\ UNCHANGED <<gateway, calls, obuf, said, writer, reader, pipe, logvars>>

WriteOut_Keeps ==  \* mutant: the text is written and stays in the buffer
  /\ reader = "open" /\ Len(pipe) + Len(obuf) <= PipeSize
  /\ pipe' = pipe \o obuf /\ UNCHANGED obuf

(* write(2) of the stdio buffer: atomic, and blocks until there is room. *)
WriteOut ==
  /\ reader = "open" /\ Len(pipe) + Len(obuf) <= PipeSize
  /\ pipe' = pipe \o obuf /\ obuf' = <<>>

Write(t) ==
  /\ At(t, "write") /\ WriteOut
  /\ Goto(t, Returned(t)) /\ lock' = "none"
  /\ UNCHANGED <<gateway, calls, said, writer, reader, logvars>>

------------------------------------------------------------------------------
(* The end of the gateway *)

CloseWriter == writer' = IF writer = "open" THEN "closed" ELSE writer

(* A thread ends when it has nothing more to say, the storagemgr not before *)
(* it has reported the database. *)
Joined ==
  /\ \A t \in Thread : pc[t] = "idle"
  /\ calls["storagemgr"] # <<>> /\ MaySay("storagemgr") = {}

(* All threads have been joined: fclose(fp), pthread_exit. *)
MainEnd ==
  /\ At("main", "join") /\ gateway = "running" /\ Joined
  /\ IF obuf = <<>> THEN UNCHANGED <<pipe, obuf>> ELSE WriteOut
  /\ gateway' = "ended" /\ CloseWriter
  /\ UNCHANGED <<pc, calls, lock, said, reader, logvars>>

(* exit(): main for wrong arguments or when something cannot be created,    *)
(* a thread for any error it meets.  The other threads run on meanwhile.    *)
MayExit == [p \in Thread \cup {"main"} |->
              IF p = "main" THEN {"fork", "args", "open", "create"} ELSE {"idle", "exit"}]

Exit(p) ==
  /\ p # "log" /\ pc[p] \in MayExit[p] /\ gateway = "running"
  /\ gateway' = "exiting" /\ Goto(p, "exited")
  /\ UNCHANGED <<calls, lock, obuf, said, writer, reader, pipe, logvars>>

(* exit() flushes the streams ... *)
ExitFlush ==
  /\ gateway = "exiting" /\ lock = "none"
  /\ IF obuf = <<>> THEN UNCHANGED <<pipe, obuf>> ELSE WriteOut
  /\ gateway' = "flushed"
  /\ UNCHANGED <<pc, calls, lock, said, writer, reader, logvars>>

(* ... and ends the process with all its threads. *)
ExitEnd ==
  /\ gateway = "flushed" /\ gateway' = "ended" /\ CloseWriter
  /\ UNCHANGED <<pc, calls, lock, obuf, said, reader, pipe, logvars>>

(* A failing assertion of a thread ends the process without a flush. *)
Abort ==
  /\ gateway # "ended" /\ \E t \in Thread : pc[t] = "idle"
  /\ gateway' = "ended" /\ CloseWriter
  /\ UNCHANGED <<pc, calls, lock, obuf, said, reader, pipe, logvars>>

(* Writing to a FIFO nobody reads any more: SIGPIPE, which the gateway does *)
(* not handle.                                                              *)
Sigpipe ==
  /\ gateway # "ended" /\ reader = "closed" /\ obuf # <<>>
  /\ \/ \E t \in Thread : pc[t] = "write"
     \/ gateway = "exiting" /\ lock = "none"
  /\ gateway' = "ended" /\ CloseWriter
  /\ UNCHANGED <<pc, calls, lock, obuf, said, reader, pipe, logvars>>

------------------------------------------------------------------------------
(* The log process *)

(* gateway.log is opened for writing, and so emptied. *)
LogCreate ==
  /\ At("log", "create") /\ file' = <<>> /\ Goto("log", "read")
  /\ UNCHANGED <<startup, writer, reader, pipe, ibuf, line>>

LineEnds_Short ==  \* mutant: the array is one piece shorter than MAX
  {i \in DOMAIN ibuf : ibuf[i].newline \/ i = MAX - 1}

(* Where fgets ends the line: behind a newline, or when its buffer is full. *)
LineEnds == {i \in DOMAIN ibuf : ibuf[i].newline \/ i = MAX}

(* fgets has used up what was read ahead and reads again: what the FIFO     *)
(* holds, up to the size of the stdio buffer, which may end anywhere inside *)
(* a message.                                                               *)
Fill ==
  /\ At("log", "read") /\ LineEnds = {} /\ pipe # <<>>
  /\ LET n == IF Len(pipe) <= ReadSize THEN Len(pipe) ELSE ReadSize
     IN  ibuf' = ibuf \o SubSeq(pipe, 1, n) /\ pipe' = SubSeq(pipe, n + 1, Len(pipe))
  /\ UNCHANGED <<startup, pc, writer, reader, line, file>>

GetLine ==
  /\ At("log", "read") /\ LineEnds # {}
  /\ LET n == CHOOSE i \in LineEnds : \A j \in LineEnds : i <= j
     IN  line' = SubSeq(ibuf, 1, n) /\ ibuf' = SubSeq(ibuf, n + 1, Len(ibuf))
  /\ Goto("log", "record")
  /\ UNCHANGED <<startup, writer, reader, pipe, file>>

EndOfFile_Retries ==  \* mutant: the loop goes on although fgets returned NULL
  /\ At("log", "read") /\ LineEnds = {} /\ pipe = <<>> /\ writer = "closed"
  /\ IF ibuf # <<>> THEN line' = ibuf /\ ibuf' = <<>> /\ Goto("log", "record")
                    ELSE UNCHANGED <<line, ibuf, pc>>
  /\ UNCHANGED <<startup, writer, reader, pipe, file>>

(* End of file: what is left is a line too; then fgets returns NULL. *)
EndOfFile ==
  /\ At("log", "read") /\ LineEnds = {} /\ pipe = <<>> /\ writer = "closed"
  /\ IF ibuf # <<>> THEN line' = ibuf /\ ibuf' = <<>> /\ Goto("log", "record")
                         /\ UNCHANGED reader
                    ELSE UNCHANGED <<line, ibuf>> /\ Goto("log", "ended")
                         /\ reader' = "closed"
  /\ UNCHANGED <<startup, writer, pipe, file>>

(* The line is written and flushed; a second later fgets is called again. *)
Record ==
  /\ At("log", "record")
  /\ file' = Append(file, line) /\ line' = <<>> /\ Goto("log", "read")
  /\ UNCHANGED <<startup, writer, reader, pipe, ibuf>>

(* logFifo or gateway.log cannot be created, or a line cannot be written. *)
LogFail ==
  /\ pc["log"] \in {"open", "create", "record"} /\ Goto("log", "failed")
  /\ reader' = IF reader = "open" THEN "closed" ELSE reader
  /\ UNCHANGED <<startup, writer, pipe, logvars>>

------------------------------------------------------------------------------
Main == Fork \/ ArgumentsRight \/ OpenFifo \/ CreateThreads
        \/ ExitFlush \/ ExitEnd \/ Sigpipe

LogToFifo(t) == Fputs(t) \/ Fflush(t) \/ Write(t)

LogProcess == LogCreate \/ Fill \/ GetLine \/ EndOfFile \/ Record

(* Both processes have ended, or one waits in fopen() for ever because the  *)
(* other has ended before it opened the FIFO.                               *)
Stopped ==
  \/ gateway = "ended" /\ pc["log"] \in {"off", "open", "ended", "failed"}
  \/ pc["main"] = "open" /\ pc["log"] = "failed"

Next ==
  \/ Main \/ MainEnd \/ Abort \/ LogProcess \/ LogFail
  \/ \E t \in Thread : LogToFifo(t) \/ \E kind \in Kind : Call(t, kind)
  \/ \E p \in Thread \cup {"main"} : Exit(p)
  \/ Stopped /\ UNCHANGED vars

Spec == Init /\ [][Next]_vars

(* Both processes run on.  When a thread speaks, ends or meets an error is  *)
(* its own affair, except that it exits after "unable".                     *)
FairSpec ==
  /\ Spec /\ WF_vars(Main) /\ WF_vars(LogProcess)
  /\ \A t \in Thread : WF_vars(LogToFifo(t)) /\ WF_vars(pc[t] = "exit" /\ Exit(t))

------------------------------------------------------------------------------
TypeOK ==
  /\ gateway \in {"running", "exiting", "flushed", "ended"}
  /\ pc["main"] \in {"fork", "args", "open", "create", "join", "exited"}
  /\ pc["log"] \in {"off", "open", "create", "read", "record", "ended", "failed"}
  /\ \A t \in Thread :
       pc[t] \in {"off", "idle", "puts", "flush", "write", "exit", "exited"}
  /\ calls \in [Thread -> Seq(Kind)] /\ said \in Seq(Message)
  /\ lock \in Thread \cup {"none"}
  /\ {writer, reader} \subseteq {"none", "open", "closed"}
  /\ \A text \in {obuf, pipe, ibuf, line} \cup Range(file) :
       \A i \in DOMAIN text : text[i].of \in Message /\ text[i] \in Range(Text(text[i].of))

(* The state is typed.  Each message that was said after a whole line is a  *)
(* line of its own in gateway.log: threads that speak at once, flush for    *)
(* each other or share a line do not disturb it.  Only messages without a   *)
(* newline (sensor_db.c:45,92,145,153,179) run into the one that follows,   *)
(* and nothing beyond that one suffers.                                     *)
LinesWhole ==
  /\ TypeOK
  /\ \A j \in DOMAIN said :
       /\ HasNewline(said[j].kind)
       /\ j > 1 => HasNewline(said[j - 1].kind)
       /\ \E i \in DOMAIN file : \E k \in DOMAIN file[i] : file[i][k].of = said[j]
       => Text(said[j]) \in Range(file)

(* What the log process writes is what the threads say, in order. *)
E == INSTANCE EventLog WITH written <- FlattenSeq(file)
ImplementsLog == E!Spec

Inside(t, n) == n = Len(calls[t]) /\ pc[t] \in {"puts", "flush", "write"}

IsRecorded(t, n) ==
  \E i \in DOMAIN file : \E k \in DOMAIN file[i] :
    file[i][k].of.by = t /\ file[i][k].of.no = n /\ file[i][k].newline

(* gateway.log catches up with every line a thread has passed to            *)
(* log_to_fifo, however full the FIFO is and however the gateway ends;      *)
(* unless the log process fails, or the gateway ends while the thread is    *)
(* still inside log_to_fifo.                                                *)
EventsAreRecorded ==
  []<>(\/ pc["log"] = "failed"
       \/ \A t \in Thread : \A n \in DOMAIN calls[t] :
            \/ ~HasNewline(calls[t][n]) \/ IsRecorded(t, n)
            \/ gateway = "ended" /\ Inside(t, n))

(* The log process ends after the gateway has, in whatever way, unless the  *)
(* gateway has ended before it opened the FIFO (main.c:97): then the log    *)
(* process waits in fopen() for ever.                                       *)
LogProcessEnds ==
  gateway = "ended" ~>
    pc["log"] \in {"off", "ended", "failed"} \/ (pc["log"] = "open" /\ writer = "none")
==============================================================================

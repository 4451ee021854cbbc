------------------------------- MODULE ConnMgr -------------------------------
(****************************************************************************)
(* connmgr_listen: one thread that waits in poll() for new connections and  *)
(* for data of the connected sensors, reads records with three blocking     *)
(* calls of tcp_receive, and closes connections it thinks have timed out.   *)
(*                                                                          *)
(* The sensors send streams of bytes.  A record has three fields, and a     *)
(* field travels in FieldSize parts: with FieldSize = 1 the network never   *)
(* divides a field, with more it may.  The k-th part client c has sent is   *)
(* the pair <<c, k>>.  Instead of timestamps and of the clock the model has *)
(* ages: how many seconds a timestamp is behind the gateway's clock,        *)
(* negative for a sensor whose clock is ahead.  Ages from TIMEOUT on make   *)
(* no difference.                                                           *)
(****************************************************************************)
EXTENDS Integers, Sequences, FiniteSets, SequencesExt

CONSTANTS
  Client,               \* connections (a sensor may open several)
  Uninit,               \* what an uninitialized local variable holds
  TIMEOUT,              \* seconds
  FieldSize,            \* parts of a field that may arrive separately
  MaxAhead,             \* bound on how far a sensor's clock is ahead
  MaxRecords            \* bound on the records one client sends

ASSUME ConnMgrAssumption ==
  /\ IsFiniteSet(Client)
  /\ TIMEOUT \in Nat /\ MaxAhead \in Nat /\ MaxRecords \in Nat
  /\ FieldSize \in Nat \ {0}

Age     == -MaxAhead .. TIMEOUT
Fd      == 1 .. Cardinality(Client)
NoFd    == -1
Part    == {Uninit} \cup (Client \X (1 .. 3 * FieldSize * MaxRecords))
Field   == {"id", "value", "ts"}
Record  == [Field -> [1 .. FieldSize -> Part]]

(* socket_node; of the last record only its timestamp is looked at again *)
socket_node == [fd : Fd, sock_ptr : Client, age : Age, if_log_to_fifo : BOOLEAN]

VARIABLES
  pc,                   \* where connmgr is; "id": receiving the id, and so on
  revents,              \* indices of pollfd still to be served in this round
  waited,               \* seconds since poll() was entered
  pollfd,               \* pollfd_ptr[1 ..], without the server's entry
  client_list,
  data,                 \* the local variable the fields are received into
  \* the sensors and the kernel
  peer,                 \* the other end of a connection
  backlog,              \* connections not yet accepted, oldest first
  fd,                   \* the descriptor of each connection, NoFd without one
  sent, got,            \* parts sent by, and received from, each client
  age,                  \* of the timestamp in each record of each client
  \* what connmgr hands on, by client
  inserted,             \* records inserted into the shared buffer
  log                   \* messages sent to the log

loop  == <<pc, revents, waited>>
lists == <<pollfd, client_list>>
net   == <<peer, backlog, fd, sent, got, age>>
out   == <<inserted, log>>
vars  == <<loop, lists, data, net, out>>

Init ==
  /\ pc = "poll" /\ revents = {} /\ waited = 0
  /\ pollfd = <<>> /\ client_list = <<>>
  /\ data = [f \in Field |-> [p \in 1 .. FieldSize |-> Uninit]]
  /\ peer = [c \in Client |-> "none"] /\ backlog = <<>>
  /\ fd = [c \in Client |-> NoFd]
  /\ sent = [c \in Client |-> 0] /\ got = [c \in Client |-> 0]
  /\ age = [c \in Client |-> [r \in 1 .. MaxRecords |-> TIMEOUT]]
  /\ inserted = [c \in Client |-> <<>>] /\ log = [c \in Client |-> <<>>]

(* The value of a field when all its parts are those of record r of c. *)
Position == [id |-> 0, value |-> 1, ts |-> 2]

FieldOf(c, r, f) ==
  [p \in 1 .. FieldSize |-> <<c, (3 * (r - 1) + Position[f]) * FieldSize + p>>]

(* get_socket_by_fd and get_client_by_fd: the first node with that          *)
(* descriptor, 0 for NULL.                                                  *)
get_client_by_fd(f) == SelectInSeq(client_list, LAMBDA n : n.fd = f)

Readable(c) == got[c] < sent[c] \/ peer[c] \in {"closed", "reset"}

(* poll() ignores entries with a negative descriptor. *)
Ready ==
  {n \in DOMAIN pollfd :
     pollfd[n] # NoFd /\ \E c \in Client : fd[c] = pollfd[n] /\ Readable(c)}

------------------------------------------------------------------------------
(* The loop.  A new connection goes first: if there is one, nobody is       *)
(* served in this round.                                                    *)
PollReturns ==
  /\ pc = "poll"
  /\ \/ backlog # <<>> /\ pc' = "accept" /\ UNCHANGED revents
     \/ backlog = <<>> /\ Ready # {} /\ pc' = "serve" /\ revents' = Ready
  /\ UNCHANGED <<waited, lists, data, net, out>>

PollTimeout ==
  /\ pc = "poll" /\ waited = TIMEOUT /\ backlog = <<>> /\ Ready = {}
  /\ pc' = "timeout"
  /\ UNCHANGED <<revents, waited, lists, data, net, out>>

(* The kernel gives the lowest free descriptor. *)
LowestFree == Min(Fd \ {fd[c] : c \in Client})

tcp_wait_for_connection ==
  /\ fd' = [fd EXCEPT ![Head(backlog)] = LowestFree]
  /\ backlog' = Tail(backlog)

Accept ==
  /\ pc = "accept"
  /\ tcp_wait_for_connection
  /\ pollfd' = Append(pollfd, LowestFree)
  /\ client_list' = Append(client_list,
       [fd |-> LowestFree, sock_ptr |-> Head(backlog), age |-> TIMEOUT, if_log_to_fifo |-> FALSE])
  /\ pc' = "poll" /\ waited' = 0
  /\ UNCHANGED <<revents, data, peer, sent, got, age, out>>

(* The for loop: the next entry that is ready, or back to poll().  The two  *)
(* assertions fail if the descriptor is in no node.                         *)
ServeNext ==
  /\ pc = "serve" /\ revents # {}
  /\ pc' = IF get_client_by_fd(pollfd[Min(revents)]) = 0 THEN "failed" ELSE "id"
  /\ UNCHANGED <<revents, waited, lists, data, net, out>>

ServeEnd ==
  /\ pc = "serve" /\ revents = {}
  /\ pc' = "poll" /\ waited' = 0
  /\ UNCHANGED <<revents, lists, data, net, out>>

------------------------------------------------------------------------------
(* One client: its entry in the poll array, its node and its connection. *)
entry      == Min(revents)
node_ptr_t == get_client_by_fd(pollfd[entry])
temp       == client_list[node_ptr_t].sock_ptr

(* recv: whatever is there, up to the size asked for. *)
Received(f) ==
  LET n == Min({FieldSize, sent[temp] - got[temp]})
  IN  /\ data' = [data EXCEPT ![f] =
                    [p \in 1 .. FieldSize |-> IF p <= n THEN <<temp, got[temp] + p>> ELSE @[p]]]
      /\ got' = [got EXCEPT ![temp] = @ + n]

HasData == got[temp] < sent[temp]
AtEnd   == ~HasData /\ peer[temp] \in {"closed", "reset"}

(* The id and the value: at the end of the stream nothing is received, and  *)
(* nobody looks at the result.                                              *)
ReceiveField ==
  /\ pc \in {"id", "value"}
  /\ \/ HasData /\ Received(pc)
     \/ AtEnd /\ UNCHANGED <<data, got>>
  /\ pc' = IF pc = "id" THEN "value" ELSE "ts"
  /\ UNCHANGED <<revents, waited, lists, peer, backlog, fd, sent, age, out>>

(* How old the received timestamp looks; parts of different fields may make *)
(* any number.                                                              *)
AgeOf(val) ==
  LET rs == {r \in 1 .. MaxRecords : val = FieldOf(temp, r, "ts")}
  IN  IF rs = {} THEN Age ELSE {age[temp][r] : r \in rs}

(* sbuffer_insert, the update of the node, and one message to the log.      *)
Stored_KeepsTime(record, a) ==  \* mutant: node_ptr_t->data.ts is not updated
  /\ inserted' = [inserted EXCEPT ![temp] = Append(@, record)]
  /\ client_list' = [client_list EXCEPT ![node_ptr_t].if_log_to_fifo = TRUE]
  /\ log' = [log EXCEPT ![temp] =
              IF client_list[node_ptr_t].if_log_to_fifo THEN @ ELSE Append(@, "opened")]

Stored_Relogs(record, a) ==  \* mutant: if_log_to_fifo is not set
  /\ inserted' = [inserted EXCEPT ![temp] = Append(@, record)]
  /\ client_list' = [client_list EXCEPT ![node_ptr_t].age = a]
  /\ log' = [log EXCEPT ![temp] =
              IF client_list[node_ptr_t].if_log_to_fifo THEN @ ELSE Append(@, "opened")]

Stored(record, a) ==
  /\ inserted' = [inserted EXCEPT ![temp] = Append(@, record)]
  /\ client_list' = [client_list EXCEPT ![node_ptr_t].age = a,
                                        ![node_ptr_t].if_log_to_fifo = TRUE]
  /\ log' = [log EXCEPT ![temp] =
              IF client_list[node_ptr_t].if_log_to_fifo THEN @ ELSE Append(@, "opened")]

(* The timestamp: its result alone decides whether there is a record.       *)
ReceiveTs_Unchecked ==  \* mutant: nor is this result looked at
  /\ pc = "ts"
  /\ \/ HasData /\ Received("ts")
     \/ AtEnd /\ UNCHANGED <<data, got>>
  /\ \E a \in AgeOf(data'.ts) : Stored(data', a)
  /\ pc' = "expire"
  /\ UNCHANGED <<revents, waited, pollfd, peer, backlog, fd, sent, age>>

ReceiveTs ==
  /\ pc = "ts"
  /\ \/ /\ HasData /\ Received("ts")
        /\ \E a \in AgeOf(data'.ts) : Stored(data', a)
     \/ AtEnd /\ UNCHANGED <<data, got, client_list, out>>
  /\ pc' = "expire"
  /\ UNCHANGED <<revents, waited, pollfd, peer, backlog, fd, sent, age>>

(* tcp_close: a socket whose peer has reset the connection cannot be shut   *)
(* down any more, and then close() is not called.                           *)
tcp_close_Forgets(c) ==  \* mutant: close() is never called
  UNCHANGED fd

tcp_close(c) ==
  fd' = IF peer[c] = "reset" THEN fd ELSE [fd EXCEPT ![c] = NoFd]

(* The last timestamp of the client is compared with the clock. *)
Expired_AfterRecord ==  \* mutant: only after a record, not at the end of file
  client_list[node_ptr_t].age >= TIMEOUT /\ ~AtEnd

Expired == client_list[node_ptr_t].age >= TIMEOUT

CloseClient_KeepsEntry ==  \* mutant: pollfd[i].fd is not set to -1
  /\ tcp_close(temp)
  /\ log' = [log EXCEPT ![temp] = Append(@, "closed")]
  /\ client_list' = RemoveAt(client_list, node_ptr_t)
  /\ UNCHANGED pollfd

CloseClient ==
  /\ tcp_close(temp)
  /\ log' = [log EXCEPT ![temp] = Append(@, "closed")]
  /\ client_list' = RemoveAt(client_list, node_ptr_t)
  /\ pollfd' = [pollfd EXCEPT ![entry] = NoFd]

Expire ==
  /\ pc = "expire"
  /\ IF Expired THEN CloseClient ELSE UNCHANGED <<fd, log, lists>>
  /\ revents' = revents \ {entry} /\ pc' = "serve"
  /\ UNCHANGED <<waited, data, peer, backlog, sent, got, age, inserted>>

(* After the timeout of poll(): the server's socket is closed, and          *)
(* connmgr_free frees both lists.  The sockets of clients stay open.        *)
connmgr_free ==
  /\ pc = "timeout"
  /\ pollfd' = <<>> /\ client_list' = <<>> /\ pc' = "done"
  /\ UNCHANGED <<revents, waited, data, net, out>>

(* exit() or a failed assertion: poll(), accept() or malloc failed, here or *)
(* in sbuffer_insert, or the log could not be written.                      *)
Fail ==
  /\ pc \in {"poll", "accept", "ts", "expire"}
  /\ pc' = "failed"
  /\ UNCHANGED <<revents, waited, lists, data, net, out>>

------------------------------------------------------------------------------
(* The sensors, and time. *)
Waiting(c) == \E n \in DOMAIN backlog : backlog[n] = c

Connected(c) == peer[c] = "up" /\ (fd[c] # NoFd \/ Waiting(c))

Connect(c) ==
  /\ peer[c] = "none" /\ pc \notin {"done", "failed"}
  /\ peer' = [peer EXCEPT ![c] = "up"] /\ backlog' = Append(backlog, c)
  /\ UNCHANGED <<loop, lists, data, fd, sent, got, age, out>>

(* The next part of a record.  With the first one the sensor reads its      *)
(* clock, which need not agree with the gateway's.                          *)
Send(c) ==
  /\ Connected(c) /\ sent[c] < 3 * FieldSize * MaxRecords
  /\ sent' = [sent EXCEPT ![c] = @ + 1]
  /\ IF sent[c] % (3 * FieldSize) = 0
     THEN \E a \in Age : age' = [age EXCEPT ![c][sent[c] \div (3 * FieldSize) + 1] = a]
     ELSE UNCHANGED age
  /\ UNCHANGED <<loop, lists, data, peer, backlog, fd, got, out>>

Close(c) ==
  /\ Connected(c)
  /\ peer' = [peer EXCEPT ![c] = "closed"]
  /\ UNCHANGED <<loop, lists, data, backlog, fd, sent, got, age, out>>

(* A reset connection loses what has not been received yet. *)
Reset(c) ==
  /\ Connected(c)
  /\ peer' = [peer EXCEPT ![c] = "reset"] /\ sent' = [sent EXCEPT ![c] = got[c]]
  /\ UNCHANGED <<loop, lists, data, backlog, fd, got, age, out>>

Older(a) == IF a < TIMEOUT THEN a + 1 ELSE a

Tick ==
  /\ pc \notin {"done", "failed"}
  /\ age' = [c \in Client |-> [r \in 1 .. MaxRecords |-> Older(age[c][r])]]
  /\ client_list' = [n \in DOMAIN client_list |->
                      [client_list[n] EXCEPT !.age = Older(@)]]
  /\ waited' = IF pc = "poll" THEN Older(waited) ELSE waited
  /\ UNCHANGED <<pc, revents, pollfd, data, peer, backlog, fd, sent, got, out>>

Connmgr ==
  \/ PollReturns \/ PollTimeout \/ Accept \/ ServeNext \/ ServeEnd
  \/ ReceiveField \/ ReceiveTs \/ Expire \/ connmgr_free

Sensor(c) == Connect(c) \/ Send(c) \/ Close(c) \/ Reset(c)

Next ==
  \/ Connmgr \/ Fail \/ Tick
  \/ \E c \in Client : Sensor(c)
  \/ pc \in {"done", "failed"} /\ UNCHANGED vars

Spec == Init /\ [][Next]_vars

(* connmgr runs on while it can, and time passes.  Sensors owe nothing. *)
FairSpec == Spec /\ WF_vars(Connmgr) /\ WF_vars(Tick)

------------------------------------------------------------------------------
TypeOK ==
  /\ pc \in {"poll", "accept", "serve", "expire", "timeout", "done", "failed"} \cup Field
  /\ revents \subseteq DOMAIN pollfd /\ waited \in 0 .. TIMEOUT
  /\ pollfd \in Seq(Fd \cup {NoFd}) /\ client_list \in Seq(socket_node)
  /\ data \in Record
  /\ peer \in [Client -> {"none", "up", "closed", "reset"}]
  /\ backlog \in Seq(Client) /\ fd \in [Client -> Fd \cup {NoFd}]
  /\ sent \in [Client -> Nat] /\ got \in [Client -> Nat]
  /\ \A c \in Client : got[c] <= sent[c]
  /\ age \in [Client -> [1 .. MaxRecords -> Age]]
  /\ inserted \in [Client -> Seq(Record)] /\ log \in [Client -> Seq({"opened", "closed"})]

Live == pc \notin {"timeout", "done", "failed"}

(* Every descriptor poll() watches belongs to exactly one node of the list  *)
(* and to the connection in that node, also when the kernel has given a     *)
(* descriptor away again: the assertions of connmgr.c:145, 147 and 177      *)
(* hold, and no client's data is taken for another's.                       *)
ClientsMatchPoll ==
  /\ TypeOK
  /\ Live =>
    /\ \A m, n \in DOMAIN client_list : client_list[m].fd = client_list[n].fd => m = n
    /\ \A m, n \in DOMAIN pollfd : pollfd[m] = pollfd[n] /\ pollfd[m] # NoFd => m = n
    /\ {client_list[n].fd : n \in DOMAIN client_list}
         = {pollfd[n] : n \in DOMAIN pollfd} \ {NoFd}
    /\ \A n \in DOMAIN client_list : fd[client_list[n].sock_ptr] = client_list[n].fd

(* The records inserted for a client are those it sent, whole, in order and *)
(* without gaps: fields of two records or of two clients are never mixed,   *)
(* although the variable they are received into is shared, and the first    *)
(* two results ignored.  It takes a network that does not divide fields.    *)
RecordsWhole ==
  \A c \in Client : \A r \in DOMAIN inserted[c] :
    inserted[c][r] = [f \in Field |-> FieldOf(c, r, f)]

(* The log tells of a connection once that it was opened, when its first    *)
(* record has come, and once that it was closed, when it was; in this order.*)
LogTellsOnce ==
  Live =>
    \A c \in Client :
      LET accepted == peer[c] # "none" /\ ~Waiting(c)
          listed   == \E n \in DOMAIN client_list : client_list[n].sock_ptr = c
      IN  log[c] = (IF inserted[c] = <<>> THEN <<>> ELSE <<"opened">>)
                    \o (IF accepted /\ ~listed THEN <<"closed">> ELSE <<>>)

(* connmgr closes a connection only if the last record it has inserted for  *)
(* it is TIMEOUT seconds old, or if it has not inserted any.                *)
ClosedOnlyWhenStale ==
  [][\A c \in Client :
       log'[c] # log[c] /\ log'[c][Len(log'[c])] = "closed" /\ inserted[c] # <<>>
         => age[c][Len(inserted[c])] >= TIMEOUT]_vars

(* A descriptor that no node refers to is one tcp_close has lost because    *)
(* the peer had reset the connection.                                       *)
OnlyResetLeaks ==
  Live => \A c \in Client :
    fd[c] # NoFd /\ (\A n \in DOMAIN client_list : client_list[n].sock_ptr # c)
      => peer[c] = "reset"

Stuck == pc \in Field

(* A connection its peer ends while connmgr listens is closed here too, however often poll() *)
(* reports it until its last timestamp is old enough; unless connmgr fails, *)
(* or waits for ever for the rest of another client's record.               *)
GoneIsClosed ==
  \A c \in Client :
    Live /\ peer[c] \in {"closed", "reset"} /\ fd[c] # NoFd
      ~> \/ log[c] # <<>> /\ log[c][Len(log[c])] = "closed"
         \/ pc = "failed" \/ []Stuck

(* When the sensors have nothing more to say connmgr ends: silent clients   *)
(* do not hold it up, nor do those that have gone.                          *)
Ends == <>(pc \in {"done", "failed"} \/ []Stuck)
==============================================================================

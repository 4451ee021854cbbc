---------------------------- MODULE ConnMgr_proofs ----------------------------
(****************************************************************************)
(* Theorems about ConnMgr, for every number of connections, records and     *)
(* parts of a field, and every TIMEOUT.                                     *)
(****************************************************************************)
EXTENDS ConnMgr, ListLemmas, FiniteSetTheorems

(* The parts one client sends at most. *)
Total == 3 * FieldSize * MaxRecords

Bounded == \A c \in Client : sent[c] <= Total

Listed(c) == \E n \in DOMAIN client_list : client_list[n].sock_ptr = c

(* A connection waits in the backlog once, and for nothing if it is not up. *)
Queued ==
  /\ \A m, n \in DOMAIN backlog : backlog[m] = backlog[n] => m = n
  /\ \A c \in Client : Waiting(c) => peer[c] # "none"
  /\ pc = "accept" => backlog # <<>>

(* connmgr knows nothing of a connection it has not accepted. *)
Unaccepted ==
  \A c \in Client : peer[c] = "none" \/ Waiting(c) =>
    fd[c] = NoFd /\ ~Listed(c) /\ inserted[c] = <<>> /\ log[c] = <<>>

(* No two connections share a descriptor, lost ones included. *)
OwnFd == \A c, d \in Client : fd[c] = fd[d] /\ fd[c] # NoFd => c = d

Nodes ==
  /\ \A m, n \in DOMAIN client_list : client_list[m].fd = client_list[n].fd => m = n
  /\ \A m, n \in DOMAIN pollfd : pollfd[m] = pollfd[n] /\ pollfd[m] # NoFd => m = n
  /\ {client_list[n].fd : n \in DOMAIN client_list}
       = {pollfd[n] : n \in DOMAIN pollfd} \ {NoFd}
  /\ \A n \in DOMAIN client_list : fd[client_list[n].sock_ptr] = client_list[n].fd

(* What is still to be served in a round is being watched. *)
Round ==
  /\ pc \in {"poll", "accept", "timeout", "done"} => revents = {}
  /\ pc \in {"serve", "expire"} \cup Field => \A n \in revents : pollfd[n] # NoFd
  /\ pc \in {"expire"} \cup Field => revents # {}

Flags ==
  \A n \in DOMAIN client_list :
    client_list[n].if_log_to_fifo <=> inserted[client_list[n].sock_ptr] # <<>>

Lost(c) == fd[c] # NoFd /\ ~Listed(c)

(* What the log has of a connection, until the list is freed. *)
Opened(c) == IF inserted[c] = <<>> THEN <<>> ELSE <<"opened">>
Over(c)   == peer[c] # "none" /\ ~Waiting(c) /\ ~Listed(c)

Told ==
  pc # "done" =>
    \A c \in Client :
      /\ Lost(c) => peer[c] = "reset"
      /\ log[c] = Opened(c) \o (IF Over(c) THEN <<"closed">> ELSE <<>>)

Base == /\ TypeOK /\ Bounded /\ Queued /\ Unaccepted /\ OwnFd
        /\ Nodes /\ Round /\ Flags /\ Told

------------------------------------------------------------------------------
(* Numbers and sequences *)

LEMMA TotalNat == Total \in Nat
<1>1. FieldSize \in Nat /\ MaxRecords \in Nat BY ConnMgrAssumption
<1>2. \A a, b \in Nat : a * b \in Nat OBVIOUS
<1> QED BY <1>1, <1>2 DEF Total

(* get_client_by_fd finds a node with the descriptor if there is one. *)
LEMMA FirstNode ==
  ASSUME NEW T, client_list \in Seq(T), NEW f
  PROVE /\ get_client_by_fd(f) = 0 => \A n \in DOMAIN client_list : client_list[n].fd # f
        /\ get_client_by_fd(f) # 0 =>
             /\ get_client_by_fd(f) \in DOMAIN client_list
             /\ client_list[get_client_by_fd(f)].fd = f
<1> DEFINE I == {i \in 1 .. Len(client_list) : client_list[i].fd = f}
<1>1. get_client_by_fd(f) = IF I # {} THEN Min(I) ELSE 0
  BY DEF get_client_by_fd, SelectInSeq
<1>2. DOMAIN client_list = 1 .. Len(client_list) /\ Len(client_list) \in Nat BY LenProperties
<1>3. I \in SUBSET Nat BY <1>2
<1>4. I # {} => Min(I) \in I BY <1>3, MinNat
<1> QED BY <1>1, <1>2, <1>4

(* The kernel has a descriptor for a connection that has none. *)
LEMMA FreeDescriptor ==
  ASSUME fd \in [Client -> Fd \cup {NoFd}], NEW b \in Client, fd[b] = NoFd
  PROVE  LowestFree \in Fd /\ LowestFree # NoFd /\ \A c \in Client : fd[c] # LowestFree
<1> DEFINE Used == {fd[c] : c \in Client}
           Rest == Client \ {b}
           f == [k \in Fd |-> CHOOSE c \in Rest : fd[c] = k]
<1>1. /\ IsFiniteSet(Client) /\ Cardinality(Client) \in Nat
      /\ IsFiniteSet(Rest) /\ Cardinality(Rest) = Cardinality(Client) - 1
  BY ConnMgrAssumption, FS_CardinalityType, FS_RemoveElement
<1>2. IsFiniteSet(Fd) /\ Cardinality(Fd) = Cardinality(Client)
  BY <1>1, FS_Interval DEF Fd
<1>3. Fd \subseteq Nat /\ NoFd \notin Fd BY <1>1 DEF Fd, NoFd
<1>4. Fd \ Used # {}
  <2> SUFFICES ASSUME Fd \subseteq Used PROVE FALSE OBVIOUS
  <2>1. \A k \in Fd : \E c \in Rest : fd[c] = k BY <1>3
  <2>2. f \in [Fd -> Rest] /\ \A k \in Fd : fd[f[k]] = k BY <2>1
  <2> HIDE DEF f, Rest
  <2>3. Cardinality(Rest) < Cardinality(Fd) BY <1>1, <1>2
  <2>4. \E j, k \in Fd : j # k /\ f[j] = f[k] BY <1>1, <1>2, <2>2, <2>3, FS_PigeonHole
  <2> QED BY <2>2, <2>4
<1>5. Fd \ Used \in SUBSET Nat BY <1>3
<1>6. LowestFree \in Fd \ Used BY <1>4, <1>5, MinNat DEF LowestFree
<1> QED BY <1>3, <1>6

LEMMA NodeTypes ==
  ASSUME TypeOK
  PROVE  \A n \in DOMAIN client_list :
           /\ client_list[n] \in socket_node /\ client_list[n].fd \in Fd
           /\ client_list[n].sock_ptr \in Client /\ client_list[n].age \in Age
<1>1. client_list \in Seq(socket_node) /\ DOMAIN client_list = 1 .. Len(client_list)
  BY LenProperties DEF TypeOK
<1>2. \A n \in DOMAIN client_list : client_list[n] \in socket_node BY <1>1, ElementOfSeq
<1> QED BY <1>2 DEF socket_node

(* The node, the connection and the poll entry that are being served.       *)
LEMMA Served ==
  ASSUME TypeOK, Nodes, Round, pc \in {"expire"} \cup Field
  PROVE  /\ entry \in revents /\ entry \in DOMAIN pollfd /\ pollfd[entry] # NoFd
         /\ node_ptr_t \in DOMAIN client_list /\ client_list[node_ptr_t] \in socket_node
         /\ client_list[node_ptr_t].fd = pollfd[entry]
         /\ temp \in Client /\ fd[temp] = pollfd[entry]
         /\ \A n \in DOMAIN client_list : client_list[n].sock_ptr = temp => n = node_ptr_t
<1>1. DOMAIN pollfd = 1 .. Len(pollfd) /\ Len(pollfd) \in Nat BY LenProperties DEF TypeOK
<1>2. revents \in SUBSET Nat /\ revents # {} BY <1>1 DEF TypeOK, Round
<1>3. entry \in revents BY <1>2, MinNat DEF entry
<1>4. entry \in DOMAIN pollfd /\ pollfd[entry] # NoFd BY <1>3 DEF TypeOK, Round
<1>5. \E n \in DOMAIN client_list : client_list[n].fd = pollfd[entry] BY <1>4 DEF Nodes
<1>6. node_ptr_t \in DOMAIN client_list /\ client_list[node_ptr_t].fd = pollfd[entry]
  BY <1>5, FirstNode DEF node_ptr_t, TypeOK
<1>7. client_list[node_ptr_t] \in socket_node
  BY <1>6, LenProperties, ElementOfSeq DEF TypeOK
<1>8. temp \in Client /\ fd[temp] = pollfd[entry] BY <1>6, <1>7 DEF temp, socket_node, Nodes
<1> QED BY <1>3, <1>4, <1>6, <1>7, <1>8 DEF Nodes

------------------------------------------------------------------------------
(* The loop of connmgr *)

LEMMA BaseInit == Init => Base
<1> SUFFICES ASSUME Init PROVE Base OBVIOUS
<1> USE DEF Init
<1>1. DOMAIN <<>> = {} OBVIOUS
<1>2. TypeOK
  <2>1. 0 \in 0 .. TIMEOUT /\ TIMEOUT \in Age BY ConnMgrAssumption DEF Age
  <2>2. data \in Record BY DEF Record, Part
  <2>3. <<>> \in Seq(Fd \cup {NoFd}) /\ <<>> \in Seq(socket_node) /\ <<>> \in Seq(Client)
        /\ <<>> \in Seq(Record) /\ <<>> \in Seq({"opened", "closed"})
    BY EmptySeq
  <2> QED BY <2>1, <2>2, <2>3 DEF TypeOK
<1>3. Bounded BY TotalNat DEF Bounded
<1>4. \A c \in Client : ~Listed(c) /\ ~Waiting(c) BY <1>1 DEF Listed, Waiting
<1>5. Told BY <1>4 DEF Told, Lost, Opened, Over
<1> QED BY <1>1, <1>2, <1>3, <1>4, <1>5
        DEF Base, Queued, Unaccepted, OwnFd, Nodes, Round, Flags, NoFd, Field

(* Steps of connmgr that only move on. *)
LEMMA Moves ==
  ASSUME Base, UNCHANGED <<lists, data, net, out>>, TypeOK', Round',
         pc' = "accept" => backlog # <<>>, pc # "done"
  PROVE  Base'
<1> USE DEF Base, lists, net, out
<1>1. \A c \in Client : (Listed(c)' <=> Listed(c)) /\ (Waiting(c)' <=> Waiting(c))
  BY DEF Listed, Waiting
<1>2. Bounded' /\ OwnFd' BY DEF Bounded, OwnFd
<1>6. Nodes' BY DEF Nodes
<1>7. Flags' BY DEF Flags
<1>3. Queued' /\ Unaccepted' BY <1>1 DEF Queued, Unaccepted
<1>4. \A c \in Client : Opened(c)' = Opened(c) /\ (Over(c)' <=> Over(c)) /\ (Lost(c)' <=> Lost(c))
  BY <1>1 DEF Opened, Over, Lost
<1>5. Told' BY <1>4 DEF Told
<1> QED BY <1>2, <1>3, <1>5, <1>6, <1>7

LEMMA LoopInv ==
  Base /\ (PollReturns \/ PollTimeout \/ ServeNext \/ ServeEnd \/ Fail) => Base'
<1> SUFFICES ASSUME Base, PollReturns \/ PollTimeout \/ ServeNext \/ ServeEnd \/ Fail PROVE Base'
  OBVIOUS
<1> USE DEF PollReturns, PollTimeout, ServeNext, ServeEnd, Fail, lists, net, out
<1>1. /\ UNCHANGED <<lists, data, net, out>> /\ pc # "done"
      /\ pc' = "accept" => backlog # <<>>
  OBVIOUS
<1>2. revents' \subseteq DOMAIN pollfd
  BY DEF Base, TypeOK, Ready
<1>3. waited' \in 0 .. TIMEOUT /\ pc' \in {"poll", "accept", "serve", "timeout", "id", "failed"}
  BY ConnMgrAssumption DEF Base, TypeOK
<1>4. TypeOK' BY <1>1, <1>2, <1>3 DEF Base, TypeOK, Field
<1>5. Round' BY <1>1 DEF Base, Round, Ready, Field
<1> QED BY <1>1, <1>4, <1>5, Moves

LEMMA FreeInv == Base /\ connmgr_free => Base'
<1> SUFFICES ASSUME Base, connmgr_free PROVE Base' OBVIOUS
<1> USE DEF Base, connmgr_free, net, out
<1>1. DOMAIN <<>> = {} OBVIOUS
<1>2. TypeOK' BY EmptySeq DEF TypeOK, Round
<1>3. \A c \in Client : ~Listed(c)' /\ (Waiting(c)' <=> Waiting(c))
  BY <1>1 DEF Listed, Waiting
<1>4. Unaccepted' /\ Queued' BY <1>3 DEF Unaccepted, Queued
<1>5. Bounded' /\ OwnFd' /\ Nodes' /\ Flags' BY <1>1 DEF Bounded, OwnFd, Nodes, Flags, NoFd
<1>6. Round' /\ Told' BY DEF Round, Told, Field
<1> QED BY <1>2, <1>4, <1>5, <1>6

(* accept() takes the oldest connection and the lowest free descriptor. *)
LEMMA AcceptInv == Base /\ Accept => Base'
<1> SUFFICES ASSUME Base, Accept PROVE Base' OBVIOUS
<1> DEFINE b == Head(backlog)
           node == [fd |-> LowestFree, sock_ptr |-> b, age |-> TIMEOUT, if_log_to_fifo |-> FALSE]
<1>1. /\ backlog # <<>> /\ backlog \in Seq(Client) /\ b \in Client /\ Tail(backlog) \in Seq(Client)
      /\ Len(backlog) \in Nat \ {0} /\ b = backlog[1] /\ Len(Tail(backlog)) = Len(backlog) - 1
      /\ DOMAIN backlog = 1 .. Len(backlog) /\ DOMAIN Tail(backlog) = 1 .. Len(backlog) - 1
      /\ \A i \in 1 .. Len(backlog) - 1 : Tail(backlog)[i] = backlog[i + 1]
  BY HeadTailProperties, LenProperties, EmptySeq DEF Accept, Base, Queued, TypeOK
<1>2. Waiting(b) BY <1>1 DEF Waiting
<1>3. /\ fd[b] = NoFd /\ peer[b] # "none" /\ ~Listed(b) /\ inserted[b] = <<>> /\ log[b] = <<>>
  BY <1>1, <1>2 DEF Base, Unaccepted, Queued
<1>4. LowestFree \in Fd /\ LowestFree # NoFd /\ \A c \in Client : fd[c] # LowestFree
  BY <1>1, <1>3, FreeDescriptor DEF Base, TypeOK
<1>5. node \in socket_node
  BY <1>1, <1>4, ConnMgrAssumption DEF socket_node, Age
<1> HIDE DEF b
<1>6. /\ pollfd' = Append(pollfd, LowestFree) /\ client_list' = Append(client_list, node)
      /\ fd' = [fd EXCEPT ![b] = LowestFree] /\ backlog' = Tail(backlog)
      /\ pc' = "poll" /\ waited' = 0 /\ pc = "accept"
      /\ UNCHANGED <<revents, data, peer, sent, got, age, inserted, log>>
  BY DEF Accept, tcp_wait_for_connection, out, b
<1> HIDE DEF node
<1>7. /\ pollfd \in Seq(Fd \cup {NoFd}) /\ client_list \in Seq(socket_node)
      /\ Len(pollfd) \in Nat /\ Len(client_list) \in Nat
      /\ DOMAIN pollfd = 1 .. Len(pollfd) /\ DOMAIN client_list = 1 .. Len(client_list)
  BY LenProperties DEF Base, TypeOK
<1>8. /\ pollfd' \in Seq(Fd \cup {NoFd}) /\ DOMAIN pollfd' = 1 .. Len(pollfd) + 1
      /\ pollfd'[Len(pollfd) + 1] = LowestFree
      /\ \A i \in 1 .. Len(pollfd) : pollfd'[i] = pollfd[i]
  BY <1>4, <1>6, <1>7, AppendProperties, LenProperties
<1>9. /\ client_list' \in Seq(socket_node) /\ DOMAIN client_list' = 1 .. Len(client_list) + 1
      /\ client_list'[Len(client_list) + 1] = node
      /\ \A i \in 1 .. Len(client_list) : client_list'[i] = client_list[i]
  BY <1>5, <1>6, <1>7, AppendProperties, LenProperties
<1>10. node.fd = LowestFree /\ node.sock_ptr = b /\ ~node.if_log_to_fifo BY DEF node
<1>11. \A n \in DOMAIN client_list : client_list[n] \in socket_node
  BY <1>7, ElementOfSeq
<1>12. TypeOK'
  <2>1. revents' \subseteq DOMAIN pollfd' BY <1>6, <1>7, <1>8 DEF Base, TypeOK
  <2>2. fd' \in [Client -> Fd \cup {NoFd}] BY <1>4, <1>6 DEF Base, TypeOK
  <2>3. 0 \in 0 .. TIMEOUT BY ConnMgrAssumption
  <2> QED BY <1>1, <1>6, <1>8, <1>9, <2>1, <2>2, <2>3 DEF Base, TypeOK
<1>13. \A c \in Client : (Listed(c)' <=> Listed(c) \/ c = b) /\ (Waiting(c)' <=> Waiting(c) /\ c # b)
  <2> TAKE c \in Client
  <2>1. Listed(c)' <=> Listed(c) \/ c = b
    BY <1>7, <1>9, <1>10 DEF Listed
  <2>2. Waiting(c) /\ c # b => Waiting(c)'
    <3> SUFFICES ASSUME Waiting(c), c # b PROVE Waiting(c)' OBVIOUS
    <3>1. PICK n \in DOMAIN backlog : backlog[n] = c BY DEF Waiting
    <3>2. n - 1 \in 1 .. Len(backlog) - 1 /\ Tail(backlog)[n - 1] = c BY <1>1, <3>1 DEF b
    <3> QED BY <1>1, <1>6, <3>2 DEF Waiting
  <2>3. Waiting(c)' => Waiting(c) /\ c # b
    <3> SUFFICES ASSUME Waiting(c)' PROVE Waiting(c) /\ c # b OBVIOUS
    <3>1. PICK n \in 1 .. Len(backlog) - 1 : Tail(backlog)[n] = c BY <1>1, <1>6 DEF Waiting
    <3>2. n + 1 \in DOMAIN backlog /\ backlog[n + 1] = c /\ 1 \in DOMAIN backlog /\ n + 1 # 1
      BY <1>1, <3>1
    <3> QED BY <3>2 DEF Base, Queued, Waiting, b
  <2> QED BY <2>1, <2>2, <2>3
<1>14. Bounded' /\ Round'
  BY <1>6 DEF Base, Bounded, Round, Field
<1>15. Queued'
  <2>1. \A m, n \in DOMAIN backlog' : backlog'[m] = backlog'[n] => m = n
    <3> TAKE m, n \in DOMAIN backlog'
    <3>1. m + 1 \in DOMAIN backlog /\ n + 1 \in DOMAIN backlog
          /\ backlog'[m] = backlog[m + 1] /\ backlog'[n] = backlog[n + 1] /\ m \in Int /\ n \in Int
      BY <1>1, <1>6
    <3>2. backlog[m + 1] = backlog[n + 1] => m + 1 = n + 1 BY <3>1 DEF Base, Queued
    <3> QED BY <3>1, <3>2
  <2> QED BY <1>6, <1>13, <2>1 DEF Base, Queued
<1>16. Unaccepted'
  BY <1>3, <1>6, <1>13 DEF Base, Unaccepted, TypeOK
<1>17. OwnFd' BY <1>4, <1>6 DEF Base, OwnFd, TypeOK
<1>18. Nodes'
  <2>1. \A n \in DOMAIN client_list :
           /\ client_list[n].sock_ptr \in Client /\ client_list[n].sock_ptr # b
           /\ fd[client_list[n].sock_ptr] = client_list[n].fd /\ client_list[n].fd # LowestFree
    BY <1>3, <1>4, <1>11 DEF Base, Nodes, Listed, socket_node
  <2>2. \A n \in DOMAIN pollfd : pollfd[n] # LowestFree
    <3> TAKE n \in DOMAIN pollfd
    <3>1. CASE pollfd[n] = NoFd BY <1>4, <3>1
    <3>2. CASE pollfd[n] # NoFd
      <4>1. \E m \in DOMAIN client_list : client_list[m].fd = pollfd[n] BY <3>2 DEF Base, Nodes
      <4> QED BY <2>1, <4>1
    <3> QED BY <3>1, <3>2
  <2>3. \A m, n \in DOMAIN client_list' : client_list'[m].fd = client_list'[n].fd => m = n
    BY <1>7, <1>9, <1>10, <2>1 DEF Base, Nodes
  <2>4. \A m, n \in DOMAIN pollfd' : pollfd'[m] = pollfd'[n] /\ pollfd'[m] # NoFd => m = n
    BY <1>7, <1>8, <2>2 DEF Base, Nodes
  <2>5. {client_list'[n].fd : n \in DOMAIN client_list'}
          = {client_list[n].fd : n \in DOMAIN client_list} \cup {LowestFree}
    BY <1>7, <1>9, <1>10
  <2>6. {pollfd'[n] : n \in DOMAIN pollfd'}
          = {pollfd[n] : n \in DOMAIN pollfd} \cup {LowestFree}
    BY <1>7, <1>8
  <2>7. \A n \in DOMAIN client_list' : fd'[client_list'[n].sock_ptr] = client_list'[n].fd
    BY <1>1, <1>6, <1>7, <1>9, <1>10, <2>1 DEF Base, TypeOK
  <2> QED BY <1>4, <2>3, <2>4, <2>5, <2>6, <2>7 DEF Base, Nodes
<1>19. Flags' BY <1>3, <1>6, <1>7, <1>9, <1>10 DEF Base, Flags
<1>20. Told'
  <2>1. \A c \in Client : (Over(c)' <=> Over(c)) /\ (Lost(c)' => Lost(c)) /\ Opened(c)' = Opened(c)
    BY <1>2, <1>3, <1>6, <1>13 DEF Over, Lost, Opened, Base, TypeOK
  <2> QED BY <1>6, <2>1 DEF Base, Told
<1> QED BY <1>12, <1>14, <1>15, <1>16, <1>17, <1>18, <1>19, <1>20 DEF Base

(* Steps that change neither the connections nor whose nodes there are. *)
LEMMA SameNodes ==
  ASSUME DOMAIN client_list' = DOMAIN client_list,
         \A n \in DOMAIN client_list : /\ client_list'[n].fd = client_list[n].fd
                                       /\ client_list'[n].sock_ptr = client_list[n].sock_ptr,
         UNCHANGED <<pollfd, fd, backlog>>
  PROVE  /\ Nodes => Nodes'
         /\ \A c : (Listed(c)' <=> Listed(c)) /\ (Waiting(c)' <=> Waiting(c))
<1>1. {client_list'[n].fd : n \in DOMAIN client_list'} = {client_list[n].fd : n \in DOMAIN client_list}
  OBVIOUS
<1>2. Nodes => Nodes' BY <1>1 DEF Nodes
<1>3. \A c : (Listed(c)' <=> Listed(c)) /\ (Waiting(c)' <=> Waiting(c)) BY DEF Listed, Waiting
<1> QED BY <1>2, <1>3

(* recv puts parts of this connection where the field's old parts were.     *)
LEMMA ReceivedType ==
  ASSUME TypeOK, Bounded, temp \in Client, NEW f \in Field, HasData, Received(f)
  PROVE  /\ data' \in Record /\ got' \in [Client -> Nat]
         /\ \A c \in Client : got'[c] <= sent[c]
<1> DEFINE n == Min({FieldSize, sent[temp] - got[temp]})
<1>1. FieldSize \in Nat /\ sent[temp] - got[temp] \in Nat /\ got[temp] \in Nat /\ sent[temp] \in Nat
  BY ConnMgrAssumption DEF TypeOK
<1>2. {FieldSize, sent[temp] - got[temp]} \in SUBSET Nat BY <1>1
<1>3. n \in Nat /\ n <= sent[temp] - got[temp]
  <2>1. {FieldSize, sent[temp] - got[temp]} # {} OBVIOUS
  <2>2. n \in {FieldSize, sent[temp] - got[temp]}
        /\ \A y \in {FieldSize, sent[temp] - got[temp]} : n <= y
    BY <1>2, <2>1, MinNat
  <2> QED BY <1>1, <2>2
<1>4. /\ data' = [data EXCEPT ![f] =
                   [p \in 1 .. FieldSize |-> IF p <= n THEN <<temp, got[temp] + p>> ELSE @[p]]]
      /\ got' = [got EXCEPT ![temp] = @ + n]
  BY DEF Received
<1> HIDE DEF n
<1>5. \A p \in 1 .. FieldSize : p <= n => <<temp, got[temp] + p>> \in Part
  <2> TAKE p \in 1 .. FieldSize
  <2>1. sent[temp] <= Total /\ Total \in Nat BY TotalNat DEF Bounded
  <2>2. p <= n => got[temp] + p \in 1 .. Total BY <1>1, <1>3, <2>1
  <2> QED BY <2>2 DEF Part, Total
<1>6. data[f] \in [1 .. FieldSize -> Part] BY DEF TypeOK, Record
<1>7. [p \in 1 .. FieldSize |-> IF p <= n THEN <<temp, got[temp] + p>> ELSE data[f][p]]
        \in [1 .. FieldSize -> Part]
  BY <1>5, <1>6
<1>8. data' \in Record BY <1>4, <1>7 DEF TypeOK, Record
<1>9. got' \in [Client -> Nat] /\ \A c \in Client : got'[c] <= sent[c]
  BY <1>1, <1>3, <1>4 DEF TypeOK
<1> QED BY <1>8, <1>9

LEMMA ReceiveFieldInv == Base /\ ReceiveField => Base'
<1> SUFFICES ASSUME Base, ReceiveField PROVE Base' OBVIOUS
<1> USE DEF Base
<1>1. /\ pc \in {"id", "value"} /\ pc' = IF pc = "id" THEN "value" ELSE "ts"
      /\ UNCHANGED <<revents, waited, pollfd, client_list, peer, backlog, fd, sent, age, inserted, log>>
  BY DEF ReceiveField, lists, out
<1>2. temp \in Client BY <1>1, Served DEF Field
<1>3. /\ data' \in Record /\ got' \in [Client -> Nat]
      /\ \A c \in Client : got'[c] <= sent[c]
  BY <1>1, <1>2, ReceivedType DEF ReceiveField, TypeOK, Field
<1>4. TypeOK' BY <1>1, <1>3 DEF TypeOK, Field
<1>5. (Nodes => Nodes') /\ \A c : (Listed(c)' <=> Listed(c)) /\ (Waiting(c)' <=> Waiting(c))
  BY <1>1, SameNodes
<1>6. Bounded' /\ Queued' /\ Unaccepted' /\ OwnFd' BY <1>1, <1>5 DEF Bounded, Queued, Unaccepted, OwnFd
<1>7. Round' /\ Flags' BY <1>1 DEF Round, Flags, Field
<1>8. Told' BY <1>1, <1>5 DEF Told, Lost, Opened, Over
<1> QED BY <1>4, <1>5, <1>6, <1>7, <1>8

LEMMA NodeUpdate ==
  ASSUME NEW r \in socket_node, NEW a, NEW t
  PROVE  [[r EXCEPT !.age = a] EXCEPT !.if_log_to_fifo = t]
           = [fd |-> r.fd, sock_ptr |-> r.sock_ptr, age |-> a, if_log_to_fifo |-> t]
<1>1. r = [fd |-> r.fd, sock_ptr |-> r.sock_ptr, age |-> r.age, if_log_to_fifo |-> r.if_log_to_fifo]
  BY DEF socket_node
<1>2. [r EXCEPT !.age = a]
        = [fd |-> r.fd, sock_ptr |-> r.sock_ptr, age |-> a, if_log_to_fifo |-> r.if_log_to_fifo]
  BY <1>1
<1>3. [[fd |-> r.fd, sock_ptr |-> r.sock_ptr, age |-> a, if_log_to_fifo |-> r.if_log_to_fifo]
         EXCEPT !.if_log_to_fifo = t]
        = [fd |-> r.fd, sock_ptr |-> r.sock_ptr, age |-> a, if_log_to_fifo |-> t]
  OBVIOUS
<1> QED BY <1>2, <1>3

(* What the record does to the node, the log and the buffer. *)
LEMMA StoredFacts ==
  ASSUME TypeOK, Nodes, Round, pc = "ts", NEW record \in Record, NEW a \in Age, Stored(record, a)
  PROVE  /\ client_list' \in Seq(socket_node) /\ DOMAIN client_list' = DOMAIN client_list
         /\ \A n \in DOMAIN client_list :
              /\ client_list'[n].fd = client_list[n].fd
              /\ client_list'[n].sock_ptr = client_list[n].sock_ptr
              /\ client_list'[n].age = IF n = node_ptr_t THEN a ELSE client_list[n].age
              /\ client_list'[n].if_log_to_fifo = (client_list[n].if_log_to_fifo \/ n = node_ptr_t)
         /\ inserted' \in [Client -> Seq(Record)]
         /\ \A c \in Client : inserted'[c] = IF c = temp THEN Append(inserted[c], record) ELSE inserted[c]
         /\ log' \in [Client -> Seq({"opened", "closed"})]
         /\ \A c \in Client : log'[c] = IF c = temp /\ ~client_list[node_ptr_t].if_log_to_fifo
                                        THEN Append(log[c], "opened") ELSE log[c]
<1>1. /\ node_ptr_t \in DOMAIN client_list /\ client_list[node_ptr_t] \in socket_node
      /\ temp \in Client
  BY Served DEF Field
<1>2. /\ client_list \in Seq(socket_node) /\ DOMAIN client_list = 1 .. Len(client_list)
      /\ Len(client_list) \in Nat /\ \A n \in DOMAIN client_list : client_list[n] \in socket_node
  BY LenProperties, ElementOfSeq DEF TypeOK
<1> DEFINE old == client_list[node_ptr_t]
           new == [fd |-> old.fd, sock_ptr |-> old.sock_ptr, age |-> a, if_log_to_fifo |-> TRUE]
<1>3. /\ new \in socket_node /\ new.fd = old.fd /\ new.sock_ptr = old.sock_ptr
      /\ new.age = a /\ new.if_log_to_fifo = TRUE
  BY <1>1 DEF socket_node
<1>4. client_list' = [client_list EXCEPT ![node_ptr_t] = new]
  <2>1. [[old EXCEPT !.age = a] EXCEPT !.if_log_to_fifo = TRUE] = new
    BY <1>1, NodeUpdate, Zenon
  <2>2. client_list' = [client_list EXCEPT ![node_ptr_t] =
                         [[old EXCEPT !.age = a] EXCEPT !.if_log_to_fifo = TRUE]]
    BY <1>1, <1>2 DEF Stored
  <2> QED BY <1>1, <2>1, <2>2
<1> HIDE DEF new
<1>5. /\ client_list' \in Seq(socket_node) /\ Len(client_list') = Len(client_list)
      /\ \A n \in 1 .. Len(client_list) : client_list'[n] = IF n = node_ptr_t THEN new ELSE client_list[n]
  BY <1>1, <1>2, <1>3, <1>4, ExceptSeq
<1>6. DOMAIN client_list' = DOMAIN client_list BY <1>2, <1>5, LenProperties
<1>7. \A n \in DOMAIN client_list :
        /\ client_list'[n].fd = client_list[n].fd
        /\ client_list'[n].sock_ptr = client_list[n].sock_ptr
        /\ client_list'[n].age = IF n = node_ptr_t THEN a ELSE client_list[n].age
        /\ client_list'[n].if_log_to_fifo = (client_list[n].if_log_to_fifo \/ n = node_ptr_t)
  <2> TAKE n \in DOMAIN client_list
  <2>1. client_list[n].if_log_to_fifo \in BOOLEAN BY <1>2 DEF socket_node
  <2>2. CASE n = node_ptr_t BY <1>2, <1>3, <1>5, <2>1, <2>2
  <2>3. CASE n # node_ptr_t BY <1>2, <1>5, <2>1, <2>3
  <2> QED BY <2>2, <2>3
<1>8. /\ inserted' \in [Client -> Seq(Record)]
      /\ \A c \in Client : inserted'[c] = IF c = temp THEN Append(inserted[c], record) ELSE inserted[c]
  <2>1. \A c \in Client : Append(inserted[c], record) \in Seq(Record)
    BY AppendProperties DEF TypeOK
  <2> QED BY <1>1, <2>1 DEF Stored, TypeOK
<1>9. /\ log' \in [Client -> Seq({"opened", "closed"})]
      /\ \A c \in Client : log'[c] = IF c = temp /\ ~client_list[node_ptr_t].if_log_to_fifo
                                     THEN Append(log[c], "opened") ELSE log[c]
  <2>1. \A c \in Client : Append(log[c], "opened") \in Seq({"opened", "closed"})
    BY AppendProperties DEF TypeOK
  <2> QED BY <1>1, <2>1 DEF Stored, TypeOK
<1> QED BY <1>5, <1>6, <1>7, <1>8, <1>9

LEMMA AgeOfType ==
  ASSUME TypeOK, temp \in Client, NEW val
  PROVE  AgeOf(val) \subseteq Age
<1>1. \A r \in 1 .. MaxRecords : age[temp][r] \in Age BY DEF TypeOK
<1> QED BY <1>1 DEF AgeOf

LEMMA ReceiveTsInv == Base /\ ReceiveTs => Base'
<1> SUFFICES ASSUME Base, ReceiveTs PROVE Base' OBVIOUS
<1> USE DEF Base
<1>1. /\ pc = "ts" /\ pc' = "expire"
      /\ UNCHANGED <<revents, waited, pollfd, peer, backlog, fd, sent, age>>
  BY DEF ReceiveTs
<1>2. /\ temp \in Client /\ node_ptr_t \in DOMAIN client_list
      /\ client_list[node_ptr_t].sock_ptr = temp /\ Listed(temp)
      /\ \A n \in DOMAIN client_list : client_list[n].sock_ptr = temp => n = node_ptr_t
  BY <1>1, Served DEF Field, Listed, temp
<1>3. Round' BY <1>1 DEF Round, Field
<1>4. CASE AtEnd /\ UNCHANGED <<data, got, client_list, out>>
  <2>1. TypeOK' BY <1>1, <1>4 DEF TypeOK, out
  <2> QED BY <1>1, <1>3, <1>4, <2>1, Moves DEF lists, net
<1>5. CASE HasData /\ Received("ts") /\ \E a \in AgeOf(data'.ts) : Stored(data', a)
  <2>1. /\ data' \in Record /\ got' \in [Client -> Nat]
        /\ \A c \in Client : got'[c] <= sent[c]
    BY <1>2, <1>5, ReceivedType DEF Field
  <2>2. PICK a \in Age : Stored(data', a) BY <1>2, <1>5, AgeOfType
  <2>3. /\ client_list' \in Seq(socket_node) /\ DOMAIN client_list' = DOMAIN client_list
        /\ \A n \in DOMAIN client_list :
             /\ client_list'[n].fd = client_list[n].fd
             /\ client_list'[n].sock_ptr = client_list[n].sock_ptr
             /\ client_list'[n].if_log_to_fifo = (client_list[n].if_log_to_fifo \/ n = node_ptr_t)
        /\ inserted' \in [Client -> Seq(Record)]
        /\ \A c \in Client : inserted'[c] = IF c = temp THEN Append(inserted[c], data') ELSE inserted[c]
        /\ log' \in [Client -> Seq({"opened", "closed"})]
        /\ \A c \in Client : log'[c] = IF c = temp /\ ~client_list[node_ptr_t].if_log_to_fifo
                                       THEN Append(log[c], "opened") ELSE log[c]
    BY <1>1, <2>1, <2>2, StoredFacts
  <2>4. TypeOK' BY <1>1, <2>1, <2>3 DEF TypeOK
  <2>5. (Nodes => Nodes') /\ \A c : (Listed(c)' <=> Listed(c)) /\ (Waiting(c)' <=> Waiting(c))
    BY <1>1, <2>3, SameNodes
  <2>6. inserted'[temp] # <<>> BY <1>2, <2>1, <2>3, AppendProperties DEF TypeOK
  <2>7. Bounded' /\ OwnFd' BY <1>1 DEF Bounded, OwnFd
  <2>8. Queued' BY <1>1, <2>5 DEF Queued
  <2>9. Unaccepted'
    <3> SUFFICES ASSUME NEW c \in Client, peer[c] = "none" \/ Waiting(c)
                 PROVE  fd[c] = NoFd /\ ~Listed(c) /\ inserted'[c] = <<>> /\ log'[c] = <<>>
      BY <1>1, <2>5 DEF Unaccepted
    <3>1. fd[c] = NoFd /\ ~Listed(c) /\ inserted[c] = <<>> /\ log[c] = <<>> /\ c # temp
      BY <1>2 DEF Unaccepted
    <3> QED BY <2>3, <3>1
  <2>10. Flags'
    <3> SUFFICES ASSUME NEW n \in DOMAIN client_list
                 PROVE  client_list'[n].if_log_to_fifo <=> inserted'[client_list[n].sock_ptr] # <<>>
      BY <2>3 DEF Flags
    <3>1. client_list[n].sock_ptr \in Client
      BY NodeTypes
    <3>2. CASE n = node_ptr_t BY <1>2, <2>3, <2>6, <3>2
    <3>3. CASE n # node_ptr_t BY <1>2, <2>3, <3>1, <3>3 DEF Flags
    <3> QED BY <3>2, <3>3
  <2>11. Told'
    <3>1. \A c \in Client : (Lost(c)' <=> Lost(c)) /\ (Over(c)' <=> Over(c))
      BY <1>1, <2>5 DEF Lost, Over
    <3>2. ~Over(temp) BY <1>2 DEF Over
    <3>3. log[temp] = Opened(temp) \o <<>> BY <1>1, <1>2, <3>2 DEF Told
    <3>4. client_list[node_ptr_t].if_log_to_fifo <=> inserted[temp] # <<>> BY <1>2 DEF Flags
    <3>5. log'[temp] = <<"opened">>
      <4>1. CASE inserted[temp] = <<>>
        <5>1. log[temp] = <<>> BY <3>3, <4>1 DEF Opened
        <5> QED BY <1>2, <2>3, <3>4, <4>1, <5>1
      <4>2. CASE inserted[temp] # <<>>
        BY <1>2, <2>3, <3>3, <3>4, <4>2 DEF Opened
      <4> QED BY <4>1, <4>2
    <3>6. \A c \in Client : c = temp => log'[c] = Opened(c)' \o <<>>
      <4>1. <<"opened">> \o <<>> = <<"opened">> OBVIOUS
      <4> QED BY <2>6, <3>5, <4>1 DEF Opened
    <3>7. \A c \in Client : c # temp => log'[c] = log[c] /\ Opened(c)' = Opened(c)
      BY <2>3 DEF Opened
    <3>8. \A c \in Client : log'[c] = Opened(c)' \o (IF Over(c)' THEN <<"closed">> ELSE <<>>)
      <4> TAKE c \in Client
      <4>1. CASE c = temp BY <1>2, <3>1, <3>2, <3>6, <4>1
      <4>2. CASE c # temp BY <1>1, <3>1, <3>7, <4>2 DEF Told
      <4> QED BY <4>1, <4>2
    <3> QED BY <1>1, <3>1, <3>8 DEF Told
  <2> QED BY <1>3, <2>4, <2>5, <2>7, <2>8, <2>9, <2>10, <2>11
<1> QED BY <1>4, <1>5 DEF ReceiveTs

(* The other nodes and watched descriptors, once a client is closed. *)
LEMMA ClosedFacts ==
  ASSUME Base, pc = "expire", CloseClient
  PROVE  /\ client_list' \in Seq(socket_node) /\ Nodes'
         /\ pollfd' \in Seq(Fd \cup {NoFd}) /\ DOMAIN pollfd' = DOMAIN pollfd
         /\ \A n \in DOMAIN pollfd : n # entry => pollfd'[n] = pollfd[n]
         /\ fd' \in [Client -> Fd \cup {NoFd}]
         /\ \A c \in Client : fd'[c] = IF c = temp /\ peer[c] # "reset" THEN NoFd ELSE fd[c]
         /\ \A c \in Client : Listed(c)' <=> Listed(c) /\ c # temp
         /\ \A n \in DOMAIN client_list' : \E m \in DOMAIN client_list :
              client_list'[n] = client_list[m] /\ client_list[m].sock_ptr # temp
         /\ Listed(temp) /\ temp \in Client
<1> USE DEF Base
<1>1. /\ entry \in revents /\ entry \in DOMAIN pollfd /\ pollfd[entry] # NoFd
      /\ node_ptr_t \in DOMAIN client_list
      /\ client_list[node_ptr_t].fd = pollfd[entry]
      /\ temp \in Client /\ fd[temp] = pollfd[entry]
      /\ client_list[node_ptr_t].sock_ptr = temp
      /\ \A n \in DOMAIN client_list : client_list[n].sock_ptr = temp => n = node_ptr_t
  BY Served DEF temp
<1> DEFINE k == node_ptr_t
           Skip(n) == IF n < k THEN n ELSE n + 1
<1>2. /\ client_list \in Seq(socket_node) /\ Len(client_list) \in Nat
      /\ DOMAIN client_list = 1 .. Len(client_list) /\ k \in 1 .. Len(client_list)
  BY <1>1, LenProperties DEF TypeOK
<1>3. /\ client_list' \in Seq(socket_node) /\ Len(client_list') = Len(client_list) - 1
      /\ \A i \in 1 .. Len(client_list) - 1 :
           client_list'[i] = IF i < k THEN client_list[i] ELSE client_list[i + 1]
  BY <1>2, Removed DEF CloseClient
<1>4. DOMAIN client_list' = 1 .. Len(client_list) - 1 BY <1>3, LenProperties
<1> HIDE DEF k
<1>5. \A n \in DOMAIN client_list' :
        Skip(n) \in DOMAIN client_list /\ Skip(n) # k /\ client_list'[n] = client_list[Skip(n)]
  BY <1>2, <1>3, <1>4
<1>6. \A m \in DOMAIN client_list : m # k => \E n \in DOMAIN client_list' : Skip(n) = m
  <2> TAKE m \in DOMAIN client_list
  <2>1. CASE m < k
    <3>1. m \in DOMAIN client_list' /\ Skip(m) = m BY <1>2, <1>4, <2>1
    <3> QED BY <3>1
  <2>2. CASE m > k
    <3>1. m - 1 \in DOMAIN client_list' /\ Skip(m - 1) = m BY <1>2, <1>4, <2>2
    <3> QED BY <3>1
  <2> QED BY <1>2, <2>1, <2>2
<1>7. \A m, n \in DOMAIN client_list' : Skip(m) = Skip(n) => m = n BY <1>2, <1>4
<1> HIDE DEF Skip
<1>8. /\ k \in DOMAIN client_list /\ client_list[k].fd = pollfd[entry] /\ client_list[k].sock_ptr = temp
      /\ \A n \in DOMAIN client_list : client_list[n].sock_ptr = temp => n = k
  BY <1>1 DEF k
<1>9. /\ pollfd' = [pollfd EXCEPT ![entry] = NoFd] /\ pollfd' \in Seq(Fd \cup {NoFd})
      /\ DOMAIN pollfd' = DOMAIN pollfd
  <2>1. pollfd' = [pollfd EXCEPT ![entry] = NoFd] BY DEF CloseClient
  <2>2. entry \in 1 .. Len(pollfd) /\ pollfd \in Seq(Fd \cup {NoFd}) BY <1>1, LenProperties DEF TypeOK
  <2> QED BY <2>1, <2>2, ExceptSeq
<1>10. /\ fd' \in [Client -> Fd \cup {NoFd}]
       /\ \A c \in Client : fd'[c] = IF c = temp /\ peer[c] # "reset" THEN NoFd ELSE fd[c]
  BY <1>1 DEF CloseClient, tcp_close, TypeOK
<1>11. \A c \in Client : Listed(c)' <=> Listed(c) /\ c # temp
  <2> TAKE c \in Client
  <2>1. Listed(c)' => Listed(c) /\ c # temp BY <1>5, <1>8 DEF Listed
  <2>2. Listed(c) /\ c # temp => Listed(c)'
    <3> SUFFICES ASSUME NEW m \in DOMAIN client_list, client_list[m].sock_ptr = c, c # temp
                 PROVE  Listed(c)'
      BY DEF Listed
    <3>1. PICK n \in DOMAIN client_list' : Skip(n) = m BY <1>6, <1>8
    <3> QED BY <1>5, <3>1 DEF Listed
  <2> QED BY <2>1, <2>2
<1>12. Nodes'
  <2>1. \A m, n \in DOMAIN client_list' : client_list'[m].fd = client_list'[n].fd => m = n
    BY <1>5, <1>7 DEF Nodes
  <2>2. \A m, n \in DOMAIN pollfd' : pollfd'[m] = pollfd'[n] /\ pollfd'[m] # NoFd => m = n
    BY <1>1, <1>9 DEF Nodes
  <2>3. {client_list'[n].fd : n \in DOMAIN client_list'}
          = {client_list[n].fd : n \in DOMAIN client_list} \ {pollfd[entry]}
    <3>1. \A n \in DOMAIN client_list' :
            client_list'[n].fd \in {client_list[m].fd : m \in DOMAIN client_list} \ {pollfd[entry]}
      BY <1>5, <1>8 DEF Nodes
    <3>2. \A m \in DOMAIN client_list : client_list[m].fd # pollfd[entry] =>
            \E n \in DOMAIN client_list' : client_list'[n].fd = client_list[m].fd
      BY <1>5, <1>6, <1>8
    <3> QED BY <3>1, <3>2
  <2>4. {pollfd'[n] : n \in DOMAIN pollfd'} \ {NoFd}
          = ({pollfd[n] : n \in DOMAIN pollfd} \ {NoFd}) \ {pollfd[entry]}
    BY <1>1, <1>9 DEF Nodes
  <2>5. \A n \in DOMAIN client_list' : fd'[client_list'[n].sock_ptr] = client_list'[n].fd
    <3> TAKE n \in DOMAIN client_list'
    <3>1. client_list[Skip(n)] \in socket_node BY <1>2, <1>5, ElementOfSeq
    <3>2. client_list'[n].sock_ptr \in Client /\ client_list'[n].sock_ptr # temp
      BY <1>5, <1>8, <3>1 DEF socket_node
    <3> QED BY <1>5, <1>10, <3>2 DEF Nodes
  <2> QED BY <2>1, <2>2, <2>3, <2>4, <2>5 DEF Nodes
<1> QED BY <1>1, <1>3, <1>5, <1>8, <1>9, <1>10, <1>11, <1>12 DEF Listed

LEMMA ExpireInv == Base /\ Expire => Base'
<1> SUFFICES ASSUME Base, Expire PROVE Base' OBVIOUS
<1> USE DEF Base
<1>1. /\ pc = "expire" /\ pc' = "serve" /\ revents' = revents \ {entry}
      /\ UNCHANGED <<waited, data, peer, backlog, sent, got, age, inserted>>
  BY DEF Expire
<1>2. CASE UNCHANGED <<fd, log, lists>>
  <2>1. TypeOK' BY <1>1, <1>2 DEF TypeOK, lists
  <2>2. Round' BY <1>1, <1>2 DEF Round, Field, lists
  <2> QED BY <1>1, <1>2, <2>1, <2>2, Moves DEF net, out
<1>3. CASE CloseClient
  <2>1. /\ client_list' \in Seq(socket_node) /\ Nodes'
        /\ pollfd' \in Seq(Fd \cup {NoFd}) /\ DOMAIN pollfd' = DOMAIN pollfd
        /\ \A n \in DOMAIN pollfd : n # entry => pollfd'[n] = pollfd[n]
        /\ fd' \in [Client -> Fd \cup {NoFd}]
        /\ \A c \in Client : fd'[c] = IF c = temp /\ peer[c] # "reset" THEN NoFd ELSE fd[c]
        /\ \A c \in Client : Listed(c)' <=> Listed(c) /\ c # temp
        /\ \A n \in DOMAIN client_list' : \E m \in DOMAIN client_list :
             client_list'[n] = client_list[m] /\ client_list[m].sock_ptr # temp
        /\ Listed(temp) /\ temp \in Client
    BY <1>1, <1>3, ClosedFacts
  <2>2. /\ log' \in [Client -> Seq({"opened", "closed"})]
        /\ \A c \in Client : log'[c] = IF c = temp THEN Append(log[c], "closed") ELSE log[c]
    <3>1. \A c \in Client : Append(log[c], "closed") \in Seq({"opened", "closed"})
      BY AppendProperties DEF TypeOK
    <3> QED BY <1>3, <2>1, <3>1 DEF CloseClient, TypeOK
  <2>3. TypeOK' BY <1>1, <2>1, <2>2 DEF TypeOK
  <2>4. Bounded' /\ OwnFd' BY <1>1, <2>1 DEF Bounded, OwnFd
  <2>5. \A c : Waiting(c)' <=> Waiting(c) BY <1>1 DEF Waiting
  <2>6. Queued' BY <1>1, <2>5 DEF Queued
  <2>7. Unaccepted'
    <3> SUFFICES ASSUME NEW c \in Client, peer[c] = "none" \/ Waiting(c)
                 PROVE  fd'[c] = NoFd /\ ~Listed(c)' /\ inserted[c] = <<>> /\ log'[c] = <<>>
      BY <1>1, <2>5 DEF Unaccepted
    <3>1. fd[c] = NoFd /\ ~Listed(c) /\ inserted[c] = <<>> /\ log[c] = <<>> /\ c # temp
      BY <2>1 DEF Unaccepted
    <3> QED BY <2>1, <2>2, <3>1
  <2>8. Round'
    <3>1. \A n \in revents' : n \in DOMAIN pollfd /\ n # entry /\ pollfd[n] # NoFd
      BY <1>1 DEF Round, TypeOK
    <3> QED BY <1>1, <2>1, <3>1 DEF Round, Field
  <2>9. Flags'
    <3> SUFFICES ASSUME NEW n \in DOMAIN client_list'
                 PROVE  client_list'[n].if_log_to_fifo <=> inserted[client_list'[n].sock_ptr] # <<>>
      BY <1>1 DEF Flags
    <3>1. PICK m \in DOMAIN client_list : client_list'[n] = client_list[m] BY <2>1
    <3> QED BY <3>1 DEF Flags
  <2>10. Told'
    <3>1. peer[temp] # "none" /\ ~Waiting(temp) BY <2>1 DEF Unaccepted
    <3>2. \A c \in Client : Opened(c)' = Opened(c) BY <1>1 DEF Opened
    <3>3. \A c \in Client : c # temp => (Over(c)' <=> Over(c)) /\ (Lost(c)' <=> Lost(c)) /\ log'[c] = log[c]
      BY <1>1, <2>1, <2>2, <2>5 DEF Over, Lost
    <3>4. \A c \in Client : c = temp => Over(c)' /\ (Lost(c)' => peer[c] = "reset")
      BY <1>1, <2>1, <2>5, <3>1 DEF Over, Lost
    <3>5. log[temp] = Opened(temp) \o <<>> BY <1>1, <2>1 DEF Told, Over
    <3>6. \A c \in Client : c = temp => log'[c] = Opened(c) \o <<"closed">>
      <4>1. Append(<<>> \o <<>>, "closed") = <<>> \o <<"closed">> OBVIOUS
      <4>2. Append(<<"opened">> \o <<>>, "closed") = <<"opened">> \o <<"closed">> OBVIOUS
      <4> QED BY <2>2, <3>5, <4>1, <4>2 DEF Opened
    <3>7. \A c \in Client : log'[c] = Opened(c)' \o (IF Over(c)' THEN <<"closed">> ELSE <<>>)
      <4> TAKE c \in Client
      <4>1. CASE c = temp BY <3>2, <3>4, <3>6, <4>1
      <4>2. CASE c # temp BY <1>1, <3>2, <3>3, <4>2 DEF Told
      <4> QED BY <4>1, <4>2
    <3>8. \A c \in Client : Lost(c)' => peer[c] = "reset" BY <1>1, <3>3, <3>4 DEF Told
    <3> QED BY <1>1, <3>7, <3>8 DEF Told
  <2> QED BY <2>1, <2>3, <2>4, <2>6, <2>7, <2>8, <2>9, <2>10
<1> QED BY <1>2, <1>3 DEF Expire

------------------------------------------------------------------------------
(* The sensors, and time *)

LEMMA ConnectInv == ASSUME NEW c \in Client PROVE Base /\ Connect(c) => Base'
<1> SUFFICES ASSUME Base, Connect(c) PROVE Base' OBVIOUS
<1> USE DEF Base
<1>1. /\ peer[c] = "none" /\ pc \notin {"done", "failed"} /\ peer' = [peer EXCEPT ![c] = "up"]
      /\ backlog' = Append(backlog, c)
      /\ UNCHANGED <<pc, revents, waited, pollfd, client_list, data, fd, sent, got, age, inserted, log>>
  BY DEF Connect, loop, lists, out
<1>2. /\ backlog \in Seq(Client) /\ Len(backlog) \in Nat /\ DOMAIN backlog = 1 .. Len(backlog)
      /\ backlog' \in Seq(Client) /\ DOMAIN backlog' = 1 .. Len(backlog) + 1
      /\ backlog'[Len(backlog) + 1] = c /\ backlog' # <<>>
      /\ \A i \in 1 .. Len(backlog) : backlog'[i] = backlog[i]
  <2>1. backlog \in Seq(Client) /\ Len(backlog) \in Nat /\ DOMAIN backlog = 1 .. Len(backlog)
    BY LenProperties DEF TypeOK
  <2>2. /\ backlog' \in Seq(Client) /\ Len(backlog') = Len(backlog) + 1 /\ backlog' # <<>>
        /\ backlog'[Len(backlog) + 1] = c
        /\ \A i \in 1 .. Len(backlog) : backlog'[i] = backlog[i]
    BY <1>1, <2>1, AppendProperties
  <2>3. DOMAIN backlog' = 1 .. Len(backlog) + 1 BY <2>2, LenProperties
  <2> QED BY <2>1, <2>2, <2>3
<1>3. \A d \in Client : (Listed(d)' <=> Listed(d)) /\ (Waiting(d)' <=> Waiting(d) \/ d = c)
  BY <1>1, <1>2 DEF Listed, Waiting
<1>4. TypeOK' BY <1>1, <1>2 DEF TypeOK
<1>5. Bounded' /\ OwnFd' BY <1>1 DEF Bounded, OwnFd
<1>10. Flags' BY <1>1 DEF Flags
<1>6. Nodes'
  <2>1. Nodes /\ client_list' = client_list /\ pollfd' = pollfd /\ fd' = fd BY <1>1
  <2>2. {client_list'[n].fd : n \in DOMAIN client_list'} = {client_list[n].fd : n \in DOMAIN client_list}
    BY <2>1
  <2> QED BY <2>1, <2>2 DEF Nodes
<1>11. Round' BY <1>1 DEF Round
<1>7. Queued'
  <2>1. \A n \in DOMAIN backlog : backlog[n] # c BY <1>1 DEF Queued, Waiting
  <2>2. \A m, n \in DOMAIN backlog' : backlog'[m] = backlog'[n] => m = n
    BY <1>2, <2>1 DEF Queued
  <2> QED BY <1>1, <1>2, <1>3, <2>2 DEF Queued, TypeOK
<1>8. Unaccepted' BY <1>1, <1>3 DEF Unaccepted, TypeOK
<1>9. Told'
  <2>1. \A d \in Client : (Over(d)' <=> Over(d)) /\ (Lost(d)' <=> Lost(d)) /\ Opened(d)' = Opened(d)
    BY <1>1, <1>3 DEF Over, Lost, Opened, TypeOK
  <2>2. ~Lost(c) BY <1>1 DEF Unaccepted, Lost
  <2> QED BY <1>1, <2>1, <2>2 DEF Told, TypeOK
<1> QED BY <1>4, <1>5, <1>6, <1>7, <1>8, <1>9, <1>10, <1>11

LEMMA SendType ==
  ASSUME TypeOK, Bounded, NEW c \in Client, Send(c)
  PROVE  /\ sent' \in [Client -> Nat] /\ Bounded'
         /\ \A d \in Client : got[d] <= sent'[d] /\ sent[d] <= sent'[d]
         /\ age' \in [Client -> [1 .. MaxRecords -> Age]]
<1>1. sent[c] < Total /\ sent' = [sent EXCEPT ![c] = @ + 1] /\ Total \in Nat /\ sent[c] \in Nat
  BY TotalNat DEF Send, Total, TypeOK
<1>2. sent' \in [Client -> Nat] /\ Bounded' BY <1>1 DEF Bounded, TypeOK
<1>3. \A d \in Client : got[d] <= sent'[d] /\ sent[d] <= sent'[d] BY <1>1 DEF TypeOK
<1>4. age' \in [Client -> [1 .. MaxRecords -> Age]]
  <2>1. CASE UNCHANGED age BY <2>1 DEF TypeOK
  <2>2. ASSUME NEW a \in Age, NEW i, age' = [age EXCEPT ![c][i] = a]
        PROVE  age' \in [Client -> [1 .. MaxRecords -> Age]]
    BY <2>2 DEF TypeOK
  <2> QED BY <2>1, <2>2 DEF Send
<1> QED BY <1>2, <1>3, <1>4

LEMMA SensorInv == ASSUME NEW c \in Client PROVE Base /\ (Send(c) \/ Close(c) \/ Reset(c)) => Base'
<1> SUFFICES ASSUME Base, Send(c) \/ Close(c) \/ Reset(c) PROVE Base' OBVIOUS
<1> USE DEF Base
<1>1. /\ peer[c] = "up"
      /\ peer' = peer \/ peer' = [peer EXCEPT ![c] = "closed"] \/ peer' = [peer EXCEPT ![c] = "reset"]
      /\ UNCHANGED <<pc, revents, waited, pollfd, client_list, data, backlog, fd, got, inserted, log>>
  BY DEF Send, Close, Reset, Connected, loop, lists, out
<1>2. \A d \in Client : (Listed(d)' <=> Listed(d)) /\ (Waiting(d)' <=> Waiting(d))
  BY <1>1 DEF Listed, Waiting
<1>3. /\ peer' \in [Client -> {"none", "up", "closed", "reset"}]
      /\ \A d \in Client : (peer'[d] = "none" <=> peer[d] = "none") /\ (d # c => peer'[d] = peer[d])
  BY <1>1 DEF TypeOK
<1>4. /\ sent' \in [Client -> Nat] /\ Bounded'
      /\ \A d \in Client : got[d] <= sent'[d]
      /\ age' \in [Client -> [1 .. MaxRecords -> Age]]
  <2>1. CASE Send(c) BY <2>1, SendType
  <2>2. CASE Close(c) BY <2>2 DEF Close, TypeOK, Bounded
  <2>3. CASE Reset(c)
    <3>1. sent' = [sent EXCEPT ![c] = got[c]] /\ age' = age BY <2>3 DEF Reset
    <3>2. Total \in Nat BY TotalNat
    <3> QED BY <3>1, <3>2 DEF TypeOK, Bounded
  <2> QED BY <2>1, <2>2, <2>3
<1>5. TypeOK' BY <1>1, <1>3, <1>4 DEF TypeOK
<1>6. OwnFd' /\ Flags' BY <1>1 DEF OwnFd, Flags
<1>7. Nodes' /\ Round' BY <1>1 DEF Nodes, Round
<1>8. Queued' /\ Unaccepted' BY <1>1, <1>2, <1>3 DEF Queued, Unaccepted
<1>9. Told'
  <2>1. \A d \in Client : (Over(d)' <=> Over(d)) /\ (Lost(d)' <=> Lost(d)) /\ Opened(d)' = Opened(d)
    BY <1>1, <1>2, <1>3 DEF Over, Lost, Opened
  <2>2. pc # "done" => ~Lost(c) BY <1>1 DEF Told
  <2> QED BY <1>1, <1>3, <2>1, <2>2 DEF Told
<1> QED BY <1>4, <1>5, <1>6, <1>7, <1>8, <1>9

LEMMA OlderType == \A a \in Age : Older(a) \in Age
BY ConnMgrAssumption DEF Older, Age

LEMMA TickFacts ==
  ASSUME TypeOK, Tick
  PROVE  /\ client_list' \in Seq(socket_node) /\ DOMAIN client_list' = DOMAIN client_list
         /\ \A n \in DOMAIN client_list :
              /\ client_list'[n].fd = client_list[n].fd
              /\ client_list'[n].sock_ptr = client_list[n].sock_ptr
              /\ client_list'[n].age = Older(client_list[n].age)
              /\ client_list'[n].if_log_to_fifo = client_list[n].if_log_to_fifo
<1>1. /\ client_list \in Seq(socket_node) /\ Len(client_list) \in Nat
      /\ DOMAIN client_list = 1 .. Len(client_list)
  BY LenProperties DEF TypeOK
<1>2. client_list' = [n \in DOMAIN client_list |->
                        [client_list[n] EXCEPT !.age = Older(client_list[n].age)]]
  BY DEF Tick
<1>3. \A n \in DOMAIN client_list : client_list[n] \in socket_node /\ Older(client_list[n].age) \in Age
  BY NodeTypes, OlderType
<1>4. \A n \in DOMAIN client_list :
        /\ client_list'[n] \in socket_node
        /\ client_list'[n].fd = client_list[n].fd
        /\ client_list'[n].sock_ptr = client_list[n].sock_ptr
        /\ client_list'[n].age = Older(client_list[n].age)
        /\ client_list'[n].if_log_to_fifo = client_list[n].if_log_to_fifo
  BY <1>2, <1>3 DEF socket_node
<1>5. client_list' \in [1 .. Len(client_list) -> socket_node] BY <1>1, <1>2, <1>4
<1> QED BY <1>1, <1>2, <1>4, <1>5, SeqDef

LEMMA TickInv == Base /\ Tick => Base'
<1> SUFFICES ASSUME Base, Tick PROVE Base' OBVIOUS
<1> USE DEF Base
<1>1. /\ client_list' \in Seq(socket_node) /\ DOMAIN client_list' = DOMAIN client_list
      /\ \A n \in DOMAIN client_list :
           /\ client_list'[n].fd = client_list[n].fd
           /\ client_list'[n].sock_ptr = client_list[n].sock_ptr
           /\ client_list'[n].if_log_to_fifo = client_list[n].if_log_to_fifo
  BY TickFacts
<1>2. /\ UNCHANGED <<pc, revents, pollfd, data, peer, backlog, fd, sent, got, inserted, log>>
      /\ waited' = IF pc = "poll" THEN Older(waited) ELSE waited
      /\ age' = [c \in Client |-> [r \in 1 .. MaxRecords |-> Older(age[c][r])]]
  BY DEF Tick, out
<1>3. (Nodes => Nodes') /\ \A c : (Listed(c)' <=> Listed(c)) /\ (Waiting(c)' <=> Waiting(c))
  BY <1>1, <1>2, SameNodes
<1>4. TypeOK'
  <2>1. waited' \in 0 .. TIMEOUT BY <1>2, ConnMgrAssumption DEF TypeOK, Older
  <2>2. \A c \in Client, r \in 1 .. MaxRecords : age[c][r] \in Age BY DEF TypeOK
  <2>3. age' \in [Client -> [1 .. MaxRecords -> Age]] BY <1>2, <2>2, OlderType
  <2> QED BY <1>1, <1>2, <2>1, <2>3 DEF TypeOK
<1>5. Bounded' /\ OwnFd' /\ Round' BY <1>2 DEF Bounded, OwnFd, Round
<1>6. Flags' BY <1>1, <1>2 DEF Flags
<1>7. Queued' /\ Unaccepted' BY <1>2, <1>3 DEF Queued, Unaccepted
<1>8. Told' BY <1>2, <1>3 DEF Told, Over, Lost, Opened
<1> QED BY <1>3, <1>4, <1>5, <1>6, <1>7, <1>8

------------------------------------------------------------------------------
LEMMA BaseStep == Base /\ [Next]_vars => Base'
<1> SUFFICES ASSUME Base, [Next]_vars PROVE Base' OBVIOUS
<1>1. CASE Connmgr
  BY <1>1, LoopInv, AcceptInv, ReceiveFieldInv, ReceiveTsInv, ExpireInv, FreeInv DEF Connmgr
<1>2. CASE Fail BY <1>2, LoopInv
<1>3. CASE Tick BY <1>3, TickInv
<1>4. ASSUME NEW c \in Client, Sensor(c) PROVE Base' BY <1>4, ConnectInv, SensorInv DEF Sensor
<1>5. CASE UNCHANGED vars
  <2> USE <1>5 DEF Base, vars, loop, lists, net, out
  <2>1. TypeOK' BY DEF TypeOK
  <2>2. \A c : (Listed(c)' <=> Listed(c)) /\ (Waiting(c)' <=> Waiting(c)) BY DEF Listed, Waiting
  <2>3. Bounded' /\ OwnFd' /\ Round' BY DEF Bounded, OwnFd, Round
  <2>4. Nodes' BY DEF Nodes
  <2>5. Flags' BY DEF Flags
  <2>6. Queued' /\ Unaccepted' BY <2>2 DEF Queued, Unaccepted
  <2>7. Told' BY <2>2 DEF Told, Over, Lost, Opened
  <2> QED BY <2>1, <2>3, <2>4, <2>5, <2>6, <2>7
<1> QED BY <1>1, <1>2, <1>3, <1>4, <1>5 DEF Next

(* The invariant above holds in every reachable state. *)
THEOREM Invariant == Spec => []Base
BY BaseInit, BaseStep, PTL DEF Spec

(* poll() watches exactly the descriptors of the nodes, and each is that of *)
(* the node's own connection: the three assertions of connmgr.c hold.       *)
THEOREM NoMixUp == Spec => []ClientsMatchPoll
<1>1. Base => ClientsMatchPoll BY DEF Base, Nodes, ClientsMatchPoll
<1> QED BY <1>1, Invariant, PTL

(* A descriptor no node refers to was lost by tcp_close to a reset peer.    *)
THEOREM LeaksExplained == Spec => []OnlyResetLeaks
<1>1. Base => OnlyResetLeaks BY DEF Base, Told, Lost, Listed, Live, OnlyResetLeaks
<1> QED BY <1>1, Invariant, PTL

(* The log tells of each connection at most once that it was opened, at     *)
(* most once that it was closed, in this order, and exactly when it was.    *)
THEOREM LogIsRight == Spec => []LogTellsOnce
<1>1. Base => LogTellsOnce BY DEF Base, Told, Over, Opened, Listed, Live, LogTellsOnce
<1> QED BY <1>1, Invariant, PTL

------------------------------------------------------------------------------
(* Connections of which no receive returns only a part of a field           *)

(* The step receives nothing of c, or a field as a whole. *)
Undivided(c) == got'[c] \in {got[c], got[c] + FieldSize}

(* The connection has ended, and everything it has sent was received. *)
Ended(c) == got[c] = sent[c] /\ peer[c] \in {"closed", "reset"}

(* How many fields of its next record connmgr has in hand. *)
InHand(c) == IF pc \in {"value", "ts"} /\ c = temp THEN Position[pc] ELSE 0

(* What was received of c are its records and what is in hand, but for the  *)
(* end of the connection, where part of a record may be lost.               *)
Stream(c) ==
  /\ (3 * Len(inserted[c])) * FieldSize <= got[c]
  /\ Ended(c) \/ pc = "failed" \/ got[c] = (3 * Len(inserted[c]) + InHand(c)) * FieldSize

(* The fields in hand are those of the next record of c. *)
Hand(c) ==
  pc \in {"value", "ts"} /\ temp = c /\ ~Ended(c) =>
    /\ data["id"] = FieldOf(c, Len(inserted[c]) + 1, "id")
    /\ pc = "ts" => data["value"] = FieldOf(c, Len(inserted[c]) + 1, "value")

OwnRecords(c) ==
  \A r \in DOMAIN inserted[c] : inserted[c][r] = [f \in Field |-> FieldOf(c, r, f)]

(* Its node has the timestamp of the last record inserted. *)
LastAge(c) ==
  \A n \in DOMAIN client_list :
    client_list[n].sock_ptr = c /\ inserted[c] # <<>> =>
      client_list[n].age = age[c][Len(inserted[c])]

Whole(c) == Stream(c) /\ Hand(c) /\ OwnRecords(c) /\ LastAge(c)

(* The field that begins behind part k of c. *)
FieldBehind(c, k) == [p \in 1 .. FieldSize |-> <<c, k + p>>]

LEMMA Units ==
  \A F \in Nat \ {0}, a, b \in Nat :
    /\ a * F \in Nat /\ (a + 1) * F = a * F + F
    /\ a * F <= b * F => a <= b
    /\ a * F = b * F => a = b
<1> SUFFICES ASSUME NEW F \in Nat \ {0}, NEW a \in Nat, NEW b \in Nat
             PROVE  /\ a * F \in Nat /\ (a + 1) * F = a * F + F
                    /\ a * F <= b * F => a <= b
                    /\ a * F = b * F => a = b
  OBVIOUS
<1>1. \A x, y \in Nat : x * y \in Nat OBVIOUS
<1>2. ASSUME NEW x \in Nat, NEW y \in Nat, x * F <= y * F PROVE x <= y
  <2> SUFFICES ASSUME y < x PROVE FALSE OBVIOUS
  <2>1. PICK d \in Nat : x = y + 1 + d
    <3>1. x - y - 1 \in Nat /\ x = y + 1 + (x - y - 1) BY <1>2
    <3> QED BY <3>1
  <2>2. x * F = y * F + F + d * F BY <2>1
  <2>3. d * F \in Nat /\ y * F \in Nat BY <1>1
  <2> QED BY <1>2, <2>2, <2>3
<1>3. a * F = b * F => a * F <= b * F /\ b * F <= a * F BY <1>1
<1>4. (a + 1) * F = a * F + F OBVIOUS
<1> QED BY <1>1, <1>2, <1>3, <1>4

LEMMA Divided ==
  \A a \in Nat, D \in Nat \ {0} : a % D = 0 => a \div D \in Nat /\ a = (a \div D) * D
<1> SUFFICES ASSUME NEW a \in Nat, NEW D \in Nat \ {0}, a % D = 0
             PROVE  a \div D \in Nat /\ a = (a \div D) * D
  OBVIOUS
<1>1. a \div D \in Int /\ a = D * (a \div D) + (a % D) OBVIOUS
<1>2. 0 <= a \div D OBVIOUS
<1> QED BY <1>1, <1>2

LEMMA FieldIs ==
  ASSUME NEW c, NEW k \in Nat
  PROVE  /\ FieldOf(c, k + 1, "id") = FieldBehind(c, (3 * k) * FieldSize)
         /\ FieldOf(c, k + 1, "value") = FieldBehind(c, (3 * k + 1) * FieldSize)
         /\ FieldOf(c, k + 1, "ts") = FieldBehind(c, (3 * k + 2) * FieldSize)
<1>1. (k + 1) - 1 = k /\ 3 * k + 0 = 3 * k OBVIOUS
<1> QED BY <1>1 DEF FieldOf, Position, FieldBehind

LEMMA FieldReceived ==
  ASSUME TypeOK, NEW c \in Client, temp = c, NEW f \in Field, HasData, Received(f), Undivided(c)
  PROVE  /\ data' = [data EXCEPT ![f] = FieldBehind(c, got[c])]
         /\ got' = [got EXCEPT ![c] = got[c] + FieldSize]
<1> DEFINE n == Min({FieldSize, sent[c] - got[c]})
<1>1. /\ got[c] \in Nat /\ sent[c] \in Nat /\ sent[c] - got[c] \in Nat \ {0}
      /\ FieldSize \in Nat \ {0}
  BY ConnMgrAssumption DEF HasData, TypeOK
<1>2. n \in Nat \ {0}
  <2>1. {FieldSize, sent[c] - got[c]} \in SUBSET Nat /\ {FieldSize, sent[c] - got[c]} # {}
    BY <1>1
  <2>2. n \in {FieldSize, sent[c] - got[c]} BY <2>1, MinNat
  <2> QED BY <1>1, <2>2
<1>3. /\ data' = [data EXCEPT ![f] =
                   [p \in 1 .. FieldSize |-> IF p <= n THEN <<c, got[c] + p>> ELSE @[p]]]
      /\ got' = [got EXCEPT ![c] = @ + n]
  BY DEF Received
<1> HIDE DEF n
<1>4. n = FieldSize
  <2>1. got'[c] = got[c] + n BY <1>3 DEF TypeOK
  <2> QED BY <1>1, <1>2, <2>1 DEF Undivided
<1>5. [p \in 1 .. FieldSize |-> IF p <= n THEN <<c, got[c] + p>> ELSE data[f][p]]
        = FieldBehind(c, got[c])
  BY <1>1, <1>4 DEF FieldBehind
<1> QED BY <1>3, <1>4, <1>5

(* A timestamp stands for the record it was sent in, and for no other.      *)
LEMMA AgeOfRecord ==
  ASSUME NEW r \in 1 .. MaxRecords
  PROVE  AgeOf(FieldOf(temp, r, "ts")) = {age[temp][r]}
<1> DEFINE rs == {s \in 1 .. MaxRecords : FieldOf(temp, r, "ts") = FieldOf(temp, s, "ts")}
           at(s) == 3 * (s - 1) + 2
<1>1. FieldSize \in Nat \ {0} /\ MaxRecords \in Nat BY ConnMgrAssumption
<1>2. \A s \in 1 .. MaxRecords : /\ at(s) \in Nat
                                 /\ FieldOf(temp, s, "ts")[1][2] = at(s) * FieldSize + 1
  BY <1>1 DEF FieldOf, Position
<1>3. \A s \in 1 .. MaxRecords : at(s) * FieldSize \in Nat BY <1>1, <1>2, Units
<1>4. ASSUME NEW s \in 1 .. MaxRecords, FieldOf(temp, r, "ts") = FieldOf(temp, s, "ts")
      PROVE  r = s
  <2>1. at(r) * FieldSize + 1 = at(s) * FieldSize + 1 BY <1>2, <1>4
  <2>2. at(r) * FieldSize = at(s) * FieldSize BY <1>3, <2>1
  <2>3. at(r) = at(s) BY <1>1, <1>2, <2>2, Units
  <2> QED BY <1>1, <2>3
<1>5. rs = {r} BY <1>4
<1> QED BY <1>5 DEF AgeOf

LEMMA RecordBound ==
  ASSUME TypeOK, Bounded, NEW c \in Client, Stream(c)
  PROVE  /\ Len(inserted[c]) \in Nat /\ Len(inserted[c]) <= MaxRecords
         /\ (3 * Len(inserted[c])) * FieldSize <= got[c] /\ got[c] <= sent[c]
         /\ sent[c] <= (3 * MaxRecords) * FieldSize
         /\ got[c] \in Nat /\ sent[c] \in Nat /\ MaxRecords \in Nat /\ FieldSize \in Nat \ {0}
         /\ inserted[c] # <<>> => Len(inserted[c]) \in 1 .. MaxRecords
<1>1. /\ inserted[c] \in Seq(Record) /\ got[c] \in Nat /\ sent[c] \in Nat /\ MaxRecords \in Nat
      /\ FieldSize \in Nat \ {0}
  BY ConnMgrAssumption DEF TypeOK
<1>2. Len(inserted[c]) \in Nat /\ (inserted[c] # <<>> => Len(inserted[c]) # 0)
  BY <1>1, LenProperties, EmptySeq
<1>3. Total = (3 * MaxRecords) * FieldSize BY <1>1 DEF Total
<1>4. (3 * Len(inserted[c])) * FieldSize <= got[c] /\ got[c] <= sent[c] /\ sent[c] <= Total
  BY DEF Stream, TypeOK, Bounded
<1>5. 3 * Len(inserted[c]) <= 3 * MaxRecords
  <2>1. 3 * Len(inserted[c]) \in Nat /\ 3 * MaxRecords \in Nat BY <1>1, <1>2
  <2>2. (3 * Len(inserted[c])) * FieldSize \in Nat /\ (3 * MaxRecords) * FieldSize \in Nat
    BY <1>1, <2>1, Units
  <2>3. (3 * Len(inserted[c])) * FieldSize <= (3 * MaxRecords) * FieldSize
    BY <1>1, <1>3, <1>4, <2>2
  <2> QED BY <1>1, <2>1, <2>3, Units
<1> QED BY <1>1, <1>2, <1>3, <1>4, <1>5

LEMMA WholeInit == Init => \A c \in Client : Whole(c)
<1> SUFFICES ASSUME Init, NEW c \in Client PROVE Whole(c) OBVIOUS
<1>1. Len(<<>>) = 0 /\ DOMAIN <<>> = {} BY EmptySeq
<1>2. (3 * 0) * FieldSize = 0 /\ (3 * 0 + 0) * FieldSize = 0 BY ConnMgrAssumption
<1>3. inserted[c] = <<>> /\ got[c] = 0 /\ pc = "poll" /\ DOMAIN client_list = {}
  BY <1>1 DEF Init
<1>4. InHand(c) = 0 BY <1>3 DEF InHand
<1>5. Stream(c) BY <1>1, <1>2, <1>3, <1>4 DEF Stream
<1>6. Hand(c) BY <1>3 DEF Hand
<1>7. OwnRecords(c) BY <1>1, <1>3 DEF OwnRecords
<1>8. LastAge(c) BY <1>3 DEF LastAge
<1> QED BY <1>5, <1>6, <1>7, <1>8 DEF Whole

(* Steps that neither receive nor send. *)
LEMMA WholeMoves ==
  ASSUME NEW c \in Client, Whole(c),
         UNCHANGED <<client_list, data, peer, sent, got, age, inserted>>,
         pc' = "failed" \/ (pc \notin {"value", "ts", "failed"} /\ pc' \notin {"value", "ts"})
  PROVE  Whole(c)'
<1> USE DEF Whole
<1>1. Stream(c)' BY DEF Stream, InHand, Ended
<1>2. Hand(c)' BY DEF Hand
<1>3. OwnRecords(c)' BY DEF OwnRecords, FieldOf
<1>4. LastAge(c)' BY DEF LastAge
<1> QED BY <1>1, <1>2, <1>3, <1>4

LEMMA WholeLoop ==
  ASSUME NEW c \in Client, Whole(c),
         PollReturns \/ PollTimeout \/ ServeNext \/ ServeEnd \/ Fail
  PROVE  Whole(c)'
BY WholeMoves
   DEF PollReturns, PollTimeout, ServeNext, ServeEnd, Fail, lists, net, out

LEMMA WholeFree ==
  ASSUME NEW c \in Client, Whole(c), connmgr_free
  PROVE  Whole(c)'
<1> USE DEF Whole, connmgr_free, net, out
<1>1. DOMAIN <<>> = {} OBVIOUS
<1>2. Stream(c)' BY DEF Stream, InHand, Ended
<1>3. Hand(c)' BY DEF Hand
<1>4. OwnRecords(c)' BY DEF OwnRecords, FieldOf
<1>5. LastAge(c)' BY <1>1 DEF LastAge
<1> QED BY <1>2, <1>3, <1>4, <1>5

LEMMA WholeAccept ==
  ASSUME Base, NEW c \in Client, Whole(c), Accept
  PROVE  Whole(c)'
<1> USE DEF Whole
<1>1. /\ pc = "accept" /\ pc' = "poll" /\ backlog # <<>>
      /\ UNCHANGED <<data, peer, sent, got, age, inserted>>
      /\ client_list' = Append(client_list, [fd |-> LowestFree, sock_ptr |-> Head(backlog),
                                             age |-> TIMEOUT, if_log_to_fifo |-> FALSE])
  BY DEF Accept, out, Base, Queued
<1> DEFINE b == Head(backlog)
           node == [fd |-> LowestFree, sock_ptr |-> b, age |-> TIMEOUT, if_log_to_fifo |-> FALSE]
<1>2. b \in Client /\ Waiting(b)
  <2>1. backlog \in Seq(Client) /\ DOMAIN backlog = 1 .. Len(backlog) /\ Len(backlog) \in Nat \ {0}
        /\ b \in Client /\ b = backlog[1]
    BY <1>1, HeadTailProperties, LenProperties, EmptySeq DEF Base, TypeOK
  <2> QED BY <2>1 DEF Waiting
<1>3. inserted[b] = <<>> BY <1>2 DEF Base, Unaccepted
<1>4. /\ DOMAIN client_list' = DOMAIN client_list \cup {Len(client_list) + 1}
      /\ client_list'[Len(client_list) + 1] = node
      /\ \A n \in DOMAIN client_list : client_list'[n] = client_list[n]
  <2>0. client_list \in Seq(socket_node) /\ Len(client_list) \in Nat
        /\ DOMAIN client_list = 1 .. Len(client_list)
    BY LenProperties DEF Base, TypeOK
  <2>1. LowestFree \in Fd BY <1>2, FreeDescriptor DEF Base, TypeOK, Unaccepted
  <2>2. node \in socket_node BY <1>2, <2>1, ConnMgrAssumption DEF socket_node, Age
  <2> HIDE DEF node
  <2>3. /\ client_list' \in Seq(socket_node) /\ Len(client_list') = Len(client_list) + 1
        /\ client_list'[Len(client_list) + 1] = node
        /\ \A n \in 1 .. Len(client_list) : client_list'[n] = client_list[n]
    BY <1>1, <2>0, <2>2, AppendProperties DEF node
  <2>4. DOMAIN client_list' = 1 .. Len(client_list) + 1 BY <2>3, LenProperties, <2>0
  <2> QED BY <2>0, <2>3, <2>4
<1>5. node.sock_ptr = b OBVIOUS
<1> HIDE DEF node, b
<1>6. Stream(c)' BY <1>1 DEF Stream, InHand, Ended
<1>7. Hand(c)' BY <1>1 DEF Hand
<1>8. OwnRecords(c)' BY <1>1 DEF OwnRecords, FieldOf
<1>9. LastAge(c)' BY <1>1, <1>3, <1>4, <1>5 DEF LastAge
<1> QED BY <1>6, <1>7, <1>8, <1>9

LEMMA WholeExpire ==
  ASSUME Base, NEW c \in Client, Whole(c), Expire
  PROVE  Whole(c)'
<1>1. /\ pc = "expire" /\ pc' = "serve"
      /\ UNCHANGED <<data, peer, sent, got, age, inserted>>
  BY DEF Expire
<1>2. CASE UNCHANGED <<fd, log, lists>> BY <1>1, <1>2, WholeMoves DEF lists
<1>3. CASE CloseClient
  <2>1. \A n \in DOMAIN client_list' : \E m \in DOMAIN client_list : client_list'[n] = client_list[m]
    BY <1>1, <1>3, ClosedFacts
  <2>2. Stream(c)' BY <1>1 DEF Whole, Stream, InHand, Ended
  <2>3. Hand(c)' BY <1>1 DEF Hand
  <2>4. OwnRecords(c)' BY <1>1 DEF Whole, OwnRecords, FieldOf
  <2>5. LastAge(c)' BY <1>1, <2>1 DEF Whole, LastAge
  <2> QED BY <2>2, <2>3, <2>4, <2>5 DEF Whole
<1> QED BY <1>2, <1>3 DEF Expire

(* Who is being served does not change by what happens to the nodes' ages.  *)
LEMMA SameTemp ==
  ASSUME TypeOK, client_list' \in Seq(socket_node), DOMAIN client_list' = DOMAIN client_list,
         \A n \in DOMAIN client_list : /\ client_list'[n].fd = client_list[n].fd
                                       /\ client_list'[n].sock_ptr = client_list[n].sock_ptr,
         UNCHANGED <<pollfd, revents>>
  PROVE  node_ptr_t \in DOMAIN client_list => temp' = temp
<1> DEFINE f == pollfd[entry]
           I == {i \in DOMAIN client_list : client_list[i].fd = f}
           J == {i \in DOMAIN client_list' : client_list'[i].fd = f}
<1>1. DOMAIN client_list = 1 .. Len(client_list) /\ DOMAIN client_list' = 1 .. Len(client_list')
  BY LenProperties DEF TypeOK
<1>2. node_ptr_t = IF I # {} THEN Min(I) ELSE 0
  BY <1>1 DEF node_ptr_t, get_client_by_fd, SelectInSeq
<1>3. entry' = entry BY DEF entry
<1>4. node_ptr_t' = IF J # {} THEN Min(J) ELSE 0
  BY <1>1, <1>3 DEF node_ptr_t, get_client_by_fd, SelectInSeq
<1>5. I = J OBVIOUS
<1>6. node_ptr_t' = node_ptr_t BY <1>2, <1>4, <1>5
<1> QED BY <1>6 DEF temp

LEMMA WholeReceiveField ==
  ASSUME Base, NEW c \in Client, Whole(c), ReceiveField, Undivided(c)
  PROVE  Whole(c)'
<1> USE DEF Base, Whole
<1>1. /\ pc \in {"id", "value"} /\ pc' = IF pc = "id" THEN "value" ELSE "ts"
      /\ UNCHANGED <<revents, pollfd, client_list, peer, sent, age, inserted>>
      /\ (HasData /\ Received(pc)) \/ (AtEnd /\ UNCHANGED <<data, got>>)
  BY DEF ReceiveField, lists, out
<1>2. temp \in Client /\ temp' = temp
  <2>1. temp \in Client /\ node_ptr_t \in DOMAIN client_list BY <1>1, Served DEF Field
  <2> QED BY <1>1, <2>1, SameTemp DEF TypeOK
<1> DEFINE k == Len(inserted[c])
<1>3. OwnRecords(c)' BY <1>1 DEF OwnRecords, FieldOf
<1>4. LastAge(c)' BY <1>1 DEF LastAge
<1>5. CASE temp # c
  <2>1. got'[c] = got[c] BY <1>1, <1>2, <1>5 DEF Received, TypeOK
  <2>2. Stream(c)' BY <1>1, <1>2, <1>5, <2>1 DEF Stream, InHand, Ended
  <2>3. Hand(c)' BY <1>1, <1>2, <1>5 DEF Hand
  <2> QED BY <1>3, <1>4, <2>2, <2>3
<1>6. CASE temp = c /\ AtEnd /\ UNCHANGED <<data, got>>
  <2>1. got[c] \in Nat /\ sent[c] \in Nat /\ got[c] <= sent[c] BY DEF TypeOK
  <2>2. Ended(c) /\ Ended(c)' BY <1>1, <1>6, <2>1 DEF AtEnd, HasData, Ended
  <2>3. Stream(c)' BY <1>1, <1>6, <2>2 DEF Stream
  <2>4. Hand(c)' BY <2>2 DEF Hand
  <2> QED BY <1>3, <1>4, <2>3, <2>4
<1>7. CASE temp = c /\ HasData /\ Received(pc)
  <2>1. /\ data' = [data EXCEPT ![pc] = FieldBehind(c, got[c])]
        /\ got' = [got EXCEPT ![c] = got[c] + FieldSize]
    BY <1>1, <1>7, FieldReceived DEF Field
  <2>2. /\ k \in Nat /\ got[c] \in Nat /\ sent[c] \in Nat /\ got[c] < sent[c]
        /\ FieldSize \in Nat \ {0} /\ got'[c] = got[c] + FieldSize
        /\ (3 * k) * FieldSize <= got[c]
    BY <1>7, <2>1, RecordBound DEF HasData, TypeOK
  <2>3. ~Ended(c) BY <2>2 DEF Ended
  <2>4. /\ pc = "id" => got[c] = (3 * k) * FieldSize
        /\ pc = "value" => got[c] = (3 * k + 1) * FieldSize
    <3>1. got[c] = (3 * k + InHand(c)) * FieldSize BY <1>1, <2>3 DEF Stream
    <3>2. /\ pc = "id" => InHand(c) = 0
          /\ pc = "value" => InHand(c) = 1
      BY <1>7 DEF InHand, Position
    <3>3. 3 * k + 0 = 3 * k BY <2>2
    <3> QED BY <3>1, <3>2, <3>3
  <2>5. /\ pc = "id" => got'[c] = (3 * k + 1) * FieldSize
        /\ pc = "value" => got'[c] = (3 * k + 2) * FieldSize
    <3>1. 3 * k \in Nat /\ 3 * k + 1 \in Nat /\ (3 * k + 1) + 1 = 3 * k + 2 BY <2>2
    <3>2. /\ (3 * k + 1) * FieldSize = (3 * k) * FieldSize + FieldSize
          /\ ((3 * k + 1) + 1) * FieldSize = (3 * k + 1) * FieldSize + FieldSize
      BY <2>2, <3>1, Units
    <3> QED BY <2>2, <2>4, <3>1, <3>2
  <2>6. Stream(c)'
    <3>1. InHand(c)' = IF pc = "id" THEN 1 ELSE 2
      BY <1>1, <1>2, <1>7 DEF InHand, Position
    <3>2. inserted'[c] = inserted[c] /\ (3 * k) * FieldSize <= got'[c] BY <1>1, <2>2
    <3> HIDE DEF Whole
    <3> QED BY <1>1, <2>5, <3>1, <3>2 DEF Stream
  <2>7. /\ FieldOf(c, k + 1, "id") = FieldBehind(c, (3 * k) * FieldSize)
        /\ FieldOf(c, k + 1, "value") = FieldBehind(c, (3 * k + 1) * FieldSize)
    BY <2>2, FieldIs
  <2>8. Hand(c)'
    <3>1. pc = "id" => data'["id"] = FieldOf(c, k + 1, "id")
      BY <2>1, <2>4, <2>7 DEF TypeOK, Record, Field
    <3>2. pc = "value" => data'["value"] = FieldOf(c, k + 1, "value") /\ data'["id"] = data["id"]
      BY <2>1, <2>4, <2>7 DEF TypeOK, Record, Field
    <3>3. pc = "value" => data["id"] = FieldOf(c, k + 1, "id") BY <1>7, <2>3 DEF Hand
    <3> QED BY <1>1, <3>1, <3>2, <3>3 DEF Hand, FieldOf
  <2> QED BY <1>3, <1>4, <2>6, <2>8
<1> QED BY <1>1, <1>5, <1>6, <1>7

LEMMA WholeReceiveTs ==
  ASSUME Base, NEW c \in Client, Whole(c), ReceiveTs, Undivided(c)
  PROVE  Whole(c)'
<1> USE DEF Base, Whole
<1>1. /\ pc = "ts" /\ pc' = "expire" /\ UNCHANGED <<revents, pollfd, peer, sent, age>>
  BY DEF ReceiveTs
<1>2. /\ temp \in Client /\ node_ptr_t \in DOMAIN client_list
      /\ client_list[node_ptr_t].sock_ptr = temp
      /\ \A n \in DOMAIN client_list : client_list[n].sock_ptr = temp => n = node_ptr_t
  BY <1>1, Served DEF Field, temp
<1> DEFINE k == Len(inserted[c])
<1>3. Hand(c)' BY <1>1 DEF Hand
<1>4. InHand(c)' = 0 /\ InHand(c) = IF temp = c THEN 2 ELSE 0
  BY <1>1 DEF InHand, Position
<1>5. /\ k \in Nat /\ got[c] \in Nat /\ sent[c] \in Nat /\ got[c] <= sent[c]
      /\ (3 * k) * FieldSize <= got[c] /\ sent[c] <= (3 * MaxRecords) * FieldSize
      /\ MaxRecords \in Nat /\ FieldSize \in Nat \ {0}
  BY RecordBound
<1>6. CASE AtEnd /\ UNCHANGED <<data, got, client_list, out>>
  <2>1. temp = c => Ended(c) BY <1>5, <1>6 DEF AtEnd, HasData, Ended
  <2>2. temp # c => InHand(c)' = InHand(c) BY <1>4
  <2>3. inserted' = inserted BY <1>6 DEF out
  <2>4. Stream(c)' BY <1>1, <1>6, <2>1, <2>2, <2>3 DEF Stream, Ended
  <2>5. OwnRecords(c)' BY <2>3 DEF OwnRecords, FieldOf
  <2>6. LastAge(c)' BY <1>1, <1>6, <2>3 DEF LastAge
  <2> QED BY <1>3, <2>4, <2>5, <2>6
<1>7. ASSUME HasData, Received("ts"), NEW a \in AgeOf(data'.ts), Stored(data', a)
      PROVE  Whole(c)'
  <2>1. /\ DOMAIN client_list' = DOMAIN client_list
        /\ \A n \in DOMAIN client_list :
             /\ client_list'[n].sock_ptr = client_list[n].sock_ptr
             /\ client_list'[n].age = IF n = node_ptr_t THEN a ELSE client_list[n].age
        /\ data' \in Record
        /\ \A d \in Client : inserted'[d] = IF d = temp THEN Append(inserted[d], data') ELSE inserted[d]
    <3>1. data' \in Record BY <1>2, <1>7, ReceivedType DEF Field
    <3>2. a \in Age BY <1>2, <1>7, AgeOfType
    <3> QED BY <1>1, <1>7, <3>1, <3>2, StoredFacts
  <2>2. CASE temp # c
    <3>1. got'[c] = got[c] /\ inserted'[c] = inserted[c] BY <1>7, <2>1, <2>2 DEF Received, TypeOK
    <3>2. Stream(c)' BY <1>1, <1>4, <2>2, <3>1 DEF Stream, Ended
    <3>3. OwnRecords(c)' BY <3>1 DEF OwnRecords, FieldOf
    <3>4. LastAge(c)' BY <1>1, <1>2, <2>1, <2>2, <3>1 DEF LastAge
    <3> QED BY <1>3, <3>2, <3>3, <3>4
  <2>3. CASE temp = c
    <3>1. /\ data' = [data EXCEPT !["ts"] = FieldBehind(c, got[c])]
          /\ got' = [got EXCEPT ![c] = got[c] + FieldSize]
      BY <1>7, <2>3, FieldReceived DEF Field
    <3>2. got[c] < sent[c] /\ ~Ended(c) /\ got'[c] = got[c] + FieldSize
      BY <1>5, <1>7, <2>3, <3>1 DEF HasData, Ended, TypeOK
    <3>3. got[c] = (3 * k + 2) * FieldSize BY <1>1, <1>4, <2>3, <3>2 DEF Stream
    <3>4. k + 1 \in 1 .. MaxRecords
      <4>1. 3 * k + 2 \in Nat /\ 3 * MaxRecords \in Nat BY <1>5
      <4>2. (3 * k + 2) * FieldSize <= (3 * MaxRecords) * FieldSize
        <5>1. (3 * MaxRecords) * FieldSize \in Nat BY <1>5, <4>1, Units
        <5> QED BY <1>5, <3>2, <3>3, <5>1
      <4>3. 3 * k + 2 <= 3 * MaxRecords BY <1>5, <4>1, <4>2, Units
      <4> QED BY <1>5, <4>3
    <3>5. got'[c] = (3 * (k + 1)) * FieldSize
      <4>1. 3 * k + 2 \in Nat /\ (3 * k + 2) + 1 = 3 * (k + 1) BY <1>5
      <4>2. ((3 * k + 2) + 1) * FieldSize = (3 * k + 2) * FieldSize + FieldSize
        BY <1>5, <4>1, Units
      <4> QED BY <3>2, <3>3, <4>1, <4>2
    <3>6. data' = [f \in Field |-> FieldOf(c, k + 1, f)]
      <4>1. FieldOf(c, k + 1, "ts") = FieldBehind(c, (3 * k + 2) * FieldSize) BY <1>5, FieldIs
      <4>2. /\ data["id"] = FieldOf(c, k + 1, "id")
            /\ data["value"] = FieldOf(c, k + 1, "value")
        BY <1>1, <2>3, <3>2 DEF Hand
      <4>3. /\ data'["id"] = FieldOf(c, k + 1, "id")
            /\ data'["value"] = FieldOf(c, k + 1, "value")
            /\ data'["ts"] = FieldOf(c, k + 1, "ts")
        BY <3>1, <3>3, <4>1, <4>2 DEF Record, TypeOK, Field
      <4>4. \A f \in Field : data'[f] = FieldOf(c, k + 1, f) BY <4>3 DEF Field
      <4> QED BY <2>1, <4>4 DEF Record
    <3>7. a = age[c][k + 1]
      <4>1. data'.ts = FieldOf(temp, k + 1, "ts") BY <2>3, <3>6 DEF Field
      <4> QED BY <1>7, <2>3, <3>4, <4>1, AgeOfRecord
    <3>8. /\ Len(inserted'[c]) = k + 1 /\ DOMAIN inserted'[c] = 1 .. k + 1
          /\ inserted'[c][k + 1] = data' /\ DOMAIN inserted[c] = 1 .. k
          /\ \A r \in 1 .. k : inserted'[c][r] = inserted[c][r]
      <4>1. inserted[c] \in Seq(Record) /\ DOMAIN inserted[c] = 1 .. k BY LenProperties DEF TypeOK
      <4>2. inserted'[c] = Append(inserted[c], data') BY <2>1, <2>3
      <4>3. /\ inserted'[c] \in Seq(Record) /\ Len(inserted'[c]) = k + 1
            /\ inserted'[c][k + 1] = data' /\ \A r \in 1 .. k : inserted'[c][r] = inserted[c][r]
        BY <2>1, <4>1, <4>2, AppendProperties
      <4>4. DOMAIN inserted'[c] = 1 .. k + 1 BY <4>3, LenProperties
      <4> QED BY <4>1, <4>3, <4>4
    <3>9. Stream(c)'
      <4>1. 3 * Len(inserted'[c]) + InHand(c)' = 3 * (k + 1) /\ 3 * Len(inserted'[c]) = 3 * (k + 1)
        BY <1>4, <1>5, <3>8
      <4>2. got'[c] \in Nat /\ got'[c] <= got'[c] BY <1>5, <3>2
      <4> HIDE DEF Whole, Base
      <4> QED BY <3>5, <4>1, <4>2 DEF Stream
    <3>10. OwnRecords(c)'
      <4> SUFFICES ASSUME NEW r \in DOMAIN inserted'[c]
                   PROVE  inserted'[c][r] = [f \in Field |-> FieldOf(c, r, f)]
        BY DEF OwnRecords, FieldOf
      <4>1. CASE r = k + 1 BY <3>6, <3>8, <4>1
      <4>2. CASE r # k + 1
        <5>1. r \in DOMAIN inserted[c] /\ inserted'[c][r] = inserted[c][r] BY <1>5, <3>8, <4>2
        <5> QED BY <5>1 DEF OwnRecords
      <4> QED BY <4>1, <4>2
    <3>11. LastAge(c)'
      <4>1. \A n \in DOMAIN client_list : client_list[n].sock_ptr = c => client_list'[n].age = a
        BY <1>2, <2>1, <2>3
      <4> QED BY <1>1, <2>1, <3>7, <3>8, <4>1 DEF LastAge
    <3> QED BY <1>3, <3>9, <3>10, <3>11
  <2> QED BY <2>2, <2>3
<1> QED BY <1>6, <1>7 DEF ReceiveTs

(* Steps of the sensors and of time leave what connmgr has read alone.      *)
LEMMA WholeKept ==
  ASSUME Base, NEW c \in Client, Whole(c), LastAge(c)', UNCHANGED <<pc, data, got, inserted>>,
         pc \in {"value", "ts"} => temp' = temp, Ended(c) => Ended(c)'
  PROVE  Whole(c)'
<1> USE DEF Whole
<1>1. InHand(c)' = InHand(c) BY DEF InHand
<1>2. Stream(c)' BY <1>1 DEF Stream
<1>3. OwnRecords(c)' BY DEF OwnRecords, FieldOf
<1>4. Hand(c)' BY DEF Hand, FieldOf
<1> QED BY <1>2, <1>3, <1>4

LEMMA WholeSensor ==
  ASSUME Base, NEW c \in Client, Whole(c), NEW d \in Client, Sensor(d)
  PROVE  Whole(c)'
<1>1. UNCHANGED <<pc, revents, pollfd, client_list, data, got, inserted>>
  BY DEF Sensor, Connect, Send, Close, Reset, loop, lists, out
<1>2. temp' = temp BY <1>1 DEF temp, node_ptr_t, entry, get_client_by_fd, SelectInSeq
<1>3. Ended(c) => Ended(c)'
  <2>1. CASE Connect(d) BY <2>1 DEF Connect, Ended, Base, TypeOK
  <2>2. CASE Send(d) BY <2>2 DEF Send, Connected, Ended, Base, TypeOK
  <2>3. CASE Close(d) BY <2>3 DEF Close, Ended, Base, TypeOK
  <2>4. CASE Reset(d) BY <2>4 DEF Reset, Ended, Base, TypeOK
  <2> QED BY <2>1, <2>2, <2>3, <2>4 DEF Sensor
<1>4. inserted[c] # <<>> => age'[c][Len(inserted[c])] = age[c][Len(inserted[c])]
  <2> DEFINE D == 3 * FieldSize
  <2>1. ASSUME NEW a \in Age, sent[c] % D = 0, age' = [age EXCEPT ![c][sent[c] \div D + 1] = a]
        PROVE  age'[c][Len(inserted[c])] = age[c][Len(inserted[c])]
    <3> DEFINE k == Len(inserted[c])
               q == sent[c] \div D
    <3>1. (3 * k) * FieldSize <= sent[c] /\ k \in Nat /\ sent[c] \in Nat /\ FieldSize \in Nat \ {0}
      <4>1. /\ k \in Nat /\ (3 * k) * FieldSize <= got[c] /\ got[c] <= sent[c]
            /\ got[c] \in Nat /\ sent[c] \in Nat /\ FieldSize \in Nat \ {0}
        BY RecordBound DEF Base, Whole
      <4>2. (3 * k) * FieldSize \in Nat
        <5>1. 3 * k \in Nat BY <4>1
        <5> QED BY <4>1, <5>1, Units
      <4> QED BY <4>1, <4>2
    <3>2. D \in Nat \ {0} /\ k * D <= sent[c]
      <4>1. D \in Nat \ {0} BY <3>1
      <4>2. k * D = (3 * k) * FieldSize
        <5> HIDE DEF k
        <5> QED BY <3>1
      <4> QED BY <3>1, <4>1, <4>2
    <3> HIDE DEF D, k
    <3>3. sent[c] = q * D /\ q \in Nat BY <2>1, <3>1, <3>2, Divided
    <3> HIDE DEF q
    <3>4. k <= q BY <3>1, <3>2, <3>3, Units
    <3>5. q + 1 # k BY <3>1, <3>3, <3>4
    <3> QED BY <2>1, <3>5 DEF Base, TypeOK, q, k
  <2>2. CASE age'[c] = age[c] BY <2>2
  <2>3. age'[c] = age[c] \/ (d = c /\ Send(c) /\ sent[c] % D = 0
                              /\ \E a \in Age : age' = [age EXCEPT ![c][sent[c] \div D + 1] = a])
    <3>1. CASE UNCHANGED age BY <3>1
    <3>2. CASE Send(d) /\ d # c BY <3>2 DEF Send, Base, TypeOK
    <3>3. CASE Send(d) /\ d = c /\ ~UNCHANGED age BY <3>3 DEF Send
    <3> QED BY <3>1, <3>2, <3>3 DEF Sensor, Connect, Close, Reset
  <2> QED BY <2>1, <2>2, <2>3
<1>5. LastAge(c)' BY <1>1, <1>4 DEF Whole, LastAge
<1> QED BY <1>1, <1>2, <1>3, <1>5, WholeKept

LEMMA WholeTick ==
  ASSUME Base, NEW c \in Client, Whole(c), Tick
  PROVE  Whole(c)'
<1>1. /\ UNCHANGED <<pc, revents, pollfd, data, peer, sent, got, inserted>>
      /\ age' = [d \in Client |-> [r \in 1 .. MaxRecords |-> Older(age[d][r])]]
  BY DEF Tick, out
<1>2. pc \in {"value", "ts"} => temp' = temp
  <2>1. pc \in {"value", "ts"} => node_ptr_t \in DOMAIN client_list BY Served DEF Base, Field
  <2> QED BY <1>1, <2>1, TickFacts, SameTemp DEF Base
<1>3. LastAge(c)'
  <2> SUFFICES ASSUME NEW n \in DOMAIN client_list, c = client_list[n].sock_ptr,
                      inserted[c] # <<>>
               PROVE  client_list'[n].age = age'[c][Len(inserted[c])]
    BY <1>1, TickFacts DEF Base, LastAge
  <2>1. Len(inserted[c]) \in 1 .. MaxRecords BY RecordBound DEF Base, Whole
  <2>2. age'[c][Len(inserted[c])] = Older(age[c][Len(inserted[c])]) BY <1>1, <2>1
  <2>3. client_list'[n].age = Older(client_list[n].age) BY TickFacts DEF Base
  <2>4. client_list[n].age = age[c][Len(inserted[c])] BY DEF Whole, LastAge
  <2> QED BY <2>2, <2>3, <2>4
<1>4. Ended(c) => Ended(c)' BY <1>1 DEF Ended
<1> QED BY <1>1, <1>2, <1>3, <1>4, WholeKept

LEMMA WholeStep ==
  ASSUME NEW c \in Client, Base, Whole(c), [Next]_vars, [Undivided(c)]_vars
  PROVE  Whole(c)'
<1>1. Undivided(c) BY DEF Undivided, vars, net
<1>2. CASE Connmgr
  BY <1>1, <1>2, WholeLoop, WholeAccept, WholeReceiveField, WholeReceiveTs, WholeExpire, WholeFree
     DEF Connmgr
<1>3. CASE Fail BY <1>3, WholeLoop
<1>4. CASE Tick BY <1>4, WholeTick
<1>5. ASSUME NEW d \in Client, Sensor(d) PROVE Whole(c)' BY <1>5, WholeSensor
<1>6. CASE UNCHANGED vars
  <2>1. UNCHANGED <<pc, revents, pollfd, client_list, data, peer, sent, got, age, inserted>>
    BY <1>6 DEF vars, loop, lists, net, out
  <2>2. temp' = temp BY <2>1 DEF temp, node_ptr_t, entry, get_client_by_fd, SelectInSeq
  <2>3. LastAge(c)' BY <2>1 DEF Whole, LastAge
  <2>4. Ended(c) => Ended(c)' BY <2>1 DEF Ended
  <2> QED BY <2>1, <2>2, <2>3, <2>4, WholeKept
<1> QED BY <1>2, <1>3, <1>4, <1>5, <1>6 DEF Next

------------------------------------------------------------------------------
(* If no receive from c returns only a part of a field, the records that    *)
(* connmgr inserts into the shared buffer for c are those c has sent, whole,*)
(* in order and without gaps, whatever is divided of the other connections: *)
(* all of them share one record to read into, and two of its three results  *)
(* are ignored.                                                             *)
THEOREM OwnRecordsWhole ==
  ASSUME NEW c \in Client
  PROVE  Spec /\ [][Undivided(c)]_vars => []OwnRecords(c)
<1>1. Init => Base /\ Whole(c) BY BaseInit, WholeInit
<1>2. Base /\ Whole(c) /\ [Next]_vars /\ [Undivided(c)]_vars => (Base /\ Whole(c))'
  BY BaseStep, WholeStep
<1>3. Base /\ Whole(c) => OwnRecords(c) BY DEF Whole
<1> QED BY <1>1, <1>2, <1>3, PTL DEF Spec

(* The same of all connections. *)
AllUndivided == \A c \in Client : Undivided(c)
AllWhole == \A c \in Client : Whole(c)

LEMMA WholeInvariant == Spec /\ [][AllUndivided]_vars => [](Base /\ AllWhole)
<1>1. Init => Base /\ AllWhole BY BaseInit, WholeInit DEF AllWhole
<1>2. Base /\ AllWhole /\ [Next]_vars /\ [AllUndivided]_vars => (Base /\ AllWhole)'
  BY BaseStep, WholeStep DEF AllWhole, AllUndivided
<1> QED BY <1>1, <1>2, PTL DEF Spec

(* As long as no receive returns only a part of a field, every record in    *)
(* the shared buffer is a whole record of one connection, and those of a    *)
(* connection come in order and without gaps.                               *)
THEOREM NothingMixed == Spec /\ [][AllUndivided]_vars => []RecordsWhole
<1>1. Base /\ AllWhole => RecordsWhole BY DEF AllWhole, Whole, OwnRecords, RecordsWhole
<1> QED BY <1>1, WholeInvariant, PTL

(* In the same behaviours connmgr closes a connection only when the last    *)
(* record it has inserted for it is TIMEOUT seconds old, or there is none.  *)
THEOREM ClosesOnlyTheStale == Spec /\ [][AllUndivided]_vars => ClosedOnlyWhenStale
<1> DEFINE Stale == \A c \in Client :
              log'[c] # log[c] /\ log'[c][Len(log'[c])] = "closed" /\ inserted[c] # <<>>
                => age[c][Len(inserted[c])] >= TIMEOUT
<1>1. Base /\ AllWhole /\ [Next]_vars => [Stale]_vars
  <2> SUFFICES ASSUME Base, AllWhole, Next, NEW c \in Client, log'[c] # log[c],
                      log'[c][Len(log'[c])] = "closed", inserted[c] # <<>>
               PROVE  age[c][Len(inserted[c])] >= TIMEOUT
    OBVIOUS
  <2> USE DEF Base
  <2>1. CASE ReceiveTs
    <3>1. pc = "ts" /\ temp \in Client BY <2>1, Served DEF ReceiveTs, Field
    <3>2. PICK a, record : /\ HasData /\ Received("ts") /\ record = data'
                           /\ a \in AgeOf(data'.ts) /\ Stored(record, a)
      BY <2>1 DEF ReceiveTs, out
    <3>3. log[c] \in Seq({"opened", "closed"}) BY DEF TypeOK
    <3>4. log'[c] = log[c] \/ log'[c] = Append(log[c], "opened")
      BY <3>2 DEF Stored, TypeOK
    <3>5. Append(log[c], "opened")[Len(Append(log[c], "opened"))] = "opened"
      BY <3>3, AppendProperties
    <3> QED BY <3>4, <3>5
  <2>2. CASE Expire
    <3>1. pc = "expire" /\ Expired /\ CloseClient BY <2>2 DEF Expire
    <3>2. /\ temp \in Client /\ node_ptr_t \in DOMAIN client_list
          /\ client_list[node_ptr_t].sock_ptr = temp
      BY <3>1, Served DEF temp
    <3>3. c = temp BY <3>1 DEF CloseClient, TypeOK
    <3>4. client_list[node_ptr_t].age = age[c][Len(inserted[c])]
      BY <3>2, <3>3 DEF AllWhole, Whole, LastAge
    <3> QED BY <3>1, <3>4 DEF Expired
  <2>3. CASE ~ReceiveTs /\ ~Expire
    BY <2>3 DEF Next, Connmgr, Sensor, PollReturns, PollTimeout, Accept, ServeNext, ServeEnd,
       ReceiveField, connmgr_free, Fail, Tick, Connect, Send, Close, Reset, vars, out
  <2> QED BY <2>1, <2>2, <2>3
<1>2. Spec => [][Next]_vars BY DEF Spec
<1> QED BY <1>1, <1>2, WholeInvariant, PTL DEF ClosedOnlyWhenStale

(* A field of one part is never divided. *)
LEMMA NeverDivided == ASSUME FieldSize = 1 PROVE Base /\ [Next]_vars => [AllUndivided]_vars
<1> SUFFICES ASSUME Base, Next, NEW c \in Client PROVE Undivided(c) BY DEF AllUndivided
<1> USE DEF Base
<1>1. ASSUME NEW f \in Field, HasData, Received(f), temp \in Client PROVE Undivided(c)
  <2> DEFINE n == Min({FieldSize, sent[temp] - got[temp]})
  <2>1. sent[temp] - got[temp] \in Nat \ {0} BY <1>1 DEF HasData, TypeOK
  <2>2. {1, sent[temp] - got[temp]} \in SUBSET Nat /\ {1, sent[temp] - got[temp]} # {}
    BY <2>1
  <2>3. n \in {1, sent[temp] - got[temp]}
        /\ \A m \in {1, sent[temp] - got[temp]} : n <= m
    BY <2>2, MinNat
  <2>4. n = 1 BY <2>1, <2>3
  <2>5. got' = [got EXCEPT ![temp] = @ + n] BY <1>1 DEF Received
  <2> QED BY <2>4, <2>5 DEF Undivided, TypeOK
<1>2. CASE ReceiveField \/ ReceiveTs
  <2>1. pc \in Field /\ temp \in Client BY <1>2, Served DEF ReceiveField, ReceiveTs, Field
  <2>2. CASE HasData /\ Received(pc) BY <1>1, <2>1, <2>2
  <2>3. CASE UNCHANGED got BY <2>3 DEF Undivided
  <2>4. CASE ReceiveField BY <2>2, <2>3, <2>4 DEF ReceiveField
  <2>5. CASE ReceiveTs
    <3>1. pc = "ts" /\ ((HasData /\ Received("ts")) \/ got' = got) BY <2>5 DEF ReceiveTs
    <3> QED BY <2>2, <2>3, <3>1
  <2> QED BY <1>2, <2>4, <2>5
<1>3. CASE ~ReceiveField /\ ~ReceiveTs
  <2>1. CASE Connmgr
    BY <1>3, <2>1 DEF Connmgr, PollReturns, PollTimeout, Accept, ServeNext, ServeEnd, Expire,
       connmgr_free, net, Undivided
  <2>2. CASE Fail BY <2>2 DEF Fail, net, Undivided
  <2>3. CASE Tick BY <2>3 DEF Tick, Undivided
  <2>4. ASSUME NEW d \in Client, Sensor(d) PROVE Undivided(c)
    BY <2>4 DEF Sensor, Connect, Send, Close, Reset, Undivided
  <2>5. CASE UNCHANGED vars BY <2>5 DEF vars, net, Undivided
  <2> QED BY <2>1, <2>2, <2>3, <2>4, <2>5 DEF Next
<1> QED BY <1>2, <1>3

(* A field of one part stands for a network that never divides one: there   *)
(* records stay whole in every behaviour, as MCConnMgr checks.              *)
COROLLARY NothingMixedInParts == ASSUME FieldSize = 1 PROVE Spec => []RecordsWhole
<1>1. Spec => [][AllUndivided]_vars BY NeverDivided, Invariant, PTL DEF Spec
<1> QED BY <1>1, NothingMixed, PTL

(* There connmgr closes only stale connections in every behaviour.          *)
COROLLARY StaleInParts == ASSUME FieldSize = 1 PROVE Spec => ClosedOnlyWhenStale
<1>1. Spec => [][AllUndivided]_vars BY NeverDivided, Invariant, PTL DEF Spec
<1> QED BY <1>1, ClosesOnlyTheStale, PTL
==============================================================================

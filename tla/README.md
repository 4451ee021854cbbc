# IoT monitoring gateway: TLA+ models, model checking and proofs

The repository is a sensor gateway in C. Sensors connect over TCP and send
records (id, temperature, timestamp); the gateway passes each record through
two shared buffers, controls the temperature of each sensor by a running
average, stores every record in an SQLite database, and reports events to a log
process over a FIFO. All paths below are relative to
`src/IoT_MonitoringSystem/`.

## Inventory

| component | state | operations | talks to |
|---|---|---|---|
| `sbuffer.c` shared buffer | linked list (`head`, `tail`), `buffer_size`, a mutex | `sbuffer_init`, `_insert`, `_remove_block`, `_remove`, `_free`, `_size`, `_get_element_at_index` | one producing and one consuming thread |
| `connmgr.c` connection manager | array for `poll`, list of clients (fd, last record, logged or not) | `connmgr_listen` (accept, receive, close), `connmgr_free` | sensors, `fir_buffer`, the log |
| `datamgr.c` data manager | list of sensors with a window of readings | read the map, read and forward readings, average, alerts, queries | `fir_buffer`, `sec_buffer`, the log |
| `sensor_db.c` storage manager | connection to SQLite, one table | connect with retries, insert, queries | `sec_buffer`, the log |
| `main.c` threads and process | the two buffers, the FIFO, a semaphore | fork, create and join three threads, end | everything |
| `main.c` log process, `log_to_fifo` | FIFO, stdio buffers, `gateway.log` | write a message, read a line per second | the three threads |
| `lib/dplist.c` | doubly linked list | insert, remove, search, navigate | connmgr, datamgr |
| `lib/tcpsock.c` | socket structures | open, accept, send, receive, close | connmgr |

What is hard here:

* **Unlocked reads.** `sbuffer_remove_block` looks at `head` and `buffer_size`
  without the mutex and commits to a removal before it has the lock.
* **Three clocks for one silence.** No thread is told that another has ended.
  connmgr ends after `TIMEOUT` seconds in `poll`, the two consumers after
  `TIMEOUT` seconds in front of an empty buffer, each measured from its own
  moment. A consumer that ends first leaves readings behind.
* **Readings in flight.** A reading is in a buffer, in the hand of a thread,
  forwarded but not yet averaged, or stored; threads are paced by sleeps, and
  any of them may end the process with `exit()`.
* **A window that fills, then shifts**, in memory that is not initialized, for
  sensors that the map may list twice.
* **Blocking I/O in an event loop.** connmgr reads a record with three blocking
  receives of which only the last is looked at; it tells clients apart by
  descriptors that the kernel gives away again, and judges them by timestamps
  of clocks that are not its own.
* **A list with many entrances**, by index, by reference and by element, of
  which each distinguishes the ends in its own way.
* **A semaphore passed by value**, so that three threads are inside
  `log_to_fifo` at once; **a FIFO whose reader takes one line per second**, and
  whose two ends belong to processes that fail and end on their own.
* **A table that outlives the process**, dropped and made again at each start in
  two transactions, filled by calls that may be refused, or cut off by a crash,
  at any statement.

`PROJECT.json` lists every hazard at its line, with the properties that cover it
or the reason why none does.

## Modules

| module | models | built on |
|---|---|---|
| `Queue` | what a buffer promises: a FIFO queue | |
| `SBuffer` | `sbuffer_insert` and `sbuffer_remove_block` at the grain of single unlocked reads and single stores | refines `Queue` |
| `SBufferApi` | the rest of `sbuffer.c`: `sbuffer_remove`, `sbuffer_free`, the unlocked walk of the DEBUG build | extends `SBuffer` |
| `SensorStore` | what the gateway promises: readings are stored one by one, in order, none skipped | |
| `Gateway` | the three threads, both buffers as queues, clocks, joining, the end of the process | refines `SensorStore` |
| `ConnMgr` | `connmgr_listen`: poll, the clients, framing, time-outs; the sensors and the kernel's descriptors around it | |
| `ElementList` | what `lib/dplist.h` promises: a sequence of elements with references | |
| `DPList` | `lib/dplist.c`: nodes and pointers | refines `ElementList` |
| `EventLog` | what the log promises: messages whole, in order, none twice | |
| `LogFifo` | `fork`, the FIFO, `log_to_fifo` over the stdio buffer, the log process and `gateway.log`, the end of both processes | refines `EventLog` |
| `SensorDb` | `sensor_db.c`: the table, opening, insertions, queries; refusals, crashes and restarts | |
| `DataMgr` | the sensor map, the windows, averages, alerts, queries | |
| `ListLemmas` | facts the proofs share: least numbers, induction over a set of numbers, `FlattenSeq`, sequences with an element removed or inserted | |
| `SBuffer_proofs` | theorems about `SBuffer` and `SBufferApi` | extends `SBufferApi` |
| `Gateway_proofs`, `ConnMgr_proofs`, `DataMgr_proofs`, `LogFifo_proofs`, `SensorDb_proofs`, `DPList_proofs` | theorems about the module of that name | extend it |
| `MC*` | instances for TLC | |

Operators whose name has a suffix after an underscore and whose comment starts
with "mutant" are faulty variants of the definition that follows them. They are
not part of any specification; each shows that some property notices that
fault.

### SBuffer and SBufferApi

The list is the sequence `chain` of nodes reached from `head`; `tail`,
`buffer_size` and `lock` are the fields of `struct sbuffer`, `heap` is the set of
nodes that are allocated. `InsertLock` is the code from `pthread_mutex_lock` to
the choice of the branch, `InsertStore` one store of the branch at a time, in
any order (the reads that race with them are not synchronised, so neither the
compiler nor the processor has to keep the order of the source), `InsertUnlock`
the rest. `RemoveEnter`, `RemoveSleep`, `RemovePoll` and `RemoveCheck` are the
polling loop (sbuffer.c:118-127), each unlocked read a step of its own;
`RemoveLock`, `RemoveStore`, `RemoveUnlock` are the removal. A failing `malloc`
leaves the lock held (`InsertFail`), and the second of the two also leaves behind
the node of the first (`Leaked`, which `HeapExact` names); the callers then end
the process (`InsertExit`), until when the consumer goes on.

`SBufferApi` adds `sbuffer_remove`, which returns `SBUFFER_NO_DATA` with the
lock held; the DEBUG print, which reads `head` twice (`PrintGet`, `PrintFirst`)
and whose walk along `next` may meet any node once the node it stands on has been
removed; and `sbuffer_free`. The gateway as built
calls none of the three (`sbuffer_free` stands after a `pthread_exit`), which is
why they are kept apart from `SBuffer`.

### Gateway

`pc[t]` is where thread `t` is, `waited[t]` what its own clock shows, `buf` the
buffers, `hand` the reading a consumer has removed and not yet passed on. Time
is `Tick`, one second; clocks stop at `TIMEOUT`, beyond which no comparison tells
values apart. The buffer operations are atomic here, which is what `SBuffer`'s
refinement of `Queue` justifies, except for the two unlocked looks of the
polling loop, which stay separate steps. `received`, `silence`, `gap` and
`events` are not in the program: they record what came in, how long a buffer has
really been without insertions, and whether an insertion ever came after
`TIMEOUT` seconds without one. connmgr is reduced to the one client it is
serving: `Readable` enters `tcp_receive`, which returns with a record
(`Receive`), with end of file or an error (`ReceiveNothing`), or never. `Fail` is
every `exit` on an error, in any thread.

### ConnMgr

`pollfd` is the array without the server's entry, with -1 for the entries of
closed clients; `client_list` the list of `socket_node`; `revents` the entries
that `poll` has reported and the `for` loop has still to serve. `PollReturns`
chooses between a new connection and the clients, `Accept` is the first branch
of the loop body; `ServeNext` looks a client up and fails its assertion if there
is none; `ReceiveField` (id, value) and `ReceiveTs` are the three receives, each
of which may block while other sensors, the peer and the clock go on; `Stored`
is what a complete record causes: `sbuffer_insert`, the update of the node, the
message to the log. `Expire` compares the time and closes. `connmgr_free` follows
the time-out of `poll`.

`peer`, `backlog`, `fd`, `sent` and `got` belong to the kernel and the sensors:
sensors connect, send, close or reset at any moment; the kernel gives the lowest
free descriptor, discards what a reset connection had not delivered, and does
not shut it down any more. A record travels as 3 * `FieldSize` parts. Ages stand
for timestamps, so that the clock needs no bound: they move on with `Tick` and
stop at `TIMEOUT`; a timestamp of 0, which a new node has, is as old as any.

### DPList

A node is an address; `heap` is the domain of the three functions `prev`, `next`
and `element`, so that a freed node cannot be read at all. `Between` and `Unlink`
are the stores that the branches of the three insertions and the three removals
write out case by case; which nodes they are applied to is decided as each
function does, by walking along `next`, by `size` or by comparing references.
Callers may pass any index and any address. `call` and `ret` name the last call
and its result, so that `ElementList` can say of each call what it must do; the
refinement maps the list to what a walk along `next` meets, and `Linked` adds
that the way back is the same. `lost` records the node that
`dpl_insert_at_reference` allocates before it finds that the reference is
unknown.

`ElementList` is the header alone. The code departs from it in two calls on an
empty list, which `InsertsForUnknown` and `RemovesFromNothing` of `DPList`
describe: `ImplementsList` says that every step is one of `ElementList` or one of
these, and `ExactWithoutDepartures` that nothing else is in the way. The gateway
makes neither call. `QueriesAnswer` leaves `dpl_get_index_of_element` open for an
empty list, where code and header differ, too.

The other modules use lists as sequences, with the searches from the front that
`DPList` shows to be what the library does.

### DataMgr

The list is private to the datamgr thread, so reading the map is one action per
line and `match_with_sensor_data` is one action. Temperatures are integers and
an average is kept as the sum it is a fraction of, so that comparing it with a
limit is exact. Cells of a new node hold `Garbage`, as `malloc` leaves them.
A token of the map that is no number is never consumed by `fscanf`: the thread
is `stuck` there. `Gateway` assumes a map that is well formed. `lines` and
`history` are not in the program: the lines of the map and the readings handled,
from which the right answers of the queries follow.

### LogFifo and EventLog

`pc` says where `main`, the three threads and the log process are. `Fork` starts
the child before the arguments are looked at; `OpenFifo` is the moment both
`fopen` calls return. A message goes from `log_to_fifo` (`Call`, `Fputs`,
`Fflush`, `Write`) through the stdio buffer `obuf` of `fp` into `pipe`, from
there into the stdio buffer `ibuf` of the log process (`Fill`, up to `ReadSize`
pieces at a time, which may end inside a message), is cut into lines
by `fgets` (`GetLine`) and written to `file`, which is `gateway.log` (`Record`,
with the second of sleep that follows). `log_to_fifo` gets its semaphore by
value: `sem_wait` decrements a copy that is 1, so it is no guard in the model.
What is left is the lock of the stdio stream, held during `fputs` and `fflush`,
and by `exit()` while it flushes; a thread that finds the stream flushed by
another returns.

Each message is a few pieces of text, of which the last may be a newline:
connmgr's and datamgr's end in one, five of the storagemgr's do not. `After` is
the order in which `sensor_db.c` produces its messages. The process ends when
all threads have been joined (`MainEnd`), by `exit()` of `main` or of any thread
(`Exit`, `ExitFlush`, `ExitEnd`: the other threads run on until the last), by an
assertion (`Abort`) or by writing to a FIFO that nobody reads (`Sigpipe`). The
log process ends at end of file (`EndOfFile`), after a last line that may lack
its newline, or by an error (`LogFail`).

`EventLog` is the log as one text to which whole messages are added and which is
written piece by piece; `LogFifo` maps the concatenation of the lines of the file
to it. Where the lines break is what `LinesWhole` says.

### SensorDb

`table` is in the file and outlives the process, `conns` are the open
connections with the number of their statements that have not been finalized,
`db` is the connection the caller was given. `pc` and `op` say which function is
running and how far it is; `Open`, `OpenFails`, `Drop`, `Create`, `Step` and
`Finalize` are the calls of SQLite it makes, each of which may be refused
(`OpenFails`, `ExecRefused`, `StepRefused`), and between any two the process may
end (`Crash`, or `Down` where the code exits) and be started again. One process
calls the functions in any order; the readings of `storagemgr_parse_sensor_data`
are those the buffer gives before NO_DATA.

Values are integers, of which `Grain` neighbours are printed alike by `%f`;
`Signed` is what `%hd` makes of an id that is one of `Ids` numbers. `NaN` stands for a value
that prints as no number, so that the statement is not SQL. `calls`, `origin` and
`refused` are not in the program: they record what each insertion was given and
answered, which reading each row came from, and whether SQLite refused anything
during the call. A query is the set of rows its callback is applied to.

## Runs

| run | cfg | question | result |
|---|---|---|---|
| `sbuffer_safety` | `MCSBuffer.cfg` | no dead node dereferenced (`TakesLiveNode`); nothing freed too early, and nothing leaked but by an insertion whose second `malloc` fails (`HeapExact`); `head`, `tail`, `buffer_size` agree (`FieldsAgree`, with the types in `BufferOK`); NO_DATA never over a completed insertion (`NoDataMeansEmpty`); refinement of `Queue`; every call of `sbuffer_remove_block` returns (`RemoveReturns`); every inserted node is removed (`InsertedIsRemoved`) | holds |
| `sbuffer_api` | `MCSBufferApi.cfg` | with the other operations added: `HeapExact`; the fields agree, and a mutex that stays locked does so over an empty buffer or after a failed insertion (`AgreesUntilFreed`) | holds |
| `gateway_safety` | `MCGateway.cfg` | types; `Conservation`; `AbandonedAfterGap`; `OneAhead`; `EndComplete`; `GivesUpAfterSilence`; refinement of `SensorStore` | holds |
| `gateway_liveness` | `MCGatewayLive.cfg` | the process ends (`Termination`); readings reach the database (`ReceivedIsStored`) | holds |
| `gateway_all_stored` | `MCGatewayAllStored.cfg` | "store all sensor data" (README.md:2) | violated: after a gap, readings are received and not stored |
| `connmgr_safety` | `MCConnMgr.cfg` | list, poll array and kernel agree (`ClientsMatchPoll`, with the types); records whole and in order (`RecordsWhole`); `LogTellsOnce`; `ClosedOnlyWhenStale`; `OnlyResetLeaks` | holds, for a network that does not divide fields |
| `connmgr_liveness` | `MCConnMgrLive.cfg` | ended connections are closed (`GoneIsClosed`), connmgr ends (`Ends`) | holds |
| `connmgr_split_field` | `MCConnMgrSplit.cfg` | "read temperature" (connmgr.c:152) | violated: after a partial receive fields are mixed |
| `dplist_list` | `MCDPList.cfg` | pointers (`Linked`, with the types), memory (`HeapExact`), queries (`QueriesAnswer`); refinement of `ElementList` but for two calls (`ImplementsList`) | holds |
| `datamgr_control` | `MCDataMgr.cfg` | answers (`AnswersFromHistory`, with the types) and alerts (`AlertsAreExact`) are those of the last readings, rooms those of the first line; a sensor listed twice is served by its first entry (`FirstEntryServes`) | holds |
| `logfifo` | `MCLogFifo.cfg` | a message after a whole line is a line of its own (`LinesWhole`, with the types); refinement of `EventLog`; every line arrives (`EventsAreRecorded`); the log process ends after the gateway (`LogProcessEnds`) | holds, with the exceptions the properties name |
| `sensordb` | `MCSensorDb.cfg` | what a call acknowledged is stored, once and in order (`AcknowledgedIsStored`, with the types); queries find the readings (`QueriesAnswer`); calls fail only for a cause, whatever a crash has left (`FailsOnlyForCause`); every call ends (`CallsEnd`) | holds |

**Divergences noted, without a run of their own.** A single call shows each of
these; the models do what the code does.

* sbuffer.c:64 asserts that `buffer_size` is 0 after `sbuffer_free` has freed the
  nodes, but nothing has counted it down: the assertion fails for a buffer that
  still holds readings (`SbufferFree`).
* sbuffer.h:41 says that `sbuffer_remove` does not block on an empty buffer; it
  returns between lock and unlock (sbuffer.c:87), so that the next operation on
  the buffer, by either thread, waits for ever. The gateway does not call it.
* connmgr.c:285 (DEBUG builds) asserts that the element at an index below
  `sbuffer_size` exists. `sbuffer_print` reads size and head without the lock, and
  datamgr may remove the last node between the two (`PrintGet`), or between the
  two reads of head in `sbuffer_get_element_at_index`, which then dereferences
  NULL (`PrintFirst`).
* sensor_db.h:36 promises a connection from `init_connection(0)`: its statement
  says `id INT PRIMARY KEY AUTOINCREMENT`, which SQLite accepts for INTEGER
  columns only, so that it always returns NULL (`FailsOnlyForCause` says so), and
  leaves the connection open. The gateway passes 1.
* sensor_db.h:49 promises that `disconnect` frees everything; after
  `insert_sensor_from_file` with two readings or more, or a refused insertion,
  unfinalized statements make `sqlite3_close` return SQLITE_BUSY, which is not
  looked at. `insert_sensor` and `storagemgr_parse_sensor_data` with a NULL
  connection open one that nobody closes.
* sensor_db.c:187 prints an unsigned id with `%hd`: sensors from 32768 on are in
  the table under negative numbers. `QueriesAnswer` says that no two sensors are
  confused by it.
* datamgr.h:54 promises the number of unique sensor ids;
  `datamgr_get_total_sensors` (datamgr.c:235) counts the lines of the map, as
  `AnswersFromHistory` says, of which two may name one sensor.
* tcpsock.h:47 promises that `tcp_close` closes the socket; lib/tcpsock.c:145
  skips `close()` when `shutdown()` fails, as it does once the peer has reset the
  connection. `OnlyResetLeaks` says that no other descriptor is lost.
* dplist.h:80 promises -1 for an element that is not found;
  `dpl_get_index_of_element` returns 0 for an empty list (lib/dplist.c:228).
* dplist.h:141 says that for a reference that is not in the list "'list' is
  returned"; `dpl_insert_at_reference` inserts the element if the list is empty,
  whatever the reference (lib/dplist.c:350, `InsertsForUnknown`).
* dplist.h:168 promises the unmodified list for an element that is not found;
  `dpl_remove_element` returns NULL for an empty list (lib/dplist.c:537,
  `RemovesFromNothing`), and a caller that assigns the result, as connmgr.c:201
  does, would lose the list.

**Bounds.** Three nodes and two values in `SBuffer`: the branches differ for
none, one and several nodes, and with three an insertion and a removal can
overlap on each; a producer that finds no free node waits, or `malloc` fails.
`TIMEOUT` is 2 so that the loop goes round at least once before it gives up.
`MaxIndex` bounds the index of the DEBUG print, which can run past a shrinking
size. In `Gateway` three wake-ups of connmgr (two for liveness) are enough for
one reading in each buffer and one in hand; a sensor that never stops would keep
the process alive, so `Termination` is about sensors that stop, which `MaxEvents`
makes of them. Two connections in `ConnMgr` are enough for one to get the
descriptor of the other and for one to be served while the other waits; two
records let fields of different records meet; a clock one second ahead is enough
for a client that is not closed at once. Three nodes in `DPList` make a first, a
middle and a last one; indices go from below the first to beyond the last.
`DataMgr` handles four readings with windows of three, so that
every sensor's window is filled and shifted, over maps of up to two lines with
two sensors and two rooms, so that two lines may agree in either.
In `LogFifo` each thread of connmgr and datamgr has one message and the
storagemgr up to three, so that all three can be in `log_to_fifo` at once and a
message without a newline can meet any other; `MAX` is the longest message, so
that two that share a line are cut where they would be, and `PipeSize` is the
smallest that a write of all three fits in, so that a FIFO left unread makes
writers wait; `ReadSize` is less than that, so that a read may leave a part of a
message in the FIFO. In `SensorDb` two insertions of up to two readings, two
connections and two attempts at opening give every pair of outcomes, with a
crash anywhere; ids are two bits wide, so that one is stored as negative, and
two of the three values are printed alike. The `SYMMETRY` of a cfg is over readings, nodes or connections, in runs without
liveness only.

**Deadlock** is checked in `SBuffer`, `Gateway`, `ConnMgr` and `LogFifo`, whose
ends stutter explicitly, and in `DPList` and `SensorDb`. `Stopped` of `LogFifo`
names the two states in which a process waits in `fopen` for ever. It is off for `SBufferApi` and `DataMgr`: there the threads may have
ended, or (`sbuffer_remove`) wait for themselves, and the bound on readings is
reached.

**Fairness.** A runnable thread runs on: weak fairness of each thread's steps.
`SBuffer` adds strong fairness of taking the lock, since weak fairness alone
would let the producer lock and unlock for ever while the consumer waits; the
producer is away in `poll`, `tcp_receive` or a sleep between two insertions.
In `ConnMgr` connmgr runs on while it is not blocked, and time passes. In
`LogFifo` each thread inside `log_to_fifo`, `main` before the threads and in
`exit()`, and the log process run on; whether and when a thread speaks, ends or
meets an error is left open. In `SensorDb` a call that has begun runs on.
Nothing is assumed of the sensors, of failures, or of the producer calling
again.

## Proofs

Each theorem holds for every value of the constants its module's assumption
allows (`SBufferAssumption`, `GatewayAssumption`, `ConnMgrAssumption` and so on:
sizes, bounds and times are naturals, `NULL` is no node, and the like); three
theorems of `ConnMgr` are about behaviours in which no field is received in
parts. All are `Spec => []P`, for an inductive invariant that
implies `P`, or `Spec => [][A]_vars` and refinements, for steps from a state in
which that invariant holds. TLC finds the inductive invariants (`IInv`, `ApiInv`, each
`Base`, `Whole`, `Chain`) true on the instances of the safety runs: a module that
extends the MC module and the proof module is enough to check them again, with
`Chain` given the walk from index 0 to `size - 1`. Every safety property of a
passing run is the subject of a theorem.

### SBuffer_proofs

`IInv` adds to the types and `HeapExact`:

* `Mutex`: who holds the mutex, an insertion that has failed included. Without it
  two sequences of stores could mix.
* `Inserting`, `Removing`: what `tail`, `buffer_size` and the chain are while the
  stores in `todoP` or `todoC` are still to be made, for *every* subset of them, as
  the stores come in any order. The store that links the node is the one that
  moves it from `heap` alone into `chain`; a removal has claimed the first node
  from the moment it has the mutex. `Resting` is the same with nothing left to do.
* `NoNodeTwice`: else taking the first node off would leave it in the chain.
* `Committed`: a consumer that has decided to remove, before it has the mutex,
  finds a node, or one is being linked. It holds because there is only one
  consumer, and it is what makes the unlocked look at `head` safe.

From it: `NoNodeLost` (`HeapExact`), `FieldsStayInStep` (`BufferOK`),
`RemovalIsSafe` (`TakesLiveNode`), `GivesUpOnEmpty` (`NoDataMeansEmpty`).
`BufferIsQueue` is the refinement of `Queue`: an insertion takes effect with the
store that links the node (`InsertStorePuts`), a removal with taking the mutex
(`RemoveLockGets`), and every other step leaves the readings in the buffer alone.

`Typed` and `Mutex` allow for a consumer inside `sbuffer_remove` too, which either
has not called yet or has the mutex and makes the stores of a removal; so the
lemmas about the steps of `SBuffer` serve for `SBufferApi` as they are. `ApiInv`
says that `IInv` holds until `sbuffer_remove` keeps the mutex of an empty buffer
(`Stuck`, from where nobody gets it again), the process ends, or `sbuffer_free`
takes the list apart. From it: `NoNodeLostHere` (`HeapExact`), `FieldsStillAgree`
(`AgreesUntilFreed`).

### Gateway_proofs

* `TypeCorrect`: `TypeInv`, which is `TypeOK` (`WellTyped`) and `Flow`. `Flow`
  says what a thread's place tells of its data: a consumer at `use` holds exactly
  one reading and elsewhere none, and at `take` its buffer is not empty. Without
  it `Take` could overwrite a reading in hand or read from an empty sequence.
* `ConservationHolds`: `Conservation` is inductive relative to `TypeInv`. Each
  step either appends to the line of readings or moves its oldest part one place
  on (`Shift`, `AppendMiddle`).
* `Refinement`: from `Conservation`, the reading `Store` writes is the one that
  follows the stored ones in the order of reception (`NextElement`); all other
  steps but `Receive` leave both sequences alone.
* `AbandonedOnlyAfterGap`, `GivingUpTakesSilence`: the invariant `Clocks` says
  that a waiting consumer either has a reading in its buffer or a clock that
  shows no more than the real silence, and that after its end either the buffer
  has remained empty and silent or a gap has been recorded.
* `EndsComplete`: `Conservation`, `Clocks` and `Joined` (main joins the threads
  in order, so all have ended) together.
* `NeverFarAhead`: `Ahead`, an exact count of the readings forwarded.

### ConnMgr_proofs

`Base` relates the program's tables to the kernel's: `OwnFd` (no two connections
have one descriptor, the lost ones included, so that a descriptor given away
again never meets an old one), `Nodes` (list and poll array name the same
descriptors, each once, and each node has its own connection's), `Queued` and
`Unaccepted` (of a connection in the backlog connmgr knows nothing), `Round` (what
is still to be served is being watched, which is what the assertion on the search
needs), `Flags` and `Told` (what the log has of a connection follows from its
first record and from the list). `NoMixUp`, `LeaksExplained` and `LogIsRight` are
read off it.

Which records come out whole depends on the network: all connections share one
record to read into, and a receive that returns only a part of a field leaves
the rest for the next one. `connmgr_split_field` shows a temperature made of the
rest of an id. `OwnRecordsWhole` says that this never spreads: a connection c of
which no receive returns only a part (`[][Undivided(c)]_vars`) has its records
inserted whole and in order, whatever is divided of the others. `NothingMixed`
and `ClosesOnlyTheStale` are about behaviours in which no connection has a field
divided, for any `FieldSize`; for `FieldSize = 1`, as in the runs that pass,
those are all behaviours (`NeverDivided`). TLC finds the same with `FieldSize = 2`
on the instance of `connmgr_split_field` when receives in parts are left out. The theorems are about safety, so
in a behaviour that does divide a field they hold up to the first receive that
does.

`Whole(c)` says that what was received of c is its records and the fields now in
hand, unless it has ended (`Stream`), that these are the next record's (`Hand`),
and that its node has the age of its last record (`LastAge`). The exception
matters: connmgr fills up a record from a connection that has ended without
noticing, but then the last receive fails, and nothing is inserted. That a field
tells which record it comes from (`AgeOfRecord`) needs the products of positions
with `FieldSize` to be different, which `Units` shows.

### DataMgr_proofs

`Windows` says of the first node of each sensor that its array holds the last of
the sensor's readings, in order, as many as fit, and that its average is theirs
once there are enough; together with `FirstEntryServes`, `MapListed` (the list is
the lines of the map, in their order) and the order of map and readings it is
inductive. `UpdateHolds` is the step: appending while the array
is filled, shifting afterwards; no cell is read that has not been written. The
sums are folds over sets: `AvgIsLastSum` compares two of them without computing
either. `AnswersAreRight`, `SecondEntryIdle` and `AlertsRight` follow; `FirstLine` is the
part of the first about the room.

### LogFifo_proofs

`Flow` says that the text said is the concatenation of the file, the line, what
the log process has read, the FIFO and what the gateway has not yet flushed;
`Laid`, where in it each message begins. `WholeSent` says that what has been
written to the FIFO ends where a message ends, since a flush writes whole
messages. A read of the log process need not end there, as it takes `ReadSize`
pieces at most; but then the rest is still in the FIFO, and `fgets`, which has
met no newline, reads again before it ends a line (`FreshWhole`, `LineStep`). So
a line ends inside a message only if the array is full, and `Lines` says of the
messages that begin a line what has become of them. `Once` says that a piece of
text tells which message it belongs to; `Calls` and `Reader` are what the places of
the processes tell. From it: `LinesAreWhole`, and `LogIsOrdered`, the refinement
of `EventLog`. All holds for any number of messages, any size of the FIFO and any
`ReadSize`.

### SensorDb_proofs

`Told` says that the readings stored are, call by call, runs from the start of
the readings of each, as long as the answer allows, the call under way included;
`Pending` that only the last call can be under way and that `todo` is the end of
its readings; `RowsRight` that a row is what `insert_sensor` makes of its reading
and that no reading stored was NaN; `Shape`, which function has what open where.
A crash only turns a pending answer into an unknown one (`Ends`). From it:
`AcknowledgedStays`, `FailsForCause`, and `QueriesRight`, which also needs what
`%f` and `%hd` keep of the order of values and of ids (`PrintedOrder`,
`SignedBack`).

### DPList_proofs

`Inv` says that there is a sequence of nodes (`Chain`) without repetitions, of
exactly the nodes that are allocated and not lost, of which `head` is the first,
`next` and `prev` are the neighbours and `size` is the length. It is needed for
both directions: by `ReferenceAt` the loop along `next` arrives at the node of
the index in that sequence, for any index, so `Visited` and `Items`, which the
properties and the refinement are stated with, are its elements; and
`BetweenStep` and `UnlinkStep` give the sequence after the assignments of an
insertion between two neighbours and of a removal, at the ends and inside. Each
function is one of them at the place its search ends: by index, by reference, by
element, or sorted (`SortedStays`). From it: `StaysLinked` (`Linked`),
`NothingLeaked` (`HeapExact`), `QueriesRight` (`QueriesAnswer`),
`DoesWhatHeaderSays`, the refinement of `ElementList` but for the two calls of
`Departs`, and `ExactWithoutDepartures`, the refinement as it stands for callers
that do not make them.

### Induction over data

The library's induction theorems take an operator, which the provers cannot
instantiate. `SetInduction` of `ListLemmas` says the same of a set of numbers, by
the least number outside of it; with it the recursive functions inside
`FlattenSeq`, inside the walk along `next` of `DPList`, and inside the selection
of a sensor's readings are shown to exist and to go on as expected step by step
(`FlattenSteps`, `FlattenAppend`, `ReferenceAt`, `ReadingsAppend`).

### What stays with TLC

* Liveness: `RemoveReturns`, `InsertedIsRemoved`, `Termination`,
  `ReceivedIsStored`, `GoneIsClosed`, `Ends`, `EventsAreRecorded`,
  `LogProcessEnds`, `CallsEnd`. The prover handles neither fairness nor ENABLED;
  each theorem is about the safety part of its specification, and a refinement
  is that of an abstract specification without fairness.
* What holds of the records of a connection after a receive has divided one of
  its fields. `connmgr_split_field` shows that nothing as simple as `RecordsWhole`
  does.

## Plan

All parts of the program that keep state have a module, and all safety
properties that hold are proved. What could be added:

1. `lib/tcpsock.c` on its own, with `tcp_send` and the active side, for a project
   that also has the sensors.
2. Liveness on larger instances: it rests on the bounds of the runs alone.

## Not modelled

* Printing: messages on the terminal, the DEBUG prints (but for the walk over the
  buffer in `SBufferApi`), `final_message`, `print_help` and `callback_func`.
* `lib/tcpsock.c` beyond what connmgr calls: `tcp_active_open`, `tcp_send`, and
  the functions that return an address, a port or a descriptor. They serve the
  sensors, which are not in the repository, or return a field.
* `dplist_errno`, and the copying and freeing of elements by callbacks: connmgr
  and datamgr look at the first in assertions after calls that `DPList` shows to
  succeed.
* Failures of `sbuffer_init`, `sem_init` and `pthread_create` as such: each is one
  of the exits of `Gateway` and `LogFifo`. The growth of memory: a `malloc` may
  fail at any time, but nothing counts how much there is.
* SQLite beyond what the code sees of it: a statement is executed or refused, and
  what was executed is durable.
* Signals other than SIGPIPE, and what the log process or a second gateway does
  to a FIFO and a database that it shares with another gateway.

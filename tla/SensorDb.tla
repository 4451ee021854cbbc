------------------------------- MODULE SensorDb -------------------------------
(****************************************************************************)
(* sensor_db.c: the table in the SQLite file and the calls that fill it.    *)
(*                                                                          *)
(* One process calls the functions one after the other, in any order        *)
(* sensor_db.h allows; the gateway's own order is init_connection(1),       *)
(* storagemgr_parse_sensor_data, disconnect.  It may end between any two    *)
(* steps, and is started again.  The file outlives it.  Each SQL statement  *)
(* is a transaction of its own, and SQLite may refuse any (the file is      *)
(* locked by another process, the disk is full).                            *)
(****************************************************************************)
EXTENDS Integers, Sequences, FiniteSets, Functions, SequencesExt

CONSTANTS
  Reading,              \* records [id, value, ts]
  Conn,                 \* what sqlite3_open may return
  NULL, NaN,            \* NaN: or infinite, "%f" prints no number
  LOOP_TIME,            \* how often the file is opened
  Ids,                  \* how many numbers a sensor_id_t can be: 2^16
  Grain,                \* values that are printed alike with "%f"
  MaxCalls, MaxFile     \* bounds on insertions, and on readings in one

(* The rows of the table; its column id is left out. *)
Rows == [sensor_id : Int, sensor_value : Int, timestamp : Int]

ASSUME SensorDbAssumption ==
  /\ {NULL, NaN} \cap Conn = {} /\ IsFiniteSet(Conn) /\ NULL \notin Seq(Rows)
  /\ {LOOP_TIME, Ids, Grain, MaxFile} \subseteq Nat \ {0} /\ MaxCalls \in Nat
  /\ Ids % 2 = 0 /\ Grain % 2 = 1
  /\ \A r \in Reading : /\ r.id \in 0 .. Ids - 1
                        /\ r.value \in Int \cup {NaN} /\ r.ts \in Int

(* What the INSERT statement says: "%hd" and "%f" (six decimals). *)
Signed(id) == IF id < Ids \div 2 THEN id ELSE id - Ids

Printed(value) == (value + Grain \div 2) \div Grain

Row(r) == [sensor_id |-> Signed(r.id), sensor_value |-> Printed(r.value), timestamp |-> r.ts]

VARIABLES
  table,                \* in the file: the rows, or NULL if there is no table
  conns,                \* open connections, with their unfinalized statements
  db,                   \* the connection the caller has, or NULL
  pc,                   \* "down", "idle", or where in the call
  op, conn, loop, todo, \* the call, its connection, tries and readings left
  \* the rest is not in the program
  calls,                \* insertions since the table was dropped, and results
  origin,               \* the reading each row was made from
  refused               \* SQLite refused a statement of this call

call == <<op, conn, loop, todo>>
vars == <<table, conns, db, pc, call, calls, origin, refused>>

Init ==
  /\ table = NULL /\ origin = <<>> /\ conns = <<>> /\ db = NULL /\ pc = "down"
  /\ op = "none" /\ conn = NULL /\ loop = LOOP_TIME /\ todo = <<>>
  /\ calls = <<>> /\ refused = FALSE

Inserting == op \in {"insert", "file", "parse"}

(* The result of the call that ends, for the properties. *)
Result(res) ==
  calls' = IF Inserting /\ calls # <<>> /\ Last(calls).result = "pending"
             THEN [calls EXCEPT ![Len(calls)].result = res] ELSE calls

Return(res) ==
  /\ pc' = "idle" /\ Result(res)
  /\ op' = "none" /\ conn' = NULL /\ loop' = LOOP_TIME /\ todo' = <<>>

(* exit(), an assertion, or the end of the power: the kernel closes what is *)
(* open.                                                                    *)
Down ==
  /\ pc' = "down" /\ Result("unknown")
  /\ op' = "none" /\ conn' = NULL /\ loop' = LOOP_TIME /\ todo' = <<>>
  /\ db' = NULL /\ conns' = <<>> /\ refused' = FALSE

Start ==
  /\ pc = "down" /\ pc' = "idle"
  /\ UNCHANGED <<table, conns, db, call, calls, origin, refused>>

Crash == pc # "down" /\ Down /\ UNCHANGED <<table, origin>>

------------------------------------------------------------------------------
(* Opening *)

Begin(name, to) ==
  /\ pc = "idle" /\ pc' = to /\ op' = name /\ refused' = FALSE

(* init_connection: "clear" and "keep" are the two values of clear_up_flag. *)
init_connection(flag) ==
  /\ db = NULL /\ Begin(flag, "open")
  /\ UNCHANGED <<table, conns, db, conn, loop, todo, calls, origin>>

retry_connection ==
  /\ db = NULL /\ Begin("retry", "open")
  /\ UNCHANGED <<table, conns, db, conn, loop, todo, calls, origin>>

(* sqlite3_open succeeds; retry_connection returns with it. *)
Open(c) ==
  /\ pc = "open" /\ c \notin DOMAIN conns
  /\ conns' = [x \in {c} \cup DOMAIN conns |-> IF x = c THEN 0 ELSE conns[x]]
  /\ IF op = "retry"
       THEN Return("ok") /\ db' = c
       ELSE /\ conn' = c
            /\ pc' = CASE op = "clear" -> "drop" [] op = "keep" -> "create" [] OTHER -> "step"
            /\ UNCHANGED <<db, op, loop, todo, calls>>
  /\ UNCHANGED <<table, origin, refused>>

OpenFails_NoCount ==  \* mutant: the loop counts nothing
  /\ pc = "open" /\ UNCHANGED vars

(* ... or fails: after LOOP_TIME times the process exits. *)
OpenFails ==
  /\ pc = "open"
  /\ IF loop = 1
       THEN Down
       ELSE /\ loop' = loop - 1
            /\ UNCHANGED <<conns, db, pc, op, conn, todo, calls, refused>>
  /\ UNCHANGED <<table, origin>>

(* sqlite3_exec stops at the first statement that fails: NULL is returned,  *)
(* and the connection stays open.                                           *)
ExecFails ==
  /\ Return("error")
  /\ UNCHANGED <<table, conns, db, origin>>

Drop_NoIfExists ==  \* mutant: DROP TABLE without IF EXISTS
  /\ pc = "drop"
  /\ IF table = NULL
       THEN ExecFails /\ UNCHANGED refused
       ELSE /\ table' = NULL /\ origin' = <<>> /\ calls' = <<>> /\ pc' = "create"
            /\ UNCHANGED <<conns, db, call, refused>>

(* DROP TABLE IF EXISTS *)
Drop ==
  /\ pc = "drop" /\ table' = NULL /\ origin' = <<>> /\ calls' = <<>> /\ pc' = "create"
  /\ UNCHANGED <<conns, db, call, refused>>

(* CREATE TABLE, and the new connection is returned. *)
Create ==
  /\ pc = "create" /\ op = "clear" /\ table = NULL
  /\ table' = <<>> /\ db' = conn /\ Return("ok")
  /\ UNCHANGED <<conns, origin, refused>>

(* Without clear_up_flag the statement is not valid SQL: AUTOINCREMENT is   *)
(* for INTEGER columns, id is INT.                                          *)
CreateInvalid == pc = "create" /\ op = "keep" /\ ExecFails /\ UNCHANGED refused

ExecRefused == pc \in {"drop", "create"} /\ ExecFails /\ refused' = TRUE

(* sqlite3_close closes nothing while a statement has not been finalized;   *)
(* that is not looked at.                                                   *)
disconnect ==
  /\ pc = "idle" /\ db # NULL /\ db' = NULL
  /\ conns' = IF conns[db] = 0 THEN RestrictDomain(conns, LAMBDA c : c # db) ELSE conns
  /\ UNCHANGED <<table, pc, call, calls, origin, refused>>

------------------------------------------------------------------------------
(* Inserting: one reading, those of a file, or those that come out of the   *)
(* buffer until it gives NO_DATA.  Without a connection insert_sensor and   *)
(* storagemgr_parse_sensor_data open one of their own.                      *)
BeginInsert(name, readings) ==
  /\ Len(calls) < MaxCalls /\ Begin(name, IF db = NULL THEN "open" ELSE "step")
  /\ conn' = db /\ todo' = readings
  /\ calls' = Append(calls, [readings |-> readings, result |-> "pending"])
  /\ UNCHANGED <<table, conns, db, loop, origin>>

insert_sensor(r) == BeginInsert("insert", <<r>>)

insert_sensor_from_file(readings) == db # NULL /\ BeginInsert("file", readings)

storagemgr_parse_sensor_data(readings) == BeginInsert("parse", readings)

(* sqlite3_prepare_v2 fails for a text that is not SQL and for a table that *)
(* does not exist.                                                          *)
NotPrepared == Head(todo).value = NaN \/ table = NULL

(* -1 is returned, or the storagemgr exits; a statement that was prepared   *)
(* is not finalized.                                                        *)
InsertFails(statements) ==
  /\ IF op = "parse" THEN Down
     ELSE /\ Return("error") /\ refused' = (refused \/ ~NotPrepared)
          /\ conns' = [conns EXCEPT ![conn] = @ + statements] /\ UNCHANGED db
  /\ UNCHANGED <<table, origin>>

StepInvalid ==
  /\ pc = "step" /\ todo # <<>> /\ NotPrepared
  /\ InsertFails(0)

StepRefused_Ignored ==  \* mutant: the result of sqlite3_step is not looked at
  /\ pc = "step" /\ todo # <<>> /\ ~NotPrepared
  /\ conns' = [conns EXCEPT ![conn] = @ + 1] /\ pc' = "stepped"
  /\ UNCHANGED <<table, db, call, calls, origin, refused>>

StepRefused ==
  /\ pc = "step" /\ todo # <<>> /\ ~NotPrepared
  /\ \E prepared \in {0, 1} : InsertFails(prepared)

(* sqlite3_step: the row is in the file. *)
Step ==
  /\ pc = "step" /\ todo # <<>> /\ ~NotPrepared
  /\ table' = Append(table, Row(Head(todo))) /\ origin' = Append(origin, Head(todo))
  /\ conns' = [conns EXCEPT ![conn] = @ + 1] /\ pc' = "stepped"
  /\ UNCHANGED <<db, call, calls, refused>>

(* sqlite3_finalize, and on to the next reading; insert_sensor_from_file    *)
(* finalizes the last statement only.                                       *)
Finalize ==
  /\ pc = "stepped"
  /\ conns' = IF op = "file" /\ Len(todo) > 1 THEN conns
                                              ELSE [conns EXCEPT ![conn] = @ - 1]
  /\ IF Len(todo) = 1 /\ op # "parse"
       THEN Return("ok")
       ELSE todo' = Tail(todo) /\ pc' = "step" /\ UNCHANGED <<op, conn, loop, calls>>
  /\ UNCHANGED <<table, db, origin, refused>>

(* The buffer gives NO_DATA, or the file is empty.  In the latter case what *)
(* is finalized is an uninitialized pointer: nothing happens, or the        *)
(* process crashes.                                                         *)
NothingLeft ==
  /\ pc = "step" /\ todo = <<>>
  /\ \/ Return("ok") /\ UNCHANGED <<conns, db, refused>>
     \/ op = "file" /\ Down
  /\ UNCHANGED <<table, origin>>

------------------------------------------------------------------------------
(* The queries: which rows the callback is applied to. *)

find_sensor_all == DOMAIN table

find_sensor_by_value(value) ==
  {i \in DOMAIN table : table[i].sensor_value = Printed(value)}

find_sensor_exceed_value_OrEqual(value) ==  \* mutant: >= for >
  {i \in DOMAIN table : table[i].sensor_value >= Printed(value)}

find_sensor_exceed_value(value) ==
  {i \in DOMAIN table : table[i].sensor_value > Printed(value)}

find_sensor_by_timestamp(ts) == {i \in DOMAIN table : table[i].timestamp = ts}

find_sensor_after_timestamp(ts) == {i \in DOMAIN table : table[i].timestamp > ts}

------------------------------------------------------------------------------
Readings == UNION {[1 .. n -> Reading] : n \in 0 .. MaxFile}

Caller ==
  \/ Start \/ retry_connection \/ disconnect
  \/ \E flag \in {"clear", "keep"} : init_connection(flag)
  \/ \E r \in Reading : insert_sensor(r)
  \/ \E rs \in Readings : insert_sensor_from_file(rs) \/ storagemgr_parse_sensor_data(rs)

Database ==
  \/ OpenFails \/ (\E c \in Conn : Open(c))
  \/ Drop \/ Create \/ CreateInvalid \/ ExecRefused
  \/ Step \/ StepInvalid \/ StepRefused \/ Finalize \/ NothingLeft

Next == Caller \/ Database \/ Crash

Spec == Init /\ [][Next]_vars

(* A call that has begun goes on; nobody has to begin one. *)
FairSpec == Spec /\ WF_vars(Database)

------------------------------------------------------------------------------
(* Properties *)

TypeOK ==
  /\ table \in Seq(Rows) \cup {NULL}
  /\ conns \in [DOMAIN conns -> Nat] /\ DOMAIN conns \subseteq Conn
  /\ db \in DOMAIN conns \cup {NULL} /\ conn \in DOMAIN conns \cup {NULL}
  /\ pc \in {"down", "idle", "open", "drop", "create", "step", "stepped"}
  /\ op \in {"none", "clear", "keep", "retry", "insert", "file", "parse"}
  /\ loop \in 1 .. LOOP_TIME /\ refused \in BOOLEAN
  /\ Len(calls) <= MaxCalls
  /\ table = NULL => origin = <<>>

(* The numbers of readings that a call may have stored. *)
MayHaveStored(c) ==
  CASE c.result = "ok"    -> {Len(c.readings)}
    [] c.result = "error" -> 0 .. Len(c.readings) - 1
    [] OTHER              -> 0 .. Len(c.readings)

(* A call that returns zero has stored all its readings, and one that fails *)
(* some of the first ones but never all; after a crash the file holds some  *)
(* of the first ones of the call that was under way.  No reading is stored  *)
(* twice, out of order, or as anything but what the INSERT statement says   *)
(* of it (sensor_db.c insert_sensor, insert_sensor_from_file, and the exit  *)
(* in storagemgr_parse_sensor_data).                                        *)
AcknowledgedIsStored ==
  /\ TypeOK
  /\ \E n \in [DOMAIN calls -> 0 .. MaxFile] :
       /\ \A i \in DOMAIN calls : n[i] \in MayHaveStored(calls[i])
       /\ origin = FlattenSeq([i \in DOMAIN calls |-> SubSeq(calls[i].readings, 1, n[i])])
  /\ table # NULL => table = [i \in DOMAIN origin |-> Row(origin[i])]

(* What the find_sensor functions give of the readings that were stored,    *)
(* against the readings themselves: those of a timestamp and those after it *)
(* exactly; every reading with the value that is asked for, and others only *)
(* if they differ by less than a unit of the sixth decimal; of the readings *)
(* above a value all that are so by a unit, and none that are not above it. *)
(* The id of a row, taken modulo the width of sensor_id_t, is the sensor.   *)
QueriesAnswer ==
  table # NULL =>
    /\ \A r \in Reading :
         /\ find_sensor_by_timestamp(r.ts) = {i \in find_sensor_all : origin[i].ts = r.ts}
         /\ find_sensor_after_timestamp(r.ts) = {i \in find_sensor_all : origin[i].ts > r.ts}
    /\ \A i \in find_sensor_all, above \in -Grain .. Grain :
         LET value == origin[i].value - above
         IN  /\ above = 0 => i \in find_sensor_by_value(value)
             /\ i \in find_sensor_by_value(value) => above \in 1 - Grain .. Grain - 1
             /\ above = Grain => i \in find_sensor_exceed_value(value)
             /\ i \in find_sensor_exceed_value(value) => above > 0
    /\ \A i \in find_sensor_all : table[i].sensor_id % Ids = origin[i].id

(* Unless SQLite refuses a statement, a call that returns has done its work *)
(* whatever state an earlier crash left the file in: init_connection(1)     *)
(* gives a connection and an empty table, retry_connection a connection,    *)
(* and an insertion succeeds if and only if there is a table and all its    *)
(* values are numbers.  init_connection(0) always fails.                    *)
FailsOnlyForCause ==
  [][(op # "none" /\ pc' = "idle" /\ ~refused') =>
       CASE op = "clear" -> db' \in DOMAIN conns' /\ table' = <<>>
         [] op = "keep"  -> db' = NULL
         [] op = "retry" -> db' \in DOMAIN conns' /\ table' = table
         [] Inserting    ->
              LET c == Last(calls')
              IN  (c.result = "ok") =
                    \/ c.readings = <<>>
                    \/ table # NULL /\ \A i \in DOMAIN c.readings : c.readings[i].value # NaN]_vars

(* A call that has begun returns, or the process exits: LOOP_TIME bounds    *)
(* the attempts at opening the file, and each reading is tried once.        *)
CallsEnd == op # "none" ~> op = "none"

==============================================================================

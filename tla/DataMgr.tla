------------------------------- MODULE DataMgr -------------------------------
(****************************************************************************)
(* datamgr.c: the list of sensors read from room_sensor.map, and the        *)
(* temperature control.  Each sensor keeps its last RUN_AVG_LENGTH readings *)
(* in an array that is first filled and then shifted; whenever it is full   *)
(* the average is computed and compared with the two limits.                *)
(*                                                                          *)
(* Temperatures are integers here, and an average is represented by the sum *)
(* it is the RUN_AVG_LENGTH-th part of.  The list is private to the thread, *)
(* so that one reading is handled in one step.                              *)
(****************************************************************************)
EXTENDS Integers, Sequences, FiniteSets, FiniteSetsExt

CONSTANTS
  SensorId, RoomId,     \* the ids in the map and in the readings
  Value,                \* temperatures
  Time,                 \* timestamps
  Garbage,              \* what malloc leaves in a cell of the array
  RUN_AVG_LENGTH, SET_MIN_TEMP, SET_MAX_TEMP,
  MaxSensors,           \* bound on the lines of room_sensor.map
  MaxReadings           \* bound on the readings handled

ASSUME DataMgrAssumption ==
  /\ RUN_AVG_LENGTH \in Nat \ {0}
  /\ SET_MIN_TEMP \in Int /\ SET_MAX_TEMP \in Int
  /\ Value \subseteq Int /\ Time \subseteq Nat \ {0} /\ Garbage \in Int
  /\ MaxSensors \in Nat /\ MaxReadings \in Nat

VARIABLES
  pc,                   \* "map", "data", or "stuck" in the loop over the map
  sensor_avg_list,
  log,                  \* the messages sent to the log by the last step
  lines,                \* the lines of the map read so far,
  history               \* and all readings handled (both not in the program)

vars == <<pc, sensor_avg_list, log, lines, history>>

Cell == 0 .. RUN_AVG_LENGTH - 1

SensorNode ==
  [sensor_id : SensorId, room_id : RoomId, running_avg : Int, timestamp : Nat,
   buf : [Cell -> Int], buf_size : 0 .. RUN_AVG_LENGTH]

Reading == [id : SensorId, value : Value, ts : Time]

Init == pc = "map" /\ sensor_avg_list = <<>> /\ log = <<>> /\ lines = <<>> /\ history = <<>>

------------------------------------------------------------------------------
(* read_sensor_map *)

(* A line with two numbers: a sensor is added at the end of the list,       *)
(* whether or not its id is there already.                                  *)
MapLine(room, id) ==
  /\ pc = "map" /\ Len(sensor_avg_list) < MaxSensors
  /\ sensor_avg_list' = Append(sensor_avg_list,
       [sensor_id |-> id, room_id |-> room, running_avg |-> 0, timestamp |-> 0,
        buf |-> [j \in Cell |-> Garbage], buf_size |-> 0])
  /\ lines' = Append(lines, [room |-> room, id |-> id])
  /\ UNCHANGED <<pc, log, history>>

MapEnd ==
  /\ pc = "map"
  /\ pc' = "data"
  /\ UNCHANGED <<sensor_avg_list, log, lines, history>>

(* Something that is not a number: fscanf does not consume it and the end   *)
(* of the file is never reached.                                            *)
MapMalformed ==
  /\ pc = "map"
  /\ pc' = "stuck"
  /\ UNCHANGED <<sensor_avg_list, log, lines, history>>

------------------------------------------------------------------------------
(* search_list: the index of the first sensor with that id, 0 for NULL. *)
search_list_Last(id) ==  \* mutant: the search does not stop at the first hit
  Max({0} \cup {i \in DOMAIN sensor_avg_list : sensor_avg_list[i].sensor_id = id})

search_list(id) ==
  IF \E i \in DOMAIN sensor_avg_list : sensor_avg_list[i].sensor_id = id
  THEN CHOOSE i \in DOMAIN sensor_avg_list :
         /\ sensor_avg_list[i].sensor_id = id
         /\ \A j \in 1 .. i - 1 : sensor_avg_list[j].sensor_id # id
  ELSE 0

(* count_avg, without the division by RUN_AVG_LENGTH *)
count_avg(buf) ==
  MapThenSumSet(LAMBDA j : buf[j], Cell)

(* log_message: two independent tests *)
log_message_Inclusive(avg, id) ==  \* mutant: >= and <= for > and <
  (IF avg >= SET_MAX_TEMP * RUN_AVG_LENGTH THEN <<[sensor |-> id, says |-> "hot"]>> ELSE <<>>)
  \o (IF avg <= SET_MIN_TEMP * RUN_AVG_LENGTH THEN <<[sensor |-> id, says |-> "cold"]>> ELSE <<>>)

log_message(avg, id) ==
  (IF avg > SET_MAX_TEMP * RUN_AVG_LENGTH THEN <<[sensor |-> id, says |-> "hot"]>> ELSE <<>>)
  \o (IF avg < SET_MIN_TEMP * RUN_AVG_LENGTH THEN <<[sensor |-> id, says |-> "cold"]>> ELSE <<>>)

(* The array after a reading: filled up cell by cell, then shifted. *)
NextBuf_NoShift(node, value) ==  \* mutant: the last cell is overwritten
  [node.buf EXCEPT ![Min({node.buf_size, RUN_AVG_LENGTH - 1})] = value]

NextBuf(node, value) ==
  IF node.buf_size < RUN_AVG_LENGTH
  THEN [node.buf EXCEPT ![node.buf_size] = value]
  ELSE [j \in Cell |-> IF j < RUN_AVG_LENGTH - 1 THEN node.buf[j + 1] ELSE value]

(* A sensor after match_with_sensor_data. *)
Updated(node, r) ==
  LET size == Min({node.buf_size + 1, RUN_AVG_LENGTH})
      buf  == NextBuf(node, r.value)
  IN  [node EXCEPT !.timestamp = r.ts, !.buf = buf, !.buf_size = size,
                   !.running_avg = IF size = RUN_AVG_LENGTH THEN count_avg(buf) ELSE 0]

match_with_sensor_data(r) ==
  /\ pc = "data" /\ Len(history) < MaxReadings
  /\ LET i == search_list(r.id)
     IN  IF i = 0
         THEN /\ log' = <<[sensor |-> r.id, says |-> "invalid"]>>
              /\ UNCHANGED sensor_avg_list
         ELSE /\ sensor_avg_list' = [sensor_avg_list EXCEPT ![i] = Updated(@, r)]
              /\ log' = LET node == sensor_avg_list'[i]
                        IN  IF node.buf_size = RUN_AVG_LENGTH
                            THEN log_message(node.running_avg, r.id) ELSE <<>>
  /\ history' = Append(history, r)
  /\ UNCHANGED <<pc, lines>>

------------------------------------------------------------------------------
(* The queries.  -1 comes out of the unsigned room id as 65535. *)
datamgr_get_room_id(id) ==
  LET i == search_list(id) IN IF i = 0 THEN 65535 ELSE sensor_avg_list[i].room_id

datamgr_get_avg(id) ==
  LET i == search_list(id) IN IF i = 0 THEN -RUN_AVG_LENGTH ELSE sensor_avg_list[i].running_avg

datamgr_get_last_modified(id) ==
  LET i == search_list(id) IN IF i = 0 THEN -1 ELSE sensor_avg_list[i].timestamp

datamgr_get_total_sensors == Len(sensor_avg_list)

------------------------------------------------------------------------------
Next ==
  \/ \E room \in RoomId, id \in SensorId : MapLine(room, id)
  \/ MapEnd
  \/ MapMalformed
  \/ \E r \in Reading : match_with_sensor_data(r)

Spec == Init /\ [][Next]_vars

------------------------------------------------------------------------------
TypeOK ==
  /\ pc \in {"map", "data", "stuck"}
  /\ sensor_avg_list \in Seq(SensorNode)
  /\ log \in Seq([sensor : SensorId, says : {"hot", "cold", "invalid"}])
  /\ lines \in Seq([room : RoomId, id : SensorId])
  /\ history \in Seq(Reading)

(* Where the map names a sensor. *)
LinesOf(id) == {i \in DOMAIN lines : lines[i].id = id}

(* The readings of one sensor in a history, and the sum of the last         *)
(* RUN_AVG_LENGTH of them: what the array stands for.                       *)
ReadingsOf(id, h) ==
  LET upto[n \in 0 .. Len(h)] ==
        IF n = 0 THEN <<>>
        ELSE IF h[n].id = id THEN Append(upto[n - 1], h[n]) ELSE upto[n - 1]
  IN  upto[Len(h)]

LastSum(h) ==
  MapThenSumSet(LAMBDA j : h[Len(h) - RUN_AVG_LENGTH + 1 + j].value, Cell)

(* The average datamgr answers with is that of the last RUN_AVG_LENGTH      *)
(* readings of the sensor, or 0 before there are so many, and the time is   *)
(* that of the last one: no cell of the array is used before it has been    *)
(* written, and shifting loses no reading and keeps none too long.  The     *)
(* room is the one the first line of the map with that sensor gives, 65535  *)
(* if there is none, and what is counted is the lines.                      *)
AnswersFromHistory ==
  /\ TypeOK
  /\ \A id \in SensorId :
       datamgr_get_room_id(id) = IF LinesOf(id) = {} THEN 65535 ELSE lines[Min(LinesOf(id))].room
  /\ datamgr_get_total_sensors = Len(lines)
  /\ \A id \in {sensor_avg_list[i].sensor_id : i \in DOMAIN sensor_avg_list} :
      LET h == ReadingsOf(id, history)
      IN  /\ datamgr_get_avg(id) = IF Len(h) < RUN_AVG_LENGTH THEN 0 ELSE LastSum(h)
          /\ datamgr_get_last_modified(id) = IF h = <<>> THEN 0 ELSE h[Len(h)].ts

(* A sensor that the map names twice is served by its first entry alone:    *)
(* the second takes no reading, so that no reading is split between them.   *)
FirstEntryServes ==
  \A i, j \in DOMAIN sensor_avg_list :
    i < j /\ sensor_avg_list[i].sensor_id = sensor_avg_list[j].sensor_id
      => sensor_avg_list[j].buf_size = 0 /\ sensor_avg_list[j].timestamp = 0

(* The log says too hot or too cold exactly when the mean of the last       *)
(* RUN_AVG_LENGTH readings of that sensor, this one included, is beyond the *)
(* limit; and it names a sensor invalid exactly when the map does not list  *)
(* it.                                                                      *)
AlertsAreExact ==
  [][history' # history =>
       LET r     == history'[Len(history')]
           h     == ReadingsOf(r.id, history')
           known == \E i \in DOMAIN sensor_avg_list : sensor_avg_list[i].sensor_id = r.id
           full  == known /\ Len(h) >= RUN_AVG_LENGTH
           says  == {log'[i].says : i \in DOMAIN log'}
       IN  /\ \A i \in DOMAIN log' : log'[i].sensor = r.id
           /\ "hot" \in says <=> full /\ LastSum(h) > SET_MAX_TEMP * RUN_AVG_LENGTH
           /\ "cold" \in says <=> full /\ LastSum(h) < SET_MIN_TEMP * RUN_AVG_LENGTH
           /\ "invalid" \in says <=> ~known]_vars
==============================================================================

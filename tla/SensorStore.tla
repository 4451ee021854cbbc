----------------------------- MODULE SensorStore -----------------------------
(****************************************************************************)
(* What the gateway as a whole promises about the sensor data that passes   *)
(* through it: readings are written to the database one at a time, in the   *)
(* order in which they came in over the network, none skipped and none      *)
(* written twice.  How far storing lags behind receiving is left open.      *)
(****************************************************************************)
EXTENDS Sequences, Naturals

CONSTANT Reading

VARIABLES received, stored

Init == received = <<>> /\ stored = <<>>

Receive == /\ \E r \in Reading : received' = Append(received, r)
           /\ UNCHANGED stored

Store == /\ Len(stored) < Len(received)
         /\ stored' = Append(stored, received[Len(stored) + 1])
         /\ UNCHANGED received

Next == Receive \/ Store

Spec == Init /\ [][Next]_<<received, stored>>
==============================================================================

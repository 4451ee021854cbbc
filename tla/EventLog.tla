------------------------------ MODULE EventLog ------------------------------
(****************************************************************************)
(* What the log of the gateway promises: the messages of the threads, each  *)
(* of which is a few pieces of text, stand in the log file one after the    *)
(* other in the order in which they were said.  Nothing is missing between  *)
(* them, said twice or torn apart.  How far the file lags behind, and where *)
(* it breaks the text into lines, is left open.                             *)
(****************************************************************************)
EXTENDS Sequences, SequencesExt, Naturals

CONSTANTS
  Message,
  Text(_)               \* the pieces of text of a message

VARIABLES said, written

TextOf(messages) == FlattenSeq([i \in DOMAIN messages |-> Text(messages[i])])

Init == said = <<>> /\ written = <<>>

Say == /\ \E m \in Message : said' = Append(said, m)
       /\ UNCHANGED written

Write == /\ \E n \in Len(written) + 1 .. Len(TextOf(said)) :
              written' = SubSeq(TextOf(said), 1, n)
         /\ UNCHANGED said

Next == Say \/ Write

Spec == Init /\ [][Next]_<<said, written>>
==============================================================================

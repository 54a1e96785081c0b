------------------------------ MODULE EchoStream ------------------------------
(***************************************************************************)
(* stream_sample of the benchmark against serve_connection: a writer task, *)
(* a responder that copies each chunk back, and a reader task, joined by   *)
(* sockets (and, through the tunnel, relays) that hold a bounded number of *)
(* chunks.                                                                 *)
(***************************************************************************)
EXTENDS Naturals

CONSTANTS
  Total,     \* BENCHMARK_BYTES in chunks
  Capacity   \* chunks that each socket and the copy buffer hold

ASSUME EchoAssumption == Total \in Nat \ {0} /\ Capacity \in Nat \ {0}

VARIABLES
  to_write,  \* chunks the writer has still to write
  closed,    \* the writer has shut its half down
  outward,   \* chunks on their way to the responder
  buffer,    \* chunks in the buffer of tokio::io::copy
  echoing,   \* the responder has not seen the end of stream
  homeward,  \* chunks on their way back
  to_read,   \* chunks the reader has still to read
  broken     \* the connection was lost

echovars == <<to_write, closed, outward, buffer, echoing, homeward, to_read, broken>>

EchoInit ==
  /\ to_write = Total /\ to_read = Total
  /\ outward = 0 /\ buffer = 0 /\ homeward = 0
  /\ closed = FALSE /\ echoing = TRUE /\ broken = FALSE

\* The writer: a chunk, or the shutdown after the last one.
WriteChunk ==
  /\ to_write > 0 /\ outward < Capacity
  /\ to_write' = to_write - 1
  /\ outward' = outward + 1
  /\ UNCHANGED <<closed, buffer, echoing, homeward, to_read, broken>>

CloseWriter ==
  /\ to_write = 0 /\ ~closed
  /\ closed' = TRUE
  /\ UNCHANGED <<to_write, outward, buffer, echoing, homeward, to_read, broken>>

\* The responder.
EchoIn ==
  /\ outward > 0 /\ buffer < Capacity
  /\ outward' = outward - 1
  /\ buffer' = buffer + 1
  /\ UNCHANGED <<to_write, closed, echoing, homeward, to_read, broken>>

EchoOut ==
  /\ buffer > 0 /\ homeward < Capacity
  /\ buffer' = buffer - 1
  /\ homeward' = homeward + 1
  /\ UNCHANGED <<to_write, closed, outward, echoing, to_read, broken>>

EchoEnds ==
  /\ echoing /\ closed /\ outward = 0 /\ buffer = 0
  /\ echoing' = FALSE
  /\ UNCHANGED <<to_write, closed, outward, buffer, homeward, to_read, broken>>

\* Mutant: the reader is started when the writer has been joined.
ReaderAfterWriter == closed
\* The reader is spawned before the writer is joined.
ReaderStarted == TRUE

ReadChunk ==
  /\ ReaderStarted
  /\ to_read > 0 /\ homeward > 0
  /\ to_read' = to_read - 1
  /\ homeward' = homeward - 1
  /\ UNCHANGED <<to_write, closed, outward, buffer, echoing, broken>>

\* The connection is lost: every task ends with an error.
Break ==
  /\ ~broken
  /\ broken' = TRUE
  /\ UNCHANGED <<to_write, closed, outward, buffer, echoing, homeward, to_read>>

EchoMoves ==
  ~broken /\ (WriteChunk \/ CloseWriter \/ EchoIn \/ EchoOut \/ EchoEnds \/ ReadChunk)

EchoNext == EchoMoves \/ Break

EchoSpec == EchoInit /\ [][EchoNext]_echovars

-----------------------------------------------------------------------------
\* The transfer never comes to a halt with everyone waiting: however little
\* the sockets hold, until both tasks of stream_sample can be joined one of
\* the three can go on, and no chunk is lost or made up on the way.
NeverStalls ==
  /\ ~broken /\ ~(closed /\ to_read = 0) => ENABLED EchoMoves
  /\ to_write + outward + buffer + homeward = to_read
=============================================================================

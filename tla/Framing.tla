------------------------------- MODULE Framing -------------------------------
(***************************************************************************)
(* Length-prefixed frames: encode_handshake_frame, the framing of          *)
(* seal_record, decode_frame, and the readers of both binaries             *)
(* (read_length_framed, read_record_frame), which collect a frame from a   *)
(* byte stream that TCP delivers in any segments.                          *)
(*                                                                         *)
(* A connection carries one handshake frame and then records.  Sizes and   *)
(* the number of values of a byte are parameters (2 and 4 byte headers and *)
(* 256 in the code).                                                       *)
(***************************************************************************)
EXTENDS Integers, Sequences, SequencesExt

CONSTANTS
  Base,                  \* values of a byte
  HandshakeHeader,       \* bytes of the length of a handshake frame
  RecordHeader,          \* bytes of the length of a record
  MaxHandshake,          \* MAX_HANDSHAKE_MESSAGE
  MaxRecord,             \* MAX_CIPHERTEXT_RECORD
  PayloadBytes,          \* the bytes of the payloads a peer frames
  MaxRecords,            \* bound: records a peer frames
  MaxStream              \* bound: bytes of a stream of arbitrary bytes

Bytes == 0 .. Base - 1

\* Power[n]: how many numbers n bytes can hold.
Power[n \in Nat] == IF n = 0 THEN 1 ELSE Base * Power[n - 1]

ASSUME FramingAssumption ==
  /\ Base \in Nat \ {0} /\ PayloadBytes \subseteq Bytes
  /\ HandshakeHeader \in Nat \ {0} /\ RecordHeader \in Nat \ {0}
  /\ MaxHandshake \in Nat /\ MaxHandshake < Power[HandshakeHeader]
  /\ MaxRecord \in Nat /\ MaxRecord < Power[RecordHeader]
  /\ MaxRecords \in Nat /\ MaxStream \in Nat

VARIABLES
  stream,  \* all the bytes the peer writes before it closes
  sent,    \* the payloads it framed, <<>> if the bytes are arbitrary
  arrived, \* how many of them have reached the socket
  fin,     \* the end of stream has reached the socket
  taken,   \* how many have been read from the socket
  frame,   \* the bytes of the frame being read
  frames,  \* the frames returned so far
  status   \* "reading", "eof" (Ok(None)), "truncated", "invalid"

framevars == <<stream, sent, arrived, fin, taken, frame, frames, status>>

-----------------------------------------------------------------------------
(* Encoding and decoding.                                                  *)

\* Mutant: the least significant byte first.
from_le_bytes(bytes) == FoldRight(LAMBDA b, n : n * Base + b, bytes, 0)
from_be_bytes(bytes) ==
  LET value[i \in 0 .. Len(bytes)] ==
        IF i = 0 THEN 0 ELSE value[i - 1] * Base + bytes[i]
  IN value[Len(bytes)]
to_be_bytes(n, size) ==
  LET shifted[i \in 0 .. size] == IF i = 0 THEN n ELSE shifted[i - 1] \div Base
  IN [i \in 1 .. size |-> shifted[size - i] % Base]

\* encode_handshake_frame, and the frame seal_record returns, for a payload
\* within their limits.
Encode(payload, header) == to_be_bytes(Len(payload), header) \o payload

\* decode_frame: {} is an error (too large, truncated, trailing bytes).
decode_frame(bytes, header, maximum) ==
  LET claimed == from_be_bytes(SubSeq(bytes, 1, header))
  IN IF Len(bytes) < header \/ claimed > maximum \/ Len(bytes) # header + claimed
     THEN {} ELSE {SubSeq(bytes, header + 1, Len(bytes))}

\* The first frame is a handshake message, the others are records.
Header(i) == IF i = 1 THEN HandshakeHeader ELSE RecordHeader
Maximum(i) == IF i = 1 THEN MaxHandshake ELSE MaxRecord
Payload(i) == decode_frame(frames[i], Header(i), Maximum(i))

-----------------------------------------------------------------------------
(* The readers.                                                            *)

\* Mutant: a frame of the maximum size is refused.
LengthBelowMaximum(i, length) == length < Maximum(i) /\ (i > 1 => length # 0)
\* read_length_framed takes an empty message, read_record_frame does not.
LengthAccepted(i, length) == length <= Maximum(i) /\ (i > 1 => length # 0)

Current == Len(frames) + 1
HeaderRead == Len(frame) >= Header(Current)
Length == from_be_bytes(SubSeq(frame, 1, Header(Current)))

\* How many bytes the next read asks for: read_record_frame asks for the
\* first byte alone, to tell an end of stream between records.
Wanted ==
  IF HeaderRead THEN Header(Current) + Length - Len(frame)
  ELSE IF frame = <<>> /\ Current > 1 THEN 1
  ELSE Header(Current) - Len(frame)

\* read and read_exact take what is there, at most what they want.
Read ==
  /\ status = "reading"
  /\ Wanted > 0
  /\ \E n \in 1 .. Wanted :
       /\ taken + n <= arrived
       /\ n = Wanted \/ taken + n = arrived
       /\ frame' = frame \o SubSeq(stream, taken + 1, taken + n)
       /\ taken' = taken + n
  /\ UNCHANGED <<stream, sent, arrived, fin, frames, status>>

\* The header is complete and its length is refused.
RefuseLength ==
  /\ status = "reading"
  /\ Len(frame) = Header(Current)
  /\ ~LengthAccepted(Current, Length)
  /\ status' = "invalid"
  /\ UNCHANGED <<stream, sent, arrived, fin, taken, frame, frames>>

ReturnFrame ==
  /\ status = "reading"
  /\ HeaderRead /\ Wanted = 0
  /\ LengthAccepted(Current, Length)
  /\ frames' = Append(frames, frame)
  /\ frame' = <<>>
  /\ UNCHANGED <<stream, sent, arrived, fin, taken, status>>

\* Mutant: a record that has only begun ends the stream cleanly.
EndsNearRecords == frames # <<>> /\ Len(frame) <= 1
EndsBetweenRecords == frames # <<>> /\ frame = <<>>

\* A read that finds the end of stream.
ReadEof ==
  /\ status = "reading"
  /\ fin /\ taken = arrived
  /\ Wanted > 0
  /\ status' = IF EndsBetweenRecords THEN "eof" ELSE "truncated"
  /\ UNCHANGED <<stream, sent, arrived, fin, taken, frame, frames>>

-----------------------------------------------------------------------------
(* The peer and TCP (external).                                            *)

Arrive ==
  /\ \/ \E n \in arrived + 1 .. Len(stream) : arrived' = n /\ UNCHANGED fin
     \/ arrived = Len(stream) /\ ~fin /\ fin' = TRUE /\ UNCHANGED arrived
  /\ UNCHANGED <<stream, sent, taken, frame, frames, status>>

BytesUpTo(n) == UNION {[1 .. k -> Bytes] : k \in 0 .. n}

\* A peer that frames: one handshake message and then records (a record
\* holds at least its tag).
Payloads(lengths) == UNION {[1 .. k -> PayloadBytes] : k \in lengths}
Converses ==
  \E h \in Payloads(0 .. MaxHandshake), n \in 0 .. MaxRecords :
    \E r \in [1 .. n -> Payloads(1 .. MaxRecord)] : sent = <<h>> \o r

Wire == [i \in 1 .. Len(sent) |-> Encode(sent[i], Header(i))]

FrameInit ==
  /\ \/ stream \in BytesUpTo(MaxStream) /\ sent = <<>>
     \/ /\ Converses
        /\ stream = FlattenSeq(Wire)
  /\ arrived = 0 /\ taken = 0 /\ fin = FALSE
  /\ frame = <<>> /\ frames = <<>> /\ status = "reading"

FrameNext == Read \/ RefuseLength \/ ReturnFrame \/ ReadEof \/ Arrive

FrameSpec == FrameInit /\ [][FrameNext]_framevars

-----------------------------------------------------------------------------
\* Whatever the segments, the frames returned and the one begun are exactly
\* the bytes taken from the stream, in order; decode_frame takes every frame
\* a reader returns; and a stream that ends cleanly was frames to its last
\* byte: an end inside a frame is never taken for an orderly close.
FramesCoverStream ==
  /\ FlattenSeq(frames) \o frame = SubSeq(stream, 1, taken)
  /\ \A i \in 1 .. Len(frames) : Payload(i) # {}
  /\ status = "eof" => frame = <<>> /\ taken = Len(stream)

\* What a peer frames is read back, payload by payload, at every length from
\* the smallest to the maximum, and never refused.
SentIsReadBack ==
  sent # <<>> =>
    /\ status \notin {"truncated", "invalid"}
    /\ \A i \in 1 .. Len(frames) : Payload(i) = {sent[i]}
    /\ status = "eof" => Len(frames) = Len(sent)
=============================================================================

----------------------------- MODULE RelayProofs -----------------------------
(***************************************************************************)
(* Proofs about Relay, for any number of chunks, any buffer size and any   *)
(* choice of faults: each endpoint receives a prefix of what the other one *)
(* sent, an end of stream that hides a loss comes from a failed relay or   *)
(* to a destination that has finished, and a failure in the shared cipher  *)
(* stops both directions of its side.                                      *)
(*                                                                         *)
(* A direction of the session is named by the task t that encrypts it.     *)
(* Its chunks go through three streams: First(t), read by t; Middle(t),    *)
(* the tunnel; and Last(t), written by the task Opener(t) on the far side. *)
(***************************************************************************)
EXTENDS Relay, SequenceTheorems, TLAPS

Opener(t) == IF t = "uplink" THEN "inbound" ELSE "downlink"
First(t) == In(t)
Middle(t) == Out(t)
Last(t) == Out(Opener(t))
Source(t) == First(t)[1]
Sink(t) == Last(t)[2]

\* Task x is not finished, and what it writes can still be read.
Forwards(x) ==
  pc[x] \notin Finished /\ alive[Out(x)[2]] /\ end[Out(x)] = "open"

Busy(x) == IF pc[x] \in {"write", "part"} THEN 1 ELSE 0

\* What has reached the sink of t, read or not.
Reached(t) == Len(got[Sink(t)]) + Len(q[Last(t)])

\* The last record on the tunnel is there in part only.
EndsTorn(s) == s # <<>> /\ s[Len(s)].state = "torn"
TornLast(t) == EndsTorn(q[Middle(t)])

\* Nothing was taken out of the tunnel by the network or by a reset.
Intact(t) ==
  \/ end[Middle(t)] \in {"open", "fin"}
  \/ end[Middle(t)] = "cut" /\ "cut" \notin Faults

\* The cases in which an end of stream says something: nobody on the path
\* ends connections early, or TLS shows it.
EndsTrusted == OuterTls \/ "cut" \notin Faults

-----------------------------------------------------------------------------
(* The inductive invariant.                                                *)

\* A side holds its sockets while one of its tasks runs, and only a task that
\* encrypts leaves records in part.
TasksOK ==
  /\ \A x \in Tasks : pc[x] \notin Finished => alive[Side(x)]
  /\ \A x \in Tasks : pc[x] = "part" => x \in Encrypting

\* A failure inside the cipher has closed it for both tasks of the side.
CipherClosed ==
  \A x \in Tasks : pc[x] \in {"decrypt", "closed"} => ~cipher[Side(x)]

\* Nothing is numbered beyond what the source has sent, and a record that
\* verifies is numbered.
StreamBounded(t, st) == \A i \in 1 .. Len(q[st]) : q[st][i].n <= produced[Source(t)]
WholeNumbered(t) ==
  \A i \in 1 .. Len(q[Middle(t)]) :
    q[Middle(t)][i].state = "whole" => q[Middle(t)][i].n # 0
Bounded(t) ==
  /\ StreamBounded(t, First(t)) /\ StreamBounded(t, Middle(t))
  /\ StreamBounded(t, Last(t)) /\ WholeNumbered(t)
  /\ held[t] <= produced[Source(t)] /\ held[Opener(t)] <= produced[Source(t)]
  /\ Len(got[Sink(t)]) <= produced[Source(t)]
  /\ written[t] <= produced[Source(t)]

\* The sink has read a prefix, and what it can read next continues it.
Arrivals(t) ==
  /\ \A i \in 1 .. Len(got[Sink(t)]) : got[Sink(t)][i] = i
  /\ \A i \in 1 .. Len(q[Last(t)]) : q[Last(t)][i].n = Len(got[Sink(t)]) + i

\* While the opener forwards, it holds the chunk after those that reached the
\* sink, the tunnel continues that, and the records of the tunnel account for
\* all that t has written.
Opening(t) ==
  Forwards(Opener(t)) =>
    /\ pc[Opener(t)] = "write" => held[Opener(t)] = Reached(t) + 1
    /\ \A i \in 1 .. Len(q[Middle(t)]) :
         q[Middle(t)][i].n # 0 =>
           q[Middle(t)][i].n = Reached(t) + Busy(Opener(t)) + i
    /\ Intact(t) =>
         written[t] + (IF TornLast(t) THEN 1 ELSE 0)
           = Reached(t) + Busy(Opener(t)) + Len(q[Middle(t)])

\* While t forwards, it holds the chunk after those it has written, the last
\* record is in part exactly while t writes it, and its input continues what
\* it holds, up to what the source has sent.
Sealing(t) ==
  Forwards(t) =>
    /\ pc[t] \in {"write", "part"} => held[t] = written[t] + 1
    /\ TornLast(t) <=> pc[t] = "part"
    /\ pc[t] = "part" => q[Middle(t)][Len(q[Middle(t)])].n = held[t]
    /\ \A i \in 1 .. Len(q[First(t)]) :
         q[First(t)][i].n = written[t] + Busy(t) + i
    /\ end[First(t)] # "rst" =>
         written[t] + Busy(t) + Len(q[First(t)]) = produced[Source(t)]

\* The source has ended its stream, and t has written all of it.
AllWritten(t) == end[First(t)] # "open" /\ written[t] = produced[Source(t)]

\* All of t's records, and with TLS all the source sent, reached the sink.
AllReached(t) ==
  /\ end[Middle(t)] # "open"
  /\ Reached(t) = written[t]
  /\ OuterTls => AllWritten(t)

\* An end of stream is passed on only by a task that has seen everything.
Endings(t) ==
  /\ Forwards(t) /\ pc[t] = "shut" => AllWritten(t)
  /\ alive[Middle(t)[2]] /\ end[Middle(t)] = "fin" => AllWritten(t)
  /\ EndsTrusted =>
       /\ Forwards(Opener(t)) /\ pc[Opener(t)] = "shut" => AllReached(t)
       /\ alive[Sink(t)] /\ end[Last(t)] = "fin" => AllReached(t)

Direction(t) ==
  Bounded(t) /\ Arrivals(t) /\ Opening(t) /\ Sealing(t) /\ Endings(t)

IInv == TypeOK /\ TasksOK /\ CipherClosed /\ \A t \in Encrypting : Direction(t)

USE BoundsAssumption, OptionsAssumption

-----------------------------------------------------------------------------
(* Where the streams of a direction run.                                   *)

LEMMA Topology ==
  ASSUME NEW t \in Encrypting
  PROVE  /\ t \in Tasks /\ Opener(t) \in Tasks /\ Opener(t) \notin Encrypting
         /\ In(t) = First(t) /\ Out(t) = Middle(t)
         /\ In(Opener(t)) = Middle(t) /\ Out(Opener(t)) = Last(t)
         /\ First(t) \in Streams /\ Middle(t) \in Streams /\ Last(t) \in Streams
         /\ First(t) # Middle(t) /\ First(t) # Last(t) /\ Middle(t) # Last(t)
         /\ First(t)[1] = Source(t) /\ First(t)[2] = Side(t)
         /\ Middle(t)[1] = Side(t) /\ Middle(t)[2] = Side(Opener(t))
         /\ Last(t)[1] = Side(Opener(t)) /\ Last(t)[2] = Sink(t)
         /\ Middle(t) \in Tunnel /\ First(t) \notin Tunnel /\ Last(t) \notin Tunnel
         /\ Source(t) \in Endpoints /\ Sink(t) \in Endpoints
         /\ Side(t) \in Sides /\ Side(Opener(t)) \in Sides
         /\ First(t) = ToSide(Source(t)) /\ Last(t) = FromSide(Sink(t))
         /\ Sink(t) = Far(Source(t)) /\ Source(t) = Far(Sink(t))
         /\ SealedFor(Sink(t)) = t
<1>1. CASE t = "uplink"
  BY <1>1 DEF Encrypting, Opener, First, Middle, Last, Source, Sink, In, Out, Side, Tasks,
     Streams, Tunnel, Endpoints, Sides, ToSide, FromSide, Far, SealedFor, Reverse
<1>2. CASE t = "outbound"
  BY <1>2 DEF Encrypting, Opener, First, Middle, Last, Source, Sink, In, Out, Side, Tasks,
     Streams, Tunnel, Endpoints, Sides, ToSide, FromSide, Far, SealedFor, Reverse
<1> QED BY <1>1, <1>2 DEF Encrypting

\* The two directions have no stream, task or end in common.
LEMMA OtherDirection ==
  ASSUME NEW t \in Encrypting
  PROVE  \E s \in Encrypting :
           /\ s # t /\ Encrypting = {s, t}
           /\ Tasks = {t, s, Opener(t), Opener(s)}
           /\ Opener(s) # Opener(t)
           /\ Streams = {First(t), Middle(t), Last(t), First(s), Middle(s), Last(s)}
           /\ \A a \in {First(t), Middle(t), Last(t)}, b \in {First(s), Middle(s), Last(s)} :
                a # b
           /\ Sibling(t) = Opener(s) /\ Sibling(Opener(t)) = s
           /\ Sibling(s) = Opener(t) /\ Sibling(Opener(s)) = t
           /\ Side(s) = Side(Opener(t)) /\ Side(Opener(s)) = Side(t)
           /\ Reverse(Middle(t)) = Middle(s) /\ Reverse(Last(t)) = First(s)
           /\ Source(s) = Sink(t) /\ Sink(s) = Source(t) /\ Source(t) # Sink(t)
           /\ Endpoints = {Source(t), Sink(t)}
           /\ Side(s) # Side(t)
<1>1. /\ Sibling("uplink") = "downlink" /\ Sibling("downlink") = "uplink"
      /\ Sibling("inbound") = "outbound" /\ Sibling("outbound") = "inbound"
  BY DEF Sibling, Side, Tasks
<1>2. CASE t = "uplink"
  <2> WITNESS "outbound" \in Encrypting
  <2> QED
  BY <1>1, <1>2 DEF Encrypting, Opener, First, Middle, Last, Source, Sink, In, Out, Side,
     Tasks, Streams, Endpoints, Reverse
<1>3. CASE t = "outbound"
  <2> WITNESS "uplink" \in Encrypting
  <2> QED
  BY <1>1, <1>3 DEF Encrypting, Opener, First, Middle, Last, Source, Sink, In, Out, Side,
     Tasks, Streams, Endpoints, Reverse
<1> QED BY <1>2, <1>3 DEF Encrypting

-----------------------------------------------------------------------------
(* Sequences of chunks.                                                    *)

LEMMA TailFacts ==
  ASSUME NEW S, NEW s \in Seq(S), s # <<>>
  PROVE  /\ Head(s) = s[1] /\ Len(s) \in Nat /\ Len(s) > 0
         /\ s[1] \in S
         /\ Tail(s) \in Seq(S)
         /\ Len(Tail(s)) = Len(s) - 1
         /\ \A i \in 1 .. Len(Tail(s)) : Tail(s)[i] = s[i + 1]
BY HeadTailProperties, LenProperties, EmptySeq, ElementOfSeq

LEMMA AppendFacts ==
  ASSUME NEW S, NEW s \in Seq(S), NEW x \in S
  PROVE  /\ Append(s, x) \in Seq(S)
         /\ Append(s, x) # <<>>
         /\ Len(s) \in Nat
         /\ Len(Append(s, x)) = Len(s) + 1
         /\ \A i \in 1 .. Len(s) : Append(s, x)[i] = s[i]
         /\ Append(s, x)[Len(s) + 1] = x
BY AppendProperties, LenProperties

LEMMA PrefixFacts ==
  ASSUME NEW S, NEW s \in Seq(S), NEW k \in 0 .. Len(s)
  PROVE  /\ Len(s) \in Nat
         /\ SubSeq(s, 1, k) \in Seq(S)
         /\ Len(SubSeq(s, 1, k)) = k
         /\ \A i \in 1 .. k : SubSeq(s, 1, k)[i] = s[i]
<1>1. Len(s) \in Nat /\ \A i \in 1 .. k : s[i] \in S
  BY LenProperties, ElementOfSeq
<1> QED BY <1>1, SubSeqProperties

LEMMA EmptyFacts ==
  ASSUME NEW S
  PROVE  <<>> \in Seq(S) /\ Len(<<>>) = 0
BY EmptySeq

-----------------------------------------------------------------------------
(* What dropping sockets does to a stream that was c with end e.           *)

Fades(st, c, e) ==
  \/ q'[st] = c /\ (end'[st] = e \/ (e = "open" /\ end'[st] = "cut"))
  \/ end'[st] = "rst" /\ \E k \in 0 .. Len(c) : q'[st] = SubSeq(c, 1, k)
  \/ ~alive'[st[2]] /\ q'[st] = <<>> /\ end'[st] = e

StreamsTyped ==
  /\ q \in [Streams -> Seq(Chunks)]
  /\ \A st \in Streams : Len(q[st]) <= Capacity
  /\ end \in [Streams -> Ends]
  /\ alive \in [Parties -> BOOLEAN]

\* Streams join different parties.
LEMMA StreamParties ==
  ASSUME NEW st \in Streams
  PROVE  st[1] \in Parties /\ st[2] \in Parties /\ st[1] # st[2] /\ Reverse(st) \in Streams
BY DEF Streams, Parties, Reverse

LEMMA DropFades ==
  ASSUME NEW p \in Parties,
         NEW q1 \in [Streams -> Seq(Chunks)], NEW e1 \in [Streams -> Ends],
         \A st \in Streams : Len(q1[st]) <= Capacity,
         alive \in [Parties -> BOOLEAN],
         Drop(p, q1, e1)
  PROVE  /\ StreamsTyped'
         /\ alive' = [alive EXCEPT ![p] = FALSE]
         /\ \A st \in Streams : Fades(st, q1[st], e1[st])
<1> DEFINE Reset == {st \in Streams : st[1] = p /\ q1[Reverse(st)] # <<>>}
<1>1. PICK keep \in [Reset -> 0 .. Capacity] :
        /\ \A st \in Reset : keep[st] <= Len(q1[st])
        /\ alive' = [alive EXCEPT ![p] = FALSE]
        /\ q' = [st \in Streams |->
                   IF st[2] = p THEN <<>>
                   ELSE IF st \in Reset THEN SubSeq(q1[st], 1, keep[st])
                   ELSE q1[st]]
        /\ end' = [st \in Streams |->
                     IF st \in Reset THEN "rst"
                     ELSE IF st[1] = p /\ e1[st] = "open" THEN "cut"
                     ELSE e1[st]]
  BY DEF Drop
<1>2. ASSUME NEW st \in Streams
      PROVE  /\ Fades(st, q1[st], e1[st])
             /\ q'[st] \in Seq(Chunks) /\ Len(q'[st]) <= Capacity
             /\ end'[st] \in Ends
  <2> HIDE DEF Reset
  <2>1. q1[st] \in Seq(Chunks) /\ Len(q1[st]) \in Nat /\ e1[st] \in Ends
    BY LenProperties
  <2>2. CASE st[2] = p
    <3>1. st \notin Reset /\ st[1] # p
      BY <2>2, StreamParties DEF Reset
    <3>2. q'[st] = <<>> /\ end'[st] = e1[st]
      BY <1>1, <2>2, <3>1
    <3>3. ~alive'[st[2]]
      BY <1>1, <2>2
    <3>4. q'[st] \in Seq(Chunks) /\ Len(q'[st]) = 0
      BY <3>2, EmptyFacts
    <3>5. Fades(st, q1[st], e1[st])
      BY <3>2, <3>3 DEF Fades
    <3> QED BY <2>1, <3>2, <3>4, <3>5
  <2>3. CASE st[2] # p /\ st \in Reset
    <3>1. keep[st] \in 0 .. Len(q1[st])
      BY <1>1, <2>1, <2>3
    <3>2. q'[st] = SubSeq(q1[st], 1, keep[st]) /\ end'[st] = "rst"
      BY <1>1, <2>3
    <3>3. SubSeq(q1[st], 1, keep[st]) \in Seq(Chunks) /\ Len(SubSeq(q1[st], 1, keep[st])) = keep[st]
      BY <2>1, <3>1, PrefixFacts
    <3>4. \E k \in 0 .. Len(q1[st]) : q'[st] = SubSeq(q1[st], 1, k)
      BY <3>1, <3>2
    <3>5. Fades(st, q1[st], e1[st])
      BY <3>2, <3>4 DEF Fades
    <3>6. Len(q'[st]) <= Capacity /\ q'[st] \in Seq(Chunks)
      BY <2>1, <3>1, <3>2, <3>3
    <3> QED BY <3>2, <3>5, <3>6 DEF Ends
  <2>4. CASE st[2] # p /\ st \notin Reset
    BY <1>1, <2>1, <2>4 DEF Fades, Ends
  <2> QED BY <2>2, <2>3, <2>4
<1>3. StreamsTyped'
  BY <1>1, <1>2 DEF StreamsTyped
<1> QED BY <1>1, <1>2, <1>3

\* A stream that fades keeps a prefix; if it can still be read and was not
\* reset, it keeps all.
LEMMA FadeFacts ==
  ASSUME NEW st, NEW c \in Seq(Chunks), NEW e \in Ends, Fades(st, c, e)
  PROVE  /\ q'[st] \in Seq(Chunks) /\ Len(q'[st]) \in Nat /\ Len(q'[st]) <= Len(c)
         /\ \A i \in 1 .. Len(q'[st]) : q'[st][i] = c[i]
         /\ e # "open" => end'[st] # "open"
         /\ e = "rst" => end'[st] = "rst"
         /\ alive'[st[2]] /\ end'[st] # "rst" =>
              q'[st] = c /\ (end'[st] = e \/ (e = "open" /\ end'[st] = "cut"))
<1>1. Len(c) \in Nat
  BY LenProperties
<1>2. CASE q'[st] = c /\ (end'[st] = e \/ (e = "open" /\ end'[st] = "cut"))
  BY <1>1, <1>2
<1>3. CASE end'[st] = "rst" /\ \E k \in 0 .. Len(c) : q'[st] = SubSeq(c, 1, k)
  <2>1. PICK k \in 0 .. Len(c) : q'[st] = SubSeq(c, 1, k)
    BY <1>3
  <2>2. Len(q'[st]) = k /\ q'[st] \in Seq(Chunks) /\ \A i \in 1 .. k : q'[st][i] = c[i]
    BY <2>1, PrefixFacts
  <2> QED BY <1>1, <1>3, <2>2
<1>4. CASE ~alive'[st[2]] /\ q'[st] = <<>> /\ end'[st] = e
  <2>1. q'[st] \in Seq(Chunks) /\ Len(q'[st]) = 0
    BY <1>4, EmptyFacts
  <2> QED BY <1>1, <1>4, <2>1
<1> QED BY <1>2, <1>3, <1>4 DEF Fades

LEMMA Siblings ==
  ASSUME NEW x \in Tasks
  PROVE  /\ Sibling(x) \in Tasks /\ Sibling(x) # x /\ Side(Sibling(x)) = Side(x)
         /\ Side(x) \in Parties /\ Side(x) \in Sides
         /\ \A y \in Tasks : Side(y) = Side(x) => y \in {x, Sibling(x)}
<1>1. /\ Sibling("uplink") = "downlink" /\ Sibling("downlink") = "uplink"
      /\ Sibling("inbound") = "outbound" /\ Sibling("outbound") = "inbound"
  BY DEF Sibling, Side, Tasks
<1> QED BY <1>1 DEF Tasks, Side, Parties, Sides

TasksTyped ==
  /\ pc \in [Tasks -> {"read", "write", "part", "shut"} \cup Finished]
  /\ held \in [Tasks -> Numbers]

\* The end of a task: streams fade, and the side may lose its sockets.
LEMMA FinishFacts ==
  ASSUME NEW x \in Tasks, NEW r \in Finished,
         NEW q1 \in [Streams -> Seq(Chunks)], NEW e1 \in [Streams -> Ends],
         \A st \in Streams : Len(q1[st]) <= Capacity,
         TypeOK, TasksOK, Finish(x, r, q1, e1)
  PROVE  /\ StreamsTyped' /\ TasksTyped' /\ TasksOK'
         /\ pc' = [pc EXCEPT ![x] = r] /\ held' = [held EXCEPT ![x] = 0]
         /\ \A p \in Parties : alive'[p] => alive[p]
         /\ \A st \in Streams : Fades(st, q1[st], e1[st])
<1>1. pc' = [pc EXCEPT ![x] = r] /\ held' = [held EXCEPT ![x] = 0]
  BY DEF Finish
<1>2. TasksTyped'
  BY <1>1 DEF TypeOK, TasksTyped, Numbers
<1>3. pc'[x] = r /\ r # "part" /\ \A y \in Tasks \ {x} : pc'[y] = pc[y]
  BY <1>1 DEF TypeOK, Finished
<1>4. CASE pc[Sibling(x)] \in Finished
  <2>1. Drop(Side(x), q1, e1)
    BY <1>4 DEF Finish
  <2>2. /\ StreamsTyped' /\ alive' = [alive EXCEPT ![Side(x)] = FALSE]
        /\ \A st \in Streams : Fades(st, q1[st], e1[st])
    BY <2>1, DropFades, Siblings DEF TypeOK
  <2>3. \A p \in Parties : alive'[p] => alive[p]
    BY <2>2 DEF TypeOK
  <2>4. ASSUME NEW y \in Tasks, pc'[y] \notin Finished
        PROVE  alive'[Side(y)]
    <3>1. y # x /\ y # Sibling(x) /\ pc[y] \notin Finished
      BY <1>3, <1>4, <2>4, Siblings
    <3>2. Side(y) # Side(x) /\ alive[Side(y)] /\ Side(y) \in Parties
      BY <3>1, Siblings DEF TasksOK
    <3> QED BY <2>2, <3>2 DEF TypeOK
  <2>5. \A y \in Tasks : pc'[y] = "part" => y \in Encrypting
    BY <1>3 DEF TasksOK
  <2> QED BY <1>1, <1>2, <2>2, <2>3, <2>4, <2>5 DEF TasksOK
<1>5. CASE pc[Sibling(x)] \notin Finished
  <2>1. q' = q1 /\ end' = e1 /\ alive' = alive
    BY <1>5 DEF Finish
  <2>2. StreamsTyped'
    BY <2>1 DEF TypeOK, StreamsTyped
  <2>3. \A st \in Streams : Fades(st, q1[st], e1[st])
    BY <2>1 DEF Fades
  <2>4. TasksOK'
    BY <1>3, <2>1 DEF TasksOK
  <2> QED BY <1>1, <1>2, <2>1, <2>2, <2>3, <2>4
<1> QED BY <1>4, <1>5

-----------------------------------------------------------------------------
(* A direction that gets worse: tasks end, parties die, streams fade.      *)

\* The types of a direction's state.
DirectionTyped(t) ==
  /\ \A st \in {First(t), Middle(t), Last(t)} :
       /\ q[st] \in Seq(Chunks) /\ Len(q[st]) \in Nat
       /\ \A i \in 1 .. Len(q[st]) : q[st][i] \in Chunks /\ q[st][i].n \in Nat
       /\ end[st] \in Ends
  /\ \A x \in {t, Opener(t)} :
       pc[x] \in {"read", "write", "part", "shut"} \cup Finished /\ held[x] \in Nat
  /\ produced[Source(t)] \in Nat /\ written[t] \in Nat
  /\ got[Sink(t)] \in Seq(Numbers) /\ Len(got[Sink(t)]) \in Nat
  /\ Busy(t) \in Nat /\ Busy(Opener(t)) \in Nat /\ Reached(t) \in Nat

LEMMA DirectionTypes ==
  ASSUME NEW t \in Encrypting, TypeOK
  PROVE  DirectionTyped(t)
<1>0. TasksTyped
  BY DEF TypeOK, TasksTyped
<1>1. ASSUME NEW st \in {First(t), Middle(t), Last(t)}
      PROVE  /\ q[st] \in Seq(Chunks) /\ Len(q[st]) \in Nat
             /\ \A i \in 1 .. Len(q[st]) : q[st][i] \in Chunks /\ q[st][i].n \in Nat
             /\ end[st] \in Ends
  <2>1. st \in Streams
    BY Topology
  <2>2. q[st] \in Seq(Chunks) /\ end[st] \in Ends
    BY <2>1 DEF TypeOK
  <2>3. Len(q[st]) \in Nat /\ \A i \in 1 .. Len(q[st]) : q[st][i] \in Chunks
    BY <2>2, LenProperties, ElementOfSeq
  <2>4. \A c \in Chunks : c.n \in Nat
    BY DEF Chunks, Numbers
  <2> QED BY <2>2, <2>3, <2>4
<1>2. \A x \in {t, Opener(t)} :
        pc[x] \in {"read", "write", "part", "shut"} \cup Finished /\ held[x] \in Nat
  BY <1>0, Topology DEF TasksTyped, Numbers
<1>3. produced[Source(t)] \in Nat /\ written[t] \in Nat
  BY Topology DEF TypeOK, Numbers
<1>4. got[Sink(t)] \in Seq(Numbers)
  BY Topology DEF TypeOK
<1>5. Len(got[Sink(t)]) \in Nat
  BY <1>4, LenProperties
<1>6. Busy(t) \in Nat /\ Busy(Opener(t)) \in Nat
  BY DEF Busy
<1>7. Reached(t) \in Nat
  <2>1. Len(q[Last(t)]) \in Nat
    BY <1>1
  <2>2. \A m, n \in Nat : m + n \in Nat
    OBVIOUS
  <2> QED BY <1>5, <2>1, <2>2 DEF Reached
<1> QED BY <1>1, <1>2, <1>3, <1>4, <1>5, <1>6, <1>7 DEF DirectionTyped

LEMMA TypesNow == TypeOK => \A t \in Encrypting : DirectionTyped(t)
BY DirectionTypes

LEMMA TypesNext == TypeOK' => (\A t \in Encrypting : DirectionTyped(t))'
BY TypesNow, PTL

\* Stream st fades, after task x has taken something from it and ended.
Skips(x, st) ==
  pc'[x] \in Finished /\ Readable(st) /\ Fades(st, Tail(q[st]), end[st])

\* Task x has shut its output st down and ended.
Shuts(x, st) ==
  pc[x] = "shut" /\ pc'[x] \in Finished /\ end[st] = "open" /\ Fades(st, q[st], "fin")

Worsens(t) ==
  /\ \A x \in {t, Opener(t)} :
       \/ pc'[x] = pc[x] /\ held'[x] = held[x]
       \/ pc'[x] \in Finished /\ held'[x] = 0
  /\ \A p \in Parties : alive'[p] => alive[p]
  /\ written'[t] = written[t]
  /\ produced'[Source(t)] = produced[Source(t)]
  /\ got'[Sink(t)] = got[Sink(t)]
  /\ Fades(First(t), q[First(t)], end[First(t)]) \/ Skips(t, First(t))
  /\ \/ Fades(Middle(t), q[Middle(t)], end[Middle(t)])
     \/ Skips(Opener(t), Middle(t))
     \/ Shuts(t, Middle(t))
  /\ Fades(Last(t), q[Last(t)], end[Last(t)]) \/ Shuts(Opener(t), Last(t))

LEMMA TailEndsTorn ==
  ASSUME NEW s \in Seq(Chunks), s # <<>>, s[1].state # "torn"
  PROVE  /\ EndsTorn(Tail(s)) <=> EndsTorn(s)
         /\ EndsTorn(s) => Tail(s)[Len(Tail(s))] = s[Len(s)]
<1>1. /\ Len(s) \in Nat /\ Len(s) > 0 /\ Tail(s) \in Seq(Chunks)
      /\ Len(Tail(s)) = Len(s) - 1
      /\ \A i \in 1 .. Len(Tail(s)) : Tail(s)[i] = s[i + 1]
  BY TailFacts
<1>2. CASE Len(s) = 1
  <2>1. Len(Tail(s)) = 0
    BY <1>1, <1>2
  <2>2. Tail(s) = <<>>
    BY <1>1, <2>1, EmptySeq
  <2> QED BY <1>2, <2>2 DEF EndsTorn
<1>3. CASE Len(s) # 1
  <2>1. Len(Tail(s)) \in 1 .. Len(Tail(s)) /\ Len(Tail(s)) + 1 = Len(s) /\ Len(Tail(s)) # 0
    <3>1. \A n \in Nat : n > 0 /\ n # 1 =>
            n - 1 \in 1 .. (n - 1) /\ (n - 1) + 1 = n /\ n - 1 # 0
      OBVIOUS
    <3> QED BY <1>1, <1>3, <3>1
  <2>2. Tail(s)[Len(Tail(s))] = s[Len(s)]
    BY <1>1, <2>1
  <2>3. Tail(s) # <<>>
    BY <2>1, EmptySeq
  <2> QED BY <2>2, <2>3 DEF EndsTorn
<1> QED BY <1>2, <1>3

LEMMA WorseStream ==
  ASSUME NEW st \in Streams, NEW x, NEW y, TypeOK,
         Fades(st, q[st], end[st]) \/ Skips(x, st) \/ Shuts(y, st)
  PROVE  /\ end[st] # "open" => end'[st] # "open"
         /\ end[st] = "rst" => end'[st] = "rst"
         /\ \A i \in 1 .. Len(q'[st]) : \E j \in 1 .. Len(q[st]) : q'[st][i] = q[st][j]
         /\ pc'[x] \notin Finished =>
              /\ Len(q'[st]) <= Len(q[st])
              /\ \A i \in 1 .. Len(q'[st]) : q'[st][i] = q[st][i]
              /\ alive'[st[2]] /\ end'[st] # "rst" => q'[st] = q[st]
         /\ alive'[st[2]] /\ end'[st] # "rst" =>
              /\ \/ end'[st] = end[st] \/ (end[st] = "open" /\ end'[st] = "cut")
                 \/ Shuts(y, st) /\ end'[st] = "fin"
              /\ EndsTorn(q'[st]) <=> EndsTorn(q[st])
              /\ EndsTorn(q[st]) => q'[st][Len(q'[st])] = q[st][Len(q[st])]
<1>1. q[st] \in Seq(Chunks) /\ end[st] \in Ends
  BY DEF TypeOK
<1>2. Len(q[st]) \in Nat
  BY <1>1, LenProperties
<1>3. CASE Fades(st, q[st], end[st])
  <2>1. /\ Len(q'[st]) \in Nat /\ Len(q'[st]) <= Len(q[st])
        /\ \A i \in 1 .. Len(q'[st]) : q'[st][i] = q[st][i]
        /\ end[st] # "open" => end'[st] # "open"
        /\ end[st] = "rst" => end'[st] = "rst"
        /\ alive'[st[2]] /\ end'[st] # "rst" =>
             /\ q'[st] = q[st]
             /\ end'[st] = end[st] \/ (end[st] = "open" /\ end'[st] = "cut")
    BY <1>1, <1>3, FadeFacts
  <2> QED BY <1>2, <2>1
<1>4. CASE Skips(x, st)
  <2>1. pc'[x] \in Finished /\ Readable(st) /\ Fades(st, Tail(q[st]), end[st])
    BY <1>4 DEF Skips
  <2>2. q[st] # <<>> /\ q[st][1].state # "torn" /\ Len(q[st]) \in Nat /\ Len(q[st]) > 0
    BY <1>1, <2>1, TailFacts DEF Readable
  <2>3. /\ Tail(q[st]) \in Seq(Chunks) /\ Len(Tail(q[st])) = Len(q[st]) - 1
        /\ \A i \in 1 .. Len(Tail(q[st])) : Tail(q[st])[i] = q[st][i + 1]
    BY <1>1, <2>2, TailFacts
  <2>4. /\ Len(q'[st]) \in Nat /\ Len(q'[st]) <= Len(Tail(q[st]))
        /\ \A i \in 1 .. Len(q'[st]) : q'[st][i] = Tail(q[st])[i]
        /\ end[st] # "open" => end'[st] # "open"
        /\ end[st] = "rst" => end'[st] = "rst"
        /\ alive'[st[2]] /\ end'[st] # "rst" =>
             /\ q'[st] = Tail(q[st])
             /\ end'[st] = end[st] \/ (end[st] = "open" /\ end'[st] = "cut")
    <3>1. Tail(q[st]) \in Seq(Chunks)
      BY <2>3
    <3> QED BY ONLY <1>1, <2>1, <3>1, FadeFacts
  <2>5. \A i \in 1 .. Len(q'[st]) : i + 1 \in 1 .. Len(q[st]) /\ q'[st][i] = q[st][i + 1]
    BY <1>2, <2>3, <2>4
  <2>6. ASSUME alive'[st[2]], end'[st] # "rst"
        PROVE  /\ EndsTorn(q'[st]) <=> EndsTorn(q[st])
               /\ EndsTorn(q[st]) => q'[st][Len(q'[st])] = q[st][Len(q[st])]
    <3>1. q'[st] = Tail(q[st])
      BY <2>4, <2>6
    <3> QED BY <1>1, <2>2, <3>1, TailEndsTorn
  <2> QED BY <2>1, <2>4, <2>5, <2>6
<1>5. CASE Shuts(y, st)
  <2>1. end[st] = "open" /\ Fades(st, q[st], "fin")
    BY <1>5 DEF Shuts
  <2>2. "fin" \in Ends
    BY DEF Ends
  <2>3. /\ Len(q'[st]) \in Nat /\ Len(q'[st]) <= Len(q[st])
        /\ \A i \in 1 .. Len(q'[st]) : q'[st][i] = q[st][i]
        /\ alive'[st[2]] /\ end'[st] # "rst" => q'[st] = q[st] /\ end'[st] = "fin"
    BY <1>1, <2>1, <2>2, FadeFacts
  <2> QED BY <1>2, <1>5, <2>1, <2>3
<1> QED BY <1>3, <1>4, <1>5

LEMMA WorseDirection ==
  ASSUME NEW t \in Encrypting, TypeOK, TypeOK', TasksOK', Direction(t), Worsens(t)
  PROVE  Direction(t)'
<1> DEFINE a == First(t)
           b == Middle(t)
           c == Last(t)
           x == Opener(t)
           Same(y) == pc'[y] = pc[y] /\ held'[y] = held[y]
<1>1. DirectionTyped(t) /\ DirectionTyped(t)'
  BY TypesNow, TypesNext
<1>2. /\ Same(t) \/ (pc'[t] \in Finished /\ held'[t] = 0)
      /\ Same(x) \/ (pc'[x] \in Finished /\ held'[x] = 0)
      /\ written'[t] = written[t] /\ produced'[Source(t)] = produced[Source(t)]
      /\ got'[Sink(t)] = got[Sink(t)]
      /\ \A p \in Parties : alive'[p] => alive[p]
  BY DEF Worsens
<1>3. /\ pc'[t] \notin Finished => alive'[a[2]] /\ Same(t)
      /\ pc'[x] \notin Finished => alive'[b[2]] /\ Same(x)
  BY <1>2, Topology DEF TasksOK
<1>4. /\ end[a] # "open" => end'[a] # "open"
      /\ end[a] = "rst" => end'[a] = "rst"
      /\ \A i \in 1 .. Len(q'[a]) : \E j \in 1 .. Len(q[a]) : q'[a][i] = q[a][j]
      /\ pc'[t] \notin Finished =>
           /\ Len(q'[a]) <= Len(q[a])
           /\ \A i \in 1 .. Len(q'[a]) : q'[a][i] = q[a][i]
           /\ alive'[a[2]] /\ end'[a] # "rst" => q'[a] = q[a]
  BY WorseStream, Topology DEF Worsens
<1>5. /\ end[b] # "open" => end'[b] # "open"
      /\ \A i \in 1 .. Len(q'[b]) : \E j \in 1 .. Len(q[b]) : q'[b][i] = q[b][j]
      /\ pc'[x] \notin Finished =>
           /\ Len(q'[b]) <= Len(q[b])
           /\ \A i \in 1 .. Len(q'[b]) : q'[b][i] = q[b][i]
           /\ alive'[b[2]] /\ end'[b] # "rst" => q'[b] = q[b]
      /\ alive'[b[2]] /\ end'[b] # "rst" =>
           /\ \/ end'[b] = end[b] \/ (end[b] = "open" /\ end'[b] = "cut")
              \/ Shuts(t, b) /\ end'[b] = "fin"
           /\ EndsTorn(q'[b]) <=> EndsTorn(q[b])
           /\ EndsTorn(q[b]) => q'[b][Len(q'[b])] = q[b][Len(q[b])]
  BY WorseStream, Topology DEF Worsens
<1>6. /\ Len(q'[c]) <= Len(q[c])
      /\ \A i \in 1 .. Len(q'[c]) : q'[c][i] = q[c][i]
      /\ end[c] # "open" => end'[c] # "open"
      /\ alive'[c[2]] /\ end'[c] # "rst" =>
           /\ q'[c] = q[c]
           /\ \/ end'[c] = end[c] \/ (end[c] = "open" /\ end'[c] = "cut")
              \/ Shuts(x, c) /\ end'[c] = "fin"
  <2>1. q[c] \in Seq(Chunks) /\ end[c] \in Ends /\ "fin" \in Ends
    BY <1>1 DEF DirectionTyped, Ends
  <2>2. CASE Fades(c, q[c], end[c])
    BY <2>1, <2>2, FadeFacts
  <2>3. CASE Shuts(x, c)
    <3>1. end[c] = "open" /\ Fades(c, q[c], "fin")
      BY <2>3 DEF Shuts
    <3> QED BY <2>1, <2>3, <3>1, FadeFacts
  <2> QED BY <2>2, <2>3 DEF Worsens
<1>7. alive[b[2]] \in BOOLEAN /\ b[2] \in Parties /\ c[2] \in Parties /\ a[2] \in Parties
  BY Topology, StreamParties DEF TypeOK
<1>8. Forwards(t)' => /\ Forwards(t) /\ Same(t) /\ alive'[a[2]]
                      /\ EndsTorn(q'[b]) <=> EndsTorn(q[b])
                      /\ EndsTorn(q[b]) => q'[b][Len(q'[b])] = q[b][Len(q[b])]
  BY <1>2, <1>3, <1>5, <1>7, Topology DEF Forwards
<1>9. Forwards(x)' => /\ Forwards(x) /\ Same(x) /\ alive'[b[2]] /\ q'[c] = q[c]
                      /\ Len(q'[b]) <= Len(q[b])
                      /\ \A i \in 1 .. Len(q'[b]) : q'[b][i] = q[b][i]
                      /\ end'[b] # "rst" => q'[b] = q[b]
  BY <1>2, <1>3, <1>5, <1>6, <1>7, Topology DEF Forwards
<1> HIDE DEF a, b, c, x
<1>10. Bounded(t)'
  <2>1. Bounded(t)
    BY DEF Direction
  <2> DEFINE P == produced[Source(t)]
  <2>2. /\ \A i \in 1 .. Len(q[a]) : q[a][i].n <= P
        /\ \A i \in 1 .. Len(q[b]) : q[b][i].n <= P
        /\ \A i \in 1 .. Len(q[c]) : q[c][i].n <= P
        /\ held[t] <= P /\ held[x] <= P /\ Len(got[Sink(t)]) <= P /\ written[t] <= P
        /\ \A i \in 1 .. Len(q[b]) : q[b][i].state = "whole" => q[b][i].n # 0
    BY <2>1 DEF Bounded, StreamBounded, WholeNumbered, a, b, c, x
  <2>3. P \in Nat /\ Len(q'[c]) \in Nat /\ Len(q[c]) \in Nat
    BY <1>1 DEF DirectionTyped, c
  <2>4. \A i \in 1 .. Len(q'[a]) : q'[a][i].n <= P
    BY <1>4, <2>2
  <2>5. \A i \in 1 .. Len(q'[b]) :
          q'[b][i].n <= P /\ (q'[b][i].state = "whole" => q'[b][i].n # 0)
    BY <1>5, <2>2
  <2>6. \A i \in 1 .. Len(q'[c]) : q'[c][i].n <= P
    BY <1>6, <2>2, <2>3
  <2>7. held'[t] <= P /\ held'[x] <= P
    BY <1>2, <2>2, <2>3
  <2> HIDE DEF P
  <2>8. P = produced'[Source(t)] /\ P = produced[Source(t)]
    BY <1>2 DEF P
  <2> QED BY <1>2, <2>2, <2>4, <2>5, <2>6, <2>7, <2>8
     DEF Bounded, StreamBounded, WholeNumbered, a, b, c, x
<1>11. Arrivals(t)'
  <2>1. Arrivals(t)
    BY DEF Direction
  <2>2. Len(q'[c]) \in Nat /\ Len(q[c]) \in Nat
    BY <1>1 DEF DirectionTyped, c
  <2>3. \A i \in 1 .. Len(q[c]) : q[c][i].n = Len(got[Sink(t)]) + i
    BY <2>1 DEF Arrivals, c
  <2>4. \A i \in 1 .. Len(q'[c]) : q'[c][i].n = Len(got[Sink(t)]) + i
    BY <1>6, <2>2, <2>3
  <2> QED BY <1>2, <2>1, <2>4 DEF Arrivals, c
<1>12. Opening(t)'
  <2> SUFFICES ASSUME Forwards(x)'
               PROVE  /\ pc'[x] = "write" => held'[x] = Reached(t)' + 1
                      /\ \A i \in 1 .. Len(q'[b]) :
                           q'[b][i].n # 0 => q'[b][i].n = Reached(t)' + Busy(x)' + i
                      /\ Intact(t)' =>
                           written'[t] + (IF TornLast(t)' THEN 1 ELSE 0)
                             = Reached(t)' + Busy(x)' + Len(q'[b])
    BY DEF Opening, b, x
  <2>1. /\ pc[x] = "write" => held[x] = Reached(t) + 1
        /\ \A i \in 1 .. Len(q[b]) :
             q[b][i].n # 0 => q[b][i].n = Reached(t) + Busy(x) + i
        /\ Intact(t) =>
             written[t] + (IF TornLast(t) THEN 1 ELSE 0)
               = Reached(t) + Busy(x) + Len(q[b])
    BY <1>9 DEF Direction, Opening, b, x
  <2>2. Reached(t)' = Reached(t) /\ Busy(x)' = Busy(x)
    BY <1>2, <1>9 DEF Reached, Busy, c
  <2>3. Intact(t)' => Intact(t) /\ q'[b] = q[b]
    BY <1>5, <1>9 DEF Intact, Shuts, b
  <2>4. q'[b] = q[b] => TornLast(t)' = TornLast(t)
    BY DEF TornLast, b
  <2>5. Len(q'[b]) \in Nat /\ Len(q[b]) \in Nat
    BY <1>1 DEF DirectionTyped, b
  <2>6. ASSUME NEW i \in 1 .. Len(q'[b]), q'[b][i].n # 0
        PROVE  q'[b][i].n = Reached(t)' + Busy(x)' + i
    <3>1. i \in 1 .. Len(q[b]) /\ q'[b][i] = q[b][i]
      BY <1>9, <2>5
    <3> QED BY <2>1, <2>2, <2>6, <3>1
  <2>7. pc'[x] = "write" => held'[x] = Reached(t)' + 1
    BY <1>9, <2>1, <2>2
  <2>8. ASSUME Intact(t)'
        PROVE  written'[t] + (IF TornLast(t)' THEN 1 ELSE 0)
                 = Reached(t)' + Busy(x)' + Len(q'[b])
    BY <1>2, <2>1, <2>2, <2>3, <2>4, <2>8
  <2> QED BY <2>6, <2>7, <2>8
<1>13. Sealing(t)'
  <2> SUFFICES ASSUME Forwards(t)'
               PROVE  /\ pc'[t] \in {"write", "part"} => held'[t] = written'[t] + 1
                      /\ TornLast(t)' <=> pc'[t] = "part"
                      /\ pc'[t] = "part" => q'[b][Len(q'[b])].n = held'[t]
                      /\ \A i \in 1 .. Len(q'[a]) : q'[a][i].n = written'[t] + Busy(t)' + i
                      /\ end'[a] # "rst" =>
                           written'[t] + Busy(t)' + Len(q'[a]) = produced'[Source(t)]
    BY DEF Sealing, a, b
  <2>1. /\ pc[t] \in {"write", "part"} => held[t] = written[t] + 1
        /\ TornLast(t) <=> pc[t] = "part"
        /\ pc[t] = "part" => q[b][Len(q[b])].n = held[t]
        /\ \A i \in 1 .. Len(q[a]) : q[a][i].n = written[t] + Busy(t) + i
        /\ end[a] # "rst" => written[t] + Busy(t) + Len(q[a]) = produced[Source(t)]
    BY <1>8 DEF Direction, Sealing, a, b
  <2>2. Busy(t)' = Busy(t) /\ (TornLast(t)' <=> TornLast(t))
    BY <1>8 DEF Busy, TornLast, b
  <2>3. pc'[t] = "part" => q'[b][Len(q'[b])].n = held'[t]
    BY <1>8, <2>1 DEF TornLast, b
  <2>4. /\ Len(q'[a]) <= Len(q[a])
        /\ \A i \in 1 .. Len(q'[a]) : q'[a][i] = q[a][i]
        /\ end'[a] # "rst" => q'[a] = q[a] /\ end[a] # "rst"
    BY <1>4, <1>8 DEF Forwards
  <2>5. Len(q'[a]) \in Nat /\ Len(q[a]) \in Nat
    BY <1>1 DEF DirectionTyped, a
  <2>6. ASSUME NEW i \in 1 .. Len(q'[a])
        PROVE  q'[a][i].n = written'[t] + Busy(t)' + i
    <3>1. i \in 1 .. Len(q[a]) /\ q'[a][i] = q[a][i]
      BY <2>4, <2>5
    <3> QED BY <1>2, <2>1, <2>2, <3>1
  <2>7. pc'[t] \in {"write", "part"} => held'[t] = written'[t] + 1
    BY <1>2, <1>8, <2>1
  <2>8. TornLast(t)' <=> pc'[t] = "part"
    BY <1>8, <2>1, <2>2
  <2>9. end'[a] # "rst" => written'[t] + Busy(t)' + Len(q'[a]) = produced'[Source(t)]
    BY <1>2, <2>1, <2>2, <2>4
  <2> QED BY <2>3, <2>6, <2>7, <2>8, <2>9
<1>14. Endings(t)'
  <2>1. AllWritten(t) => AllWritten(t)'
    BY <1>2, <1>4 DEF AllWritten, a
  <2>2. Forwards(t)' /\ pc'[t] = "shut" => AllWritten(t)'
    BY <1>8, <2>1 DEF Direction, Endings
  <2>3. alive'[b[2]] /\ end'[b] = "fin" => AllWritten(t)'
    <3> SUFFICES ASSUME alive'[b[2]], end'[b] = "fin"
                 PROVE  AllWritten(t)
      BY <2>1
    <3>1. alive[b[2]]
      BY <1>2, <1>7
    <3>2. end[b] = "fin" \/ Shuts(t, b)
      BY <1>5
    <3>3. CASE end[b] = "fin"
      BY <3>1, <3>3 DEF Direction, Endings, b
    <3>4. CASE Shuts(t, b)
      <4>1. Forwards(t) /\ pc[t] = "shut"
        BY <3>1, <3>4, Topology DEF Shuts, Forwards, Finished, b
      <4> QED BY <4>1 DEF Direction, Endings
    <3> QED BY <3>2, <3>3, <3>4
  <2>4. AllReached(t) /\ q'[c] = q[c] => AllReached(t)'
    BY <1>2, <1>5, <2>1 DEF AllReached, Reached, b, c
  <2>5. EndsTrusted /\ Forwards(x)' /\ pc'[x] = "shut" => AllReached(t)'
    BY <1>9, <2>4 DEF Direction, Endings, x
  <2>6. EndsTrusted /\ alive'[Sink(t)] /\ end'[c] = "fin" => AllReached(t)'
    <3> SUFFICES ASSUME EndsTrusted, alive'[c[2]], end'[c] = "fin"
                 PROVE  AllReached(t)'
      BY Topology DEF c
    <3>1. alive[c[2]] /\ q'[c] = q[c] /\ (end[c] = "fin" \/ Shuts(x, c))
      BY <1>2, <1>6, <1>7
    <3>2. CASE end[c] = "fin"
      BY <2>4, <3>1, <3>2, Topology DEF Direction, Endings, c
    <3>3. CASE Shuts(x, c)
      <4>1. Forwards(x) /\ pc[x] = "shut"
        BY <3>1, <3>3, Topology DEF Shuts, Forwards, Finished, c, x
      <4> QED BY <2>4, <3>1, <4>1 DEF Direction, Endings, x
    <3> QED BY <3>1, <3>2, <3>3
  <2> QED BY <2>2, <2>3, <2>5, <2>6 DEF Endings, EndsTrusted, b, c, x
<1> QED BY <1>10, <1>11, <1>12, <1>13, <1>14 DEF Direction

-----------------------------------------------------------------------------
(* A direction that moves on.  Each lemma is one step of one of its tasks, *)
(* of its endpoints or of the network.                                     *)

Quiet(x) == pc'[x] = pc[x] /\ held'[x] = held[x]
Still(st) == q'[st] = q[st] /\ end'[st] = end[st]
SameCounts(t) ==
  /\ written'[t] = written[t]
  /\ produced'[Source(t)] = produced[Source(t)]
  /\ got'[Sink(t)] = got[Sink(t)]

\* The parts of the invariant that do not see what has changed.
LEMMA ArrivalsKept ==
  ASSUME NEW t, Arrivals(t), Still(Last(t)), got'[Sink(t)] = got[Sink(t)]
  PROVE  Arrivals(t)'
BY DEF Arrivals, Still

LEMMA ForwardsKept ==
  ASSUME NEW x, alive' = alive, end'[Out(x)] = end[Out(x)], pc'[x] = pc[x]
  PROVE  (Forwards(x)' <=> Forwards(x)) /\ Busy(x)' = Busy(x)
BY DEF Forwards, Busy

LEMMA OpeningKept ==
  ASSUME NEW t \in Encrypting, Opening(t), alive' = alive, Quiet(Opener(t)),
         Still(Middle(t)), Still(Last(t)),
         got'[Sink(t)] = got[Sink(t)], written'[t] = written[t]
  PROVE  Opening(t)'
<1>1. (Forwards(Opener(t))' <=> Forwards(Opener(t))) /\ Busy(Opener(t))' = Busy(Opener(t))
  BY ForwardsKept, Topology DEF Quiet, Still
<1>2. Reached(t)' = Reached(t)
  BY DEF Reached, Still
<1>3. (Intact(t)' <=> Intact(t)) /\ (TornLast(t)' <=> TornLast(t))
  BY DEF Intact, TornLast, Still
<1> QED BY <1>1, <1>2, <1>3 DEF Opening, Quiet, Still

LEMMA SealingKept ==
  ASSUME NEW t \in Encrypting, Sealing(t), alive' = alive, Quiet(t),
         Still(First(t)), Still(Middle(t)),
         written'[t] = written[t], produced'[Source(t)] = produced[Source(t)]
  PROVE  Sealing(t)'
BY Topology DEF Sealing, Quiet, Still, Forwards, Busy, TornLast, EndsTorn

LEMMA EndingsKept ==
  ASSUME NEW t \in Encrypting, Endings(t), alive' = alive, SameCounts(t),
         pc'[t] = pc[t] \/ pc'[t] # "shut",
         pc'[Opener(t)] = pc[Opener(t)] \/ pc'[Opener(t)] # "shut",
         end'[First(t)] = end[First(t)] \/ end'[First(t)] # "open",
         end'[Middle(t)] = end[Middle(t)] \/ end'[Middle(t)] \notin {"open", "fin"},
         Still(Last(t))
  PROVE  Endings(t)'
<1>1. AllWritten(t) => AllWritten(t)'
  BY DEF AllWritten, SameCounts
<1>2. AllReached(t) => AllReached(t)'
  BY <1>1 DEF AllReached, Reached, SameCounts, Still
<1>3. Forwards(t)' /\ pc'[t] = "shut" => Forwards(t) /\ pc[t] = "shut"
  BY Topology DEF Forwards
<1>4. Forwards(Opener(t))' /\ pc'[Opener(t)] = "shut"
        => Forwards(Opener(t)) /\ pc[Opener(t)] = "shut"
  BY Topology DEF Forwards, Still
<1> QED BY <1>1, <1>2, <1>3, <1>4 DEF Endings, EndsTrusted, Still

\* t takes the next chunk of the source.
LEMMA SealerReads ==
  ASSUME NEW t \in Encrypting, TypeOK, TypeOK', Direction(t), alive' = alive,
         pc[t] = "read", q[First(t)] # <<>>,
         pc'[t] = "write", held'[t] = Head(q[First(t)]).n,
         q'[First(t)] = Tail(q[First(t)]), end'[First(t)] = end[First(t)],
         Still(Middle(t)), Still(Last(t)), Quiet(Opener(t)), SameCounts(t)
  PROVE  Direction(t)'
<1> DEFINE a == First(t)
           b == Middle(t)
           P == produced[Source(t)]
<1>1. DirectionTyped(t) /\ Bounded(t) /\ Arrivals(t) /\ Opening(t) /\ Sealing(t) /\ Endings(t)
  BY TypesNow DEF Direction
<1>2. /\ q[a] \in Seq(Chunks) /\ written[t] \in Nat /\ P \in Nat
      /\ \A i \in 1 .. Len(q[a]) : q[a][i].n \in Nat
  BY <1>1 DEF DirectionTyped
<1>3. /\ Head(q[a]) = q[a][1] /\ Len(q[a]) \in Nat /\ Len(q[a]) > 0
      /\ Len(q'[a]) = Len(q[a]) - 1
      /\ \A i \in 1 .. Len(q'[a]) : q'[a][i] = q[a][i + 1] /\ i + 1 \in 1 .. Len(q[a])
  BY <1>2, TailFacts
<1>4. Bounded(t)'
  <2>1. StreamBounded(t, a) /\ StreamBounded(t, b) /\ StreamBounded(t, Last(t))
    BY <1>1 DEF Bounded
  <2>2. StreamBounded(t, a)' /\ held'[t] <= P
    BY <1>3, <2>1 DEF StreamBounded, SameCounts
  <2>3. StreamBounded(t, b)' /\ StreamBounded(t, Last(t))' /\ WholeNumbered(t)'
    BY <1>1, <2>1 DEF Bounded, StreamBounded, WholeNumbered, Still, SameCounts
  <2> QED BY <1>1, <2>2, <2>3 DEF Bounded, SameCounts, Quiet
<1>5. Arrivals(t)' /\ Opening(t)' /\ Endings(t)'
  BY <1>1, ArrivalsKept, OpeningKept, EndingsKept DEF SameCounts, Still, Quiet
<1>6. Sealing(t)'
  <2> SUFFICES ASSUME Forwards(t)'
               PROVE  /\ held'[t] = written'[t] + 1
                      /\ ~TornLast(t)'
                      /\ \A i \in 1 .. Len(q'[a]) : q'[a][i].n = written'[t] + 1 + i
                      /\ end'[a] # "rst" => written'[t] + 1 + Len(q'[a]) = produced'[Source(t)]
    BY DEF Sealing, Busy
  <2>1. Forwards(t)
    BY Topology DEF Forwards, Still, Finished
  <2>2. /\ \A i \in 1 .. Len(q[a]) : q[a][i].n = written[t] + i
        /\ ~TornLast(t)
        /\ end[a] # "rst" => written[t] + Len(q[a]) = P
    BY <1>1, <1>2, <1>3, <2>1 DEF Sealing, Busy
  <2>3. held'[t] = written[t] + 1
    BY <1>2, <1>3, <2>2
  <2>4. ~TornLast(t)'
    BY <2>2 DEF TornLast, Still
  <2>5. \A i \in 1 .. Len(q'[a]) : q'[a][i].n = written[t] + 1 + i
    BY <1>2, <1>3, <2>2
  <2> QED BY <1>2, <1>3, <2>2, <2>3, <2>4, <2>5 DEF SameCounts
<1> QED BY <1>4, <1>5, <1>6 DEF Direction

\* The opener takes a record that verifies.
LEMMA OpenerReads ==
  ASSUME NEW t \in Encrypting, TypeOK, TypeOK', Direction(t), alive' = alive,
         pc[Opener(t)] = "read", q[Middle(t)] # <<>>, Head(q[Middle(t)]).state = "whole",
         pc'[Opener(t)] = "write", held'[Opener(t)] = Head(q[Middle(t)]).n,
         q'[Middle(t)] = Tail(q[Middle(t)]), end'[Middle(t)] = end[Middle(t)],
         Still(First(t)), Still(Last(t)), Quiet(t), SameCounts(t)
  PROVE  Direction(t)'
<1> DEFINE b == Middle(t)
           x == Opener(t)
           P == produced[Source(t)]
<1>1. DirectionTyped(t) /\ Bounded(t) /\ Arrivals(t) /\ Opening(t) /\ Sealing(t) /\ Endings(t)
  BY TypesNow DEF Direction
<1>2. /\ q[b] \in Seq(Chunks) /\ written[t] \in Nat /\ P \in Nat
      /\ \A i \in 1 .. Len(q[b]) : q[b][i].n \in Nat
  BY <1>1 DEF DirectionTyped
<1>3. /\ Head(q[b]) = q[b][1] /\ Len(q[b]) \in Nat /\ Len(q[b]) > 0
      /\ Len(q'[b]) = Len(q[b]) - 1
      /\ \A i \in 1 .. Len(q'[b]) : q'[b][i] = q[b][i + 1] /\ i + 1 \in 1 .. Len(q[b])
  BY <1>2, TailFacts
<1>4. Bounded(t)'
  <2>1. StreamBounded(t, b) /\ StreamBounded(t, First(t)) /\ StreamBounded(t, Last(t))
    BY <1>1 DEF Bounded
  <2>2. StreamBounded(t, b)' /\ held'[x] <= P /\ WholeNumbered(t)'
    BY <1>1, <1>3, <2>1 DEF Bounded, StreamBounded, WholeNumbered, SameCounts
  <2>3. StreamBounded(t, First(t))' /\ StreamBounded(t, Last(t))'
    BY <2>1 DEF StreamBounded, Still, SameCounts
  <2> QED BY <1>1, <2>2, <2>3 DEF Bounded, SameCounts, Quiet
<1>5. Arrivals(t)' /\ Endings(t)'
  BY <1>1, ArrivalsKept, EndingsKept DEF SameCounts, Still, Quiet
<1>6. /\ TornLast(t)' <=> TornLast(t)
      /\ TornLast(t) => q'[b][Len(q'[b])] = q[b][Len(q[b])]
  <2>1. q[b][1].state # "torn"
    BY <1>3
  <2>2. /\ EndsTorn(Tail(q[b])) <=> EndsTorn(q[b])
        /\ EndsTorn(q[b]) => Tail(q[b])[Len(Tail(q[b]))] = q[b][Len(q[b])]
    BY <1>2, <2>1, TailEndsTorn
  <2>3. q'[b] = Tail(q[b])
    OBVIOUS
  <2> QED BY <2>2, <2>3 DEF TornLast
<1>7. Reached(t)' = Reached(t) /\ Reached(t) \in Nat
  <2>1. Reached(t)' = Reached(t)
    BY DEF Reached, Still, SameCounts
  <2> QED BY <1>1, <2>1 DEF DirectionTyped
<1>8. Opening(t)'
  <2> SUFFICES ASSUME Forwards(x)'
               PROVE  /\ held'[x] = Reached(t) + 1
                      /\ \A i \in 1 .. Len(q'[b]) :
                           q'[b][i].n # 0 => q'[b][i].n = Reached(t) + 1 + i
                      /\ Intact(t)' =>
                           written'[t] + (IF TornLast(t)' THEN 1 ELSE 0)
                             = Reached(t) + 1 + Len(q'[b])
    BY <1>7 DEF Opening, Busy
  <2>1. Forwards(x)
    BY Topology DEF Forwards, Still, Finished
  <2>2. /\ \A i \in 1 .. Len(q[b]) : q[b][i].n # 0 => q[b][i].n = Reached(t) + i
        /\ Intact(t) => written[t] + (IF TornLast(t) THEN 1 ELSE 0) = Reached(t) + Len(q[b])
    BY <1>1, <1>3, <1>7, <2>1 DEF Opening, Busy
  <2>3. q[b][1].n # 0
    BY <1>1, <1>3 DEF Bounded, WholeNumbered
  <2>4. held'[x] = Reached(t) + 1
    BY <1>3, <2>2, <2>3
  <2>5. \A i \in 1 .. Len(q'[b]) : q'[b][i].n # 0 => q'[b][i].n = Reached(t) + 1 + i
    BY <1>3, <1>7, <2>2
  <2>6. Intact(t)' <=> Intact(t)
    BY DEF Intact
  <2> QED BY <1>2, <1>3, <1>6, <1>7, <2>2, <2>4, <2>5, <2>6 DEF SameCounts
<1>9. Sealing(t)'
  <2>1. (Forwards(t)' <=> Forwards(t)) /\ Busy(t)' = Busy(t)
    BY ForwardsKept, Topology DEF Quiet
  <2> QED BY <1>1, <1>6, <2>1 DEF Sealing, Quiet, Still, SameCounts, TornLast
<1> QED BY <1>4, <1>5, <1>8, <1>9 DEF Direction

\* t begins a record on the tunnel.
LEMMA SealerBegins ==
  ASSUME NEW t \in Encrypting, TypeOK, TypeOK', Direction(t), alive' = alive,
         pc[t] = "write", alive[Middle(t)[2]], end[Middle(t)] = "open",
         pc'[t] = "part", held'[t] = held[t],
         q'[Middle(t)] = Append(q[Middle(t)], Chunk(held[t], "torn")),
         end'[Middle(t)] = end[Middle(t)],
         Still(First(t)), Still(Last(t)), Quiet(Opener(t)), SameCounts(t)
  PROVE  Direction(t)'
<1> DEFINE b == Middle(t)
           x == Opener(t)
           P == produced[Source(t)]
           n == Len(q[b])
<1>1. DirectionTyped(t) /\ Bounded(t) /\ Arrivals(t) /\ Opening(t) /\ Sealing(t) /\ Endings(t)
  BY TypesNow DEF Direction
<1>2. /\ q[b] \in Seq(Chunks) /\ written[t] \in Nat /\ P \in Nat /\ held[t] \in Nat
      /\ \A i \in 1 .. n : q[b][i].n \in Nat
  BY <1>1 DEF DirectionTyped
<1>3. Chunk(held[t], "torn") \in Chunks
  BY Topology DEF Chunk, Chunks, TypeOK
<1>4. /\ n \in Nat /\ Len(q'[b]) = n + 1
      /\ \A i \in 1 .. n : q'[b][i] = q[b][i]
      /\ q'[b][n + 1] = Chunk(held[t], "torn") /\ q'[b] # <<>>
  BY <1>2, <1>3, AppendFacts
<1>5. q'[b][n + 1].n = held[t] /\ q'[b][n + 1].state = "torn"
  BY <1>4 DEF Chunk
<1>6. \A i \in 1 .. Len(q'[b]) : i \in 1 .. n \/ i = n + 1
  BY <1>4
<1>7. TornLast(t)'
  BY <1>4, <1>5 DEF TornLast, EndsTorn
<1>8. Bounded(t)'
  <2>1. StreamBounded(t, b)' /\ WholeNumbered(t)'
    BY <1>1, <1>4, <1>5, <1>6 DEF Bounded, StreamBounded, WholeNumbered, SameCounts
  <2>2. StreamBounded(t, First(t))' /\ StreamBounded(t, Last(t))'
    BY <1>1 DEF Bounded, StreamBounded, Still, SameCounts
  <2> QED BY <1>1, <2>1, <2>2 DEF Bounded, SameCounts, Quiet
<1>9. Arrivals(t)' /\ Endings(t)'
  BY <1>1, ArrivalsKept, EndingsKept DEF SameCounts, Still, Quiet
<1>10. Forwards(t)
  BY Topology DEF Forwards, Finished
<1>11. held[t] = written[t] + 1 /\ ~TornLast(t)
  BY <1>1, <1>10 DEF Sealing
<1>12. Opening(t)'
  <2>1. (Forwards(x)' <=> Forwards(x)) /\ Busy(x)' = Busy(x) /\ Reached(t)' = Reached(t)
    BY ForwardsKept, Topology DEF Quiet, Still, Reached, SameCounts
  <2> SUFFICES ASSUME Forwards(x)
               PROVE  /\ pc'[x] = "write" => held'[x] = Reached(t) + 1
                      /\ \A i \in 1 .. Len(q'[b]) :
                           q'[b][i].n # 0 => q'[b][i].n = Reached(t) + Busy(x) + i
                      /\ written'[t] + 1 = Reached(t) + Busy(x) + Len(q'[b])
    BY <1>7, <2>1 DEF Opening
  <2>2. Reached(t) \in Nat /\ Busy(x) \in Nat
    BY <1>1 DEF DirectionTyped
  <2>3. written[t] = Reached(t) + Busy(x) + n
    BY <1>1, <1>2, <1>11 DEF Opening, Intact
  <2>4. \A i \in 1 .. n : q[b][i].n # 0 => q[b][i].n = Reached(t) + Busy(x) + i
    BY <1>1 DEF Opening
  <2>5. \A i \in 1 .. Len(q'[b]) :
          q'[b][i].n # 0 => q'[b][i].n = Reached(t) + Busy(x) + i
    BY <1>2, <1>4, <1>5, <1>6, <1>11, <2>2, <2>3, <2>4
  <2>6. pc'[x] = "write" => held'[x] = Reached(t) + 1
    BY <1>1 DEF Opening, Quiet
  <2>7. written'[t] + 1 = Reached(t) + Busy(x) + Len(q'[b])
    BY <1>2, <1>4, <2>2, <2>3 DEF SameCounts
  <2> QED BY <2>5, <2>6, <2>7
<1>13. Sealing(t)'
  <2>1. /\ \A i \in 1 .. Len(q[First(t)]) : q[First(t)][i].n = written[t] + 1 + i
        /\ end[First(t)] # "rst" => written[t] + 1 + Len(q[First(t)]) = P
    BY <1>1, <1>10 DEF Sealing, Busy
  <2>2. q'[b][Len(q'[b])].n = held'[t]
    BY <1>4, <1>5
  <2> QED BY <1>7, <1>11, <2>1, <2>2 DEF Sealing, Busy, Still, SameCounts
<1> QED BY <1>8, <1>9, <1>12, <1>13 DEF Direction

\* t completes the record it has begun.
LEMMA SealerCompletes ==
  ASSUME NEW t \in Encrypting, TypeOK, TypeOK', Direction(t), alive' = alive,
         pc[t] = "part", alive[Middle(t)[2]], end[Middle(t)] = "open",
         pc'[t] = "read", held'[t] = 0,
         q'[Middle(t)] = [q[Middle(t)] EXCEPT ![Len(q[Middle(t)])].state = "whole"],
         end'[Middle(t)] = end[Middle(t)], written'[t] = written[t] + 1,
         produced'[Source(t)] = produced[Source(t)], got'[Sink(t)] = got[Sink(t)],
         Still(First(t)), Still(Last(t)), Quiet(Opener(t))
  PROVE  Direction(t)'
<1> DEFINE b == Middle(t)
           x == Opener(t)
           P == produced[Source(t)]
           n == Len(q[b])
<1>1. DirectionTyped(t) /\ Bounded(t) /\ Arrivals(t) /\ Opening(t) /\ Sealing(t) /\ Endings(t)
  BY TypesNow DEF Direction
<1>2. /\ q[b] \in Seq(Chunks) /\ written[t] \in Nat /\ P \in Nat /\ held[t] \in Nat
      /\ n \in Nat /\ \A i \in 1 .. n : q[b][i].n \in Nat /\ q[b][i] \in Chunks
  BY <1>1 DEF DirectionTyped
<1>3. Forwards(t)
  BY Topology DEF Forwards, Finished
<1>4. held[t] = written[t] + 1 /\ TornLast(t) /\ q[b][n].n = held[t]
  BY <1>1, <1>3 DEF Sealing
<1>5. n \in 1 .. n /\ q[b] # <<>>
  <2>1. q[b] # <<>>
    BY <1>4 DEF TornLast, EndsTorn
  <2>2. n > 0
    BY <1>2, <2>1, TailFacts
  <2>3. \A k \in Nat : k > 0 => k \in 1 .. k
    OBVIOUS
  <2> QED BY <1>2, <2>1, <2>2, <2>3
<1>6. /\ Len(q'[b]) = n
      /\ \A i \in 1 .. n : q'[b][i].n = q[b][i].n
      /\ \A i \in 1 .. n : i # n => q'[b][i] = q[b][i]
      /\ q'[b][n].state = "whole"
  <2> DEFINE e == [q[b][n] EXCEPT !.state = "whole"]
  <2>1. q'[b] = [q[b] EXCEPT ![n] = e]
    OBVIOUS
  <2>2. e \in Chunks /\ e.n = q[b][n].n /\ e.state = "whole"
    BY <1>2, <1>5 DEF Chunks
  <2> HIDE DEF e
  <2>3. /\ Len(q'[b]) = n
        /\ \A i \in 1 .. n : q'[b][i] = IF i = n THEN e ELSE q[b][i]
    <3>1. q[b] \in Seq(Chunks) /\ n \in 1 .. Len(q[b])
      BY <1>2, <1>5
    <3>2. [q[b] EXCEPT ![n] = e] \in Seq(Chunks) /\ Len([q[b] EXCEPT ![n] = e]) = Len(q[b])
      BY <2>2, <3>1, ExceptSeq
    <3>3. DOMAIN q[b] = 1 .. n
      BY <3>1, LenProperties
    <3> QED BY <2>1, <3>2, <3>3
  <2> QED BY <1>5, <2>2, <2>3
<1>7. ~TornLast(t)'
  BY <1>6 DEF TornLast, EndsTorn
<1>8. Bounded(t)'
  <2>1. StreamBounded(t, b)'
    BY <1>1, <1>6 DEF Bounded, StreamBounded
  <2>2. WholeNumbered(t)'
    BY <1>1, <1>2, <1>4, <1>5, <1>6 DEF Bounded, WholeNumbered
  <2>3. StreamBounded(t, First(t))' /\ StreamBounded(t, Last(t))'
    BY <1>1 DEF Bounded, StreamBounded, Still
  <2>4. held'[t] <= P /\ written'[t] <= P
    BY <1>1, <1>2, <1>4 DEF Bounded
  <2> QED BY <1>1, <2>1, <2>2, <2>3, <2>4 DEF Bounded, Quiet
<1>9. Arrivals(t)'
  BY <1>1, ArrivalsKept
<1>10. (Forwards(x)' <=> Forwards(x)) /\ Busy(x)' = Busy(x) /\ Reached(t)' = Reached(t)
  BY ForwardsKept, Topology DEF Quiet, Still, Reached
<1>11. Opening(t)'
  <2> SUFFICES ASSUME Forwards(x)
               PROVE  /\ pc'[x] = "write" => held'[x] = Reached(t) + 1
                      /\ \A i \in 1 .. Len(q'[b]) :
                           q'[b][i].n # 0 => q'[b][i].n = Reached(t) + Busy(x) + i
                      /\ written'[t] + 0 = Reached(t) + Busy(x) + Len(q'[b])
    BY <1>7, <1>10 DEF Opening
  <2>1. Intact(t)
    BY DEF Intact
  <2>2. /\ pc[x] = "write" => held[x] = Reached(t) + 1
        /\ \A i \in 1 .. n : q[b][i].n # 0 => q[b][i].n = Reached(t) + Busy(x) + i
        /\ written[t] + 1 = Reached(t) + Busy(x) + n
    BY <1>1, <1>4, <2>1 DEF Opening
  <2>3. \A i \in 1 .. Len(q'[b]) : q'[b][i].n # 0 => q'[b][i].n = Reached(t) + Busy(x) + i
    BY <1>6, <2>2
  <2>4. written'[t] + 0 = Reached(t) + Busy(x) + Len(q'[b])
    BY <1>2, <1>6, <2>2
  <2>5. pc'[x] = "write" => held'[x] = Reached(t) + 1
    BY <2>2 DEF Quiet
  <2> QED BY <2>3, <2>4, <2>5
<1>12. Sealing(t)'
  <2>1. /\ \A i \in 1 .. Len(q[First(t)]) : q[First(t)][i].n = written[t] + 1 + i
        /\ end[First(t)] # "rst" => written[t] + 1 + Len(q[First(t)]) = P
    BY <1>1, <1>3 DEF Sealing, Busy
  <2>2. /\ \A i \in 1 .. Len(q'[First(t)]) : q'[First(t)][i].n = written'[t] + 0 + i
        /\ end'[First(t)] # "rst" => written'[t] + 0 + Len(q'[First(t)]) = P
    BY <1>2, <2>1 DEF Still
  <2> QED BY <1>7, <2>2 DEF Sealing, Busy
<1>13. Endings(t)'
  <2>1. ~AllReached(t)
    BY DEF AllReached
  <2>2. EndsTrusted => ~(Forwards(x) /\ pc[x] = "shut") /\ ~(alive[Sink(t)] /\ end[Last(t)] = "fin")
    BY <1>1, <2>1 DEF Endings
  <2> QED BY <1>10, <2>2 DEF Endings, Quiet, Still, EndsTrusted
<1> QED BY <1>8, <1>9, <1>11, <1>12, <1>13 DEF Direction

\* The opener passes the chunk it holds on to the sink.
LEMMA OpenerWrites ==
  ASSUME NEW t \in Encrypting, TypeOK, TypeOK', Direction(t), alive' = alive,
         pc[Opener(t)] = "write", alive[Last(t)[2]], end[Last(t)] = "open",
         pc'[Opener(t)] = "read", held'[Opener(t)] = 0,
         q'[Last(t)] = Append(q[Last(t)], Chunk(held[Opener(t)], "whole")),
         end'[Last(t)] = end[Last(t)],
         Still(First(t)), Still(Middle(t)), Quiet(t), SameCounts(t)
  PROVE  Direction(t)'
<1> DEFINE b == Middle(t)
           c == Last(t)
           x == Opener(t)
           P == produced[Source(t)]
           n == Len(q[c])
           g == Len(got[Sink(t)])
<1>1. DirectionTyped(t) /\ Bounded(t) /\ Arrivals(t) /\ Opening(t) /\ Sealing(t) /\ Endings(t)
  BY TypesNow DEF Direction
<1>2. /\ q[c] \in Seq(Chunks) /\ written[t] \in Nat /\ P \in Nat /\ held[x] \in Nat
      /\ g \in Nat /\ n \in Nat /\ Len(q[b]) \in Nat /\ Reached(t) \in Nat
      /\ \A i \in 1 .. n : q[c][i].n \in Nat
  BY <1>1 DEF DirectionTyped
<1>3. Chunk(held[x], "whole") \in Chunks
  BY Topology DEF Chunk, Chunks, TypeOK
<1>4. /\ Len(q'[c]) = n + 1
      /\ \A i \in 1 .. n : q'[c][i] = q[c][i]
      /\ q'[c][n + 1].n = held[x]
  <2>1. /\ Len(q'[c]) = n + 1
        /\ \A i \in 1 .. n : q'[c][i] = q[c][i]
        /\ q'[c][n + 1] = Chunk(held[x], "whole")
    BY <1>2, <1>3, AppendFacts
  <2> QED BY <2>1 DEF Chunk
<1>5. \A i \in 1 .. Len(q'[c]) : i \in 1 .. n \/ i = n + 1
  BY <1>2, <1>4
<1>6. Forwards(x)
  BY Topology DEF Forwards, Finished
<1>7. held[x] = g + n + 1
  BY <1>1, <1>6 DEF Opening, Reached
<1>8. Reached(t)' = g + (n + 1) /\ Reached(t) = g + n
  BY <1>4 DEF Reached, SameCounts
<1>9. Bounded(t)'
  <2>1. StreamBounded(t, c)'
    BY <1>1, <1>4, <1>5 DEF Bounded, StreamBounded, SameCounts
  <2>2. StreamBounded(t, First(t))' /\ StreamBounded(t, b)' /\ WholeNumbered(t)'
    BY <1>1 DEF Bounded, StreamBounded, WholeNumbered, Still, SameCounts
  <2>3. held'[x] <= P
    BY <1>2
  <2> QED BY <1>1, <2>1, <2>2, <2>3 DEF Bounded, SameCounts, Quiet
<1>10. Arrivals(t)'
  <2>1. \A i \in 1 .. n : q[c][i].n = g + i
    BY <1>1 DEF Arrivals
  <2>2. \A i \in 1 .. Len(q'[c]) : q'[c][i].n = g + i
    <3>1. \A k, m \in Nat : k + (m + 1) = k + m + 1
      OBVIOUS
    <3>2. q'[c][n + 1].n = g + (n + 1)
      BY <1>2, <1>4, <1>7, <3>1
    <3> QED BY <1>4, <1>5, <2>1, <3>2
  <2> QED BY <1>1, <2>2 DEF Arrivals, SameCounts
<1>11. Opening(t)'
  <2>1. /\ \A i \in 1 .. Len(q[b]) : q[b][i].n # 0 => q[b][i].n = Reached(t) + 1 + i
        /\ Intact(t) => written[t] + (IF TornLast(t) THEN 1 ELSE 0)
                          = Reached(t) + 1 + Len(q[b])
    BY <1>1, <1>6 DEF Opening, Busy
  <2>2. (Intact(t)' <=> Intact(t)) /\ (TornLast(t)' <=> TornLast(t))
    BY DEF Intact, TornLast, Still
  <2>3. Reached(t)' = Reached(t) + 1 /\ Reached(t)' + 0 = Reached(t) + 1
    <3>1. \A k, m \in Nat : k + (m + 1) = k + m + 1 /\ k + (m + 1) + 0 = k + m + 1
      OBVIOUS
    <3>2. g \in Nat /\ n \in Nat
      BY <1>2
    <3> HIDE DEF g, n
    <3>3. g + (n + 1) = g + n + 1 /\ g + (n + 1) + 0 = g + n + 1
      BY <3>1, <3>2
    <3> QED BY <1>8, <3>3
  <2> QED BY <2>1, <2>2, <2>3 DEF Opening, Busy, Still, SameCounts
<1>12. Sealing(t)'
  BY <1>1, SealingKept DEF SameCounts
<1>13. Endings(t)'
  <2>1. AllWritten(t)' <=> AllWritten(t)
    BY DEF AllWritten, Still, SameCounts
  <2>2. (Forwards(t)' <=> Forwards(t))
    BY ForwardsKept, Topology DEF Quiet, Still
  <2> QED BY <1>1, <2>1, <2>2 DEF Endings, Quiet, Still, EndsTrusted
<1> QED BY <1>9, <1>10, <1>11, <1>12, <1>13 DEF Direction

\* t sees the end of the source's stream.
LEMMA SealerSeesEnd ==
  ASSUME NEW t \in Encrypting, TypeOK, TypeOK', Direction(t), alive' = alive,
         pc[t] = "read", EndIsEof(First(t)), pc'[t] = "shut", held'[t] = held[t],
         Still(First(t)), Still(Middle(t)), Still(Last(t)), Quiet(Opener(t)), SameCounts(t)
  PROVE  Direction(t)'
<1>1. DirectionTyped(t) /\ Bounded(t) /\ Arrivals(t) /\ Opening(t) /\ Sealing(t) /\ Endings(t)
  BY TypesNow DEF Direction
<1>2. Bounded(t)'
  BY <1>1 DEF Bounded, StreamBounded, WholeNumbered, Still, Quiet, SameCounts
<1>3. Arrivals(t)' /\ Opening(t)'
  BY <1>1, ArrivalsKept, OpeningKept DEF SameCounts
<1>4. Forwards(t)' <=> Forwards(t)
  BY Topology DEF Forwards, Still, Finished
<1>5. (TornLast(t)' <=> TornLast(t)) /\ Busy(t)' = 0 /\ Busy(t) = 0
  BY DEF TornLast, Still, Busy
<1>6. Sealing(t)'
  BY <1>1, <1>4, <1>5 DEF Sealing, Still, SameCounts
<1>7. Endings(t)'
  <2>1. Forwards(t) => AllWritten(t)
    <3>1. q[First(t)] = <<>> /\ end[First(t)] \notin {"open", "rst"}
      BY Topology DEF EndIsEof, CleanEnd
    <3>2. Len(q[First(t)]) = 0
      BY <3>1, EmptyFacts
    <3>3. Forwards(t) => written[t] + 0 + 0 = produced[Source(t)]
      BY <1>1, <1>5, <3>1, <3>2 DEF Sealing
    <3>4. Forwards(t) => written[t] = produced[Source(t)]
      BY <1>1, <3>3 DEF DirectionTyped
    <3> QED BY <3>1, <3>4 DEF AllWritten
  <2>2. (AllWritten(t)' <=> AllWritten(t)) /\ (AllReached(t)' <=> AllReached(t))
    BY DEF AllWritten, AllReached, Reached, Still, SameCounts
  <2>3. Forwards(Opener(t))' <=> Forwards(Opener(t))
    BY ForwardsKept, Topology DEF Quiet, Still
  <2> QED BY <1>1, <1>4, <2>1, <2>2, <2>3 DEF Endings, EndsTrusted, Still, Quiet
<1> QED BY <1>2, <1>3, <1>6, <1>7 DEF Direction

\* The opener sees the end of the tunnel between two records.
LEMMA OpenerSeesEnd ==
  ASSUME NEW t \in Encrypting, TypeOK, TypeOK', TasksOK, Direction(t), alive' = alive,
         pc[Opener(t)] = "read", EndIsEof(Middle(t)),
         pc'[Opener(t)] = "shut", held'[Opener(t)] = held[Opener(t)],
         Still(First(t)), Still(Middle(t)), Still(Last(t)), Quiet(t), SameCounts(t)
  PROVE  Direction(t)'
<1> DEFINE x == Opener(t)
<1>1. DirectionTyped(t) /\ Bounded(t) /\ Arrivals(t) /\ Opening(t) /\ Sealing(t) /\ Endings(t)
  BY TypesNow DEF Direction
<1>2. Bounded(t)'
  BY <1>1 DEF Bounded, StreamBounded, WholeNumbered, Still, Quiet, SameCounts
<1>3. Arrivals(t)' /\ Sealing(t)'
  BY <1>1, ArrivalsKept, SealingKept DEF SameCounts
<1>4. Forwards(x)' <=> Forwards(x)
  BY Topology DEF Forwards, Still, Finished
<1>5. /\ TornLast(t)' <=> TornLast(t)
      /\ Intact(t)' <=> Intact(t)
      /\ Busy(x)' = 0 /\ Busy(x) = 0 /\ Reached(t)' = Reached(t)
  BY DEF TornLast, Still, Busy, Intact, Reached, SameCounts
<1>6. Opening(t)'
  BY <1>1, <1>4, <1>5 DEF Opening, Still, SameCounts
<1>7. Endings(t)'
  <2>1. ASSUME EndsTrusted, Forwards(x)
        PROVE  AllReached(t)
    <3>1. q[Middle(t)] = <<>> /\ CleanEnd(Middle(t))
      BY DEF EndIsEof
    <3>2. Len(q[Middle(t)]) = 0 /\ ~TornLast(t)
      BY <3>1, EmptyFacts DEF TornLast, EndsTorn
    <3>3. Intact(t) /\ end[Middle(t)] # "open" /\ (OuterTls => end[Middle(t)] = "fin")
      BY <2>1, <3>1, Topology DEF CleanEnd, Intact, EndsTrusted
    <3>4. written[t] + 0 = Reached(t) + 0 + 0
      BY <1>1, <1>5, <2>1, <3>2, <3>3 DEF Opening
    <3>5. written[t] = Reached(t)
      BY <1>1, <3>4 DEF DirectionTyped
    <3>6. alive[Middle(t)[2]]
      BY Topology DEF TasksOK, Finished
    <3>7. OuterTls => AllWritten(t)
      BY <1>1, <3>3, <3>6 DEF Endings
    <3> QED BY <3>3, <3>5, <3>7 DEF AllReached
  <2>2. (AllWritten(t)' <=> AllWritten(t)) /\ (AllReached(t)' <=> AllReached(t))
    BY DEF AllWritten, AllReached, Reached, Still, SameCounts
  <2>3. Forwards(t)' <=> Forwards(t)
    BY ForwardsKept, Topology DEF Quiet, Still
  <2> QED BY <1>1, <1>4, <2>1, <2>2, <2>3 DEF Endings, EndsTrusted, Still, Quiet
<1> QED BY <1>2, <1>3, <1>6, <1>7 DEF Direction

\* A task that no longer forwards loses the chunk it holds, and goes on.
LEMMA SealerLoses ==
  ASSUME NEW t \in Encrypting, TypeOK, TypeOK', Direction(t), alive' = alive,
         ~alive[Middle(t)[2]] \/ end[Middle(t)] # "open",
         pc'[t] = "read", held'[t] = 0,
         Still(First(t)), Still(Middle(t)), Still(Last(t)), Quiet(Opener(t)), SameCounts(t)
  PROVE  Direction(t)'
<1>1. DirectionTyped(t) /\ Bounded(t) /\ Arrivals(t) /\ Opening(t) /\ Sealing(t) /\ Endings(t)
  BY TypesNow DEF Direction
<1>2. Bounded(t)'
  BY <1>1 DEF Bounded, StreamBounded, WholeNumbered, Still, Quiet, SameCounts, DirectionTyped
<1>3. Arrivals(t)' /\ Opening(t)' /\ Endings(t)'
  BY <1>1, ArrivalsKept, OpeningKept, EndingsKept DEF SameCounts, Still, Quiet
<1>4. ~Forwards(t)'
  BY Topology DEF Forwards, Still
<1> QED BY <1>2, <1>3, <1>4 DEF Direction, Sealing

LEMMA OpenerLoses ==
  ASSUME NEW t \in Encrypting, TypeOK, TypeOK', Direction(t), alive' = alive,
         ~alive[Last(t)[2]] \/ end[Last(t)] # "open",
         pc'[Opener(t)] = "read", held'[Opener(t)] = 0,
         Still(First(t)), Still(Middle(t)), Still(Last(t)), Quiet(t), SameCounts(t)
  PROVE  Direction(t)'
<1>1. DirectionTyped(t) /\ Bounded(t) /\ Arrivals(t) /\ Opening(t) /\ Sealing(t) /\ Endings(t)
  BY TypesNow DEF Direction
<1>2. Bounded(t)'
  BY <1>1 DEF Bounded, StreamBounded, WholeNumbered, Still, Quiet, SameCounts, DirectionTyped
<1>3. Arrivals(t)' /\ Sealing(t)' /\ Endings(t)'
  BY <1>1, ArrivalsKept, SealingKept, EndingsKept DEF SameCounts, Still, Quiet
<1>4. ~Forwards(Opener(t))'
  BY Topology DEF Forwards, Still
<1> QED BY <1>2, <1>3, <1>4 DEF Direction, Opening

\* The source sends a chunk.
LEMMA SourceProduces ==
  ASSUME NEW t \in Encrypting, TypeOK, TypeOK', Direction(t), alive' = alive,
         end[First(t)] = "open", end'[First(t)] = end[First(t)],
         Chunk(produced[Source(t)] + 1, "whole") \in Chunks,
         q'[First(t)] = Append(q[First(t)], Chunk(produced[Source(t)] + 1, "whole")),
         produced'[Source(t)] = produced[Source(t)] + 1,
         written'[t] = written[t], got'[Sink(t)] = got[Sink(t)],
         Still(Middle(t)), Still(Last(t)), Quiet(t), Quiet(Opener(t))
  PROVE  Direction(t)'
<1> DEFINE a == First(t)
           x == Opener(t)
           P == produced[Source(t)]
           n == Len(q[a])
<1>1. DirectionTyped(t) /\ Bounded(t) /\ Arrivals(t) /\ Opening(t) /\ Sealing(t) /\ Endings(t)
  BY TypesNow DEF Direction
<1>2. /\ q[a] \in Seq(Chunks) /\ written[t] \in Nat /\ P \in Nat /\ n \in Nat
      /\ held[t] \in Nat /\ held[x] \in Nat /\ Len(got[Sink(t)]) \in Nat /\ Busy(t) \in Nat
      /\ \A st \in {a, Middle(t), Last(t)} : \A i \in 1 .. Len(q[st]) : q[st][i].n \in Nat
  BY <1>1 DEF DirectionTyped
<1>3. /\ Len(q'[a]) = n + 1
      /\ \A i \in 1 .. n : q'[a][i] = q[a][i]
      /\ q'[a][n + 1].n = P + 1
  <2>1. /\ Len(q'[a]) = n + 1
        /\ \A i \in 1 .. n : q'[a][i] = q[a][i]
        /\ q'[a][n + 1] = Chunk(P + 1, "whole")
    BY <1>2, AppendFacts
  <2> QED BY <2>1 DEF Chunk
<1>4. \A i \in 1 .. Len(q'[a]) : i \in 1 .. n \/ i = n + 1
  BY <1>2, <1>3
<1>5. \A m \in Nat : m <= P => m <= P + 1
  BY <1>2
<1>6. Bounded(t)'
  <2>1. StreamBounded(t, a)'
    <3>1. \A i \in 1 .. n : q[a][i].n <= P
      BY <1>1 DEF Bounded, StreamBounded
    <3>2. \A i \in 1 .. Len(q'[a]) : q'[a][i].n <= P + 1
      BY <1>2, <1>3, <1>4, <1>5, <3>1
    <3> QED BY <3>2 DEF StreamBounded
  <2>2. StreamBounded(t, Middle(t))' /\ StreamBounded(t, Last(t))' /\ WholeNumbered(t)'
    BY <1>1, <1>2, <1>5 DEF Bounded, StreamBounded, WholeNumbered, Still
  <2>3. held'[t] <= P + 1 /\ held'[x] <= P + 1 /\ Len(got'[Sink(t)]) <= P + 1
        /\ written'[t] <= P + 1
    BY <1>1, <1>2, <1>5 DEF Bounded, Quiet
  <2> QED BY <2>1, <2>2, <2>3 DEF Bounded
<1>7. Arrivals(t)' /\ Opening(t)'
  BY <1>1, ArrivalsKept, OpeningKept
<1>8. (Forwards(t)' <=> Forwards(t)) /\ Busy(t)' = Busy(t)
  BY ForwardsKept, Topology DEF Quiet, Still
<1>9. Sealing(t)'
  <2> SUFFICES ASSUME Forwards(t)
               PROVE  /\ pc'[t] \in {"write", "part"} => held'[t] = written'[t] + 1
                      /\ TornLast(t)' <=> pc'[t] = "part"
                      /\ pc'[t] = "part" => q'[Middle(t)][Len(q'[Middle(t)])].n = held'[t]
                      /\ \A i \in 1 .. Len(q'[a]) : q'[a][i].n = written[t] + Busy(t) + i
                      /\ written[t] + Busy(t) + Len(q'[a]) = P + 1
    BY <1>8 DEF Sealing
  <2>1. /\ \A i \in 1 .. n : q[a][i].n = written[t] + Busy(t) + i
        /\ written[t] + Busy(t) + n = P
    BY <1>1 DEF Sealing
  <2>2. written[t] + Busy(t) + (n + 1) = P + 1
    <3>1. \A j, k, m \in Nat : j + k + (m + 1) = j + k + m + 1
      OBVIOUS
    <3>2. written[t] \in Nat /\ Busy(t) \in Nat /\ n \in Nat
      BY <1>2
    <3>3. written[t] + Busy(t) + (n + 1) = written[t] + Busy(t) + n + 1
      BY ONLY <3>1, <3>2
    <3> QED BY <2>1, <3>3
  <2>3. \A i \in 1 .. Len(q'[a]) : q'[a][i].n = written[t] + Busy(t) + i
    BY <1>3, <1>4, <2>1, <2>2
  <2>4. /\ pc'[t] \in {"write", "part"} => held'[t] = written'[t] + 1
        /\ TornLast(t)' <=> pc'[t] = "part"
        /\ pc'[t] = "part" => q'[Middle(t)][Len(q'[Middle(t)])].n = held'[t]
    BY <1>1 DEF Sealing, TornLast, Still, Quiet
  <2> QED BY <1>3, <2>2, <2>3, <2>4
<1>10. Endings(t)'
  <2>1. ~AllWritten(t)
    BY DEF AllWritten
  <2>2. ~(Forwards(t) /\ pc[t] = "shut") /\ ~(alive[Middle(t)[2]] /\ end[Middle(t)] = "fin")
    BY <1>1, <2>1 DEF Endings
  <2>3. AllReached(t) => AllReached(t)'
    BY <2>1 DEF AllReached, Reached, Still
  <2>4. Forwards(x)' <=> Forwards(x)
    BY ForwardsKept, Topology DEF Quiet, Still
  <2> QED BY <1>1, <1>8, <2>2, <2>3, <2>4 DEF Endings, EndsTrusted, Still, Quiet
<1> QED BY <1>6, <1>7, <1>9, <1>10 DEF Direction

\* The source shuts its stream down.
LEMMA SourceCloses ==
  ASSUME NEW t \in Encrypting, TypeOK, TypeOK', Direction(t), alive' = alive,
         end[First(t)] = "open", end'[First(t)] = "fin", q'[First(t)] = q[First(t)],
         Still(Middle(t)), Still(Last(t)), Quiet(t), Quiet(Opener(t)), SameCounts(t)
  PROVE  Direction(t)'
<1>1. DirectionTyped(t) /\ Bounded(t) /\ Arrivals(t) /\ Opening(t) /\ Sealing(t) /\ Endings(t)
  BY TypesNow DEF Direction
<1>2. Bounded(t)'
  BY <1>1 DEF Bounded, StreamBounded, WholeNumbered, Still, Quiet, SameCounts
<1>3. Arrivals(t)' /\ Opening(t)' /\ Endings(t)'
  BY <1>1, ArrivalsKept, OpeningKept, EndingsKept DEF SameCounts, Still, Quiet
<1>4. (Forwards(t)' <=> Forwards(t)) /\ Busy(t)' = Busy(t) /\ (TornLast(t)' <=> TornLast(t))
  BY ForwardsKept, Topology DEF Quiet, Still, TornLast
<1>5. Sealing(t)'
  BY <1>1, <1>4 DEF Sealing, Still, Quiet, SameCounts
<1> QED BY <1>2, <1>3, <1>5 DEF Direction

\* The sink reads what has reached it.
LEMMA SinkConsumes ==
  ASSUME NEW t \in Encrypting, TypeOK, TypeOK', Direction(t), alive' = alive,
         q[Last(t)] # <<>>, q'[Last(t)] = Tail(q[Last(t)]), end'[Last(t)] = end[Last(t)],
         got'[Sink(t)] = Append(got[Sink(t)], Head(q[Last(t)]).n),
         written'[t] = written[t], produced'[Source(t)] = produced[Source(t)],
         Still(First(t)), Still(Middle(t)), Quiet(t), Quiet(Opener(t))
  PROVE  Direction(t)'
<1> DEFINE c == Last(t)
           x == Opener(t)
           P == produced[Source(t)]
           g == Len(got[Sink(t)])
<1>1. DirectionTyped(t) /\ Bounded(t) /\ Arrivals(t) /\ Opening(t) /\ Sealing(t) /\ Endings(t)
  BY TypesNow DEF Direction
<1>2. /\ q[c] \in Seq(Chunks) /\ P \in Nat /\ g \in Nat /\ got[Sink(t)] \in Seq(Numbers)
      /\ \A i \in 1 .. Len(q[c]) : q[c][i].n \in Nat
  BY <1>1 DEF DirectionTyped
<1>3. /\ Head(q[c]) = q[c][1] /\ Len(q[c]) \in Nat /\ Len(q[c]) > 0 /\ q[c][1] \in Chunks
      /\ Len(q'[c]) = Len(q[c]) - 1
      /\ \A i \in 1 .. Len(q'[c]) : q'[c][i] = q[c][i + 1] /\ i + 1 \in 1 .. Len(q[c])
  BY <1>2, TailFacts
<1>4. /\ \A i \in 1 .. g : got[Sink(t)][i] = i
      /\ \A i \in 1 .. Len(q[c]) : q[c][i].n = g + i
  BY <1>1 DEF Arrivals
<1>5. q[c][1].n = g + 1 /\ q[c][1].n \in Numbers /\ q[c][1].n <= P
  BY <1>1, <1>3, <1>4 DEF Chunks, Bounded, StreamBounded
<1>6. /\ Len(got'[Sink(t)]) = g + 1
      /\ \A i \in 1 .. g : got'[Sink(t)][i] = i
      /\ got'[Sink(t)][g + 1] = g + 1
  BY <1>2, <1>3, <1>4, <1>5, AppendFacts
<1>7. Reached(t)' = Reached(t)
  <2>1. \A j, k \in Nat : k > 0 => (j + 1) + (k - 1) = j + k
    OBVIOUS
  <2>2. Len(got'[Sink(t)]) + Len(q'[c]) = (g + 1) + (Len(q[c]) - 1)
    BY <1>3, <1>6
  <2>3. (g + 1) + (Len(q[c]) - 1) = g + Len(q[c])
    BY <1>2, <1>3, <2>1
  <2> QED BY <2>2, <2>3 DEF Reached
<1>8. Bounded(t)'
  <2>1. StreamBounded(t, c)'
    BY <1>1, <1>3 DEF Bounded, StreamBounded
  <2>2. StreamBounded(t, First(t))' /\ StreamBounded(t, Middle(t))' /\ WholeNumbered(t)'
    BY <1>1 DEF Bounded, StreamBounded, WholeNumbered, Still
  <2>3. Len(got'[Sink(t)]) <= P
    BY <1>5, <1>6
  <2> QED BY <1>1, <2>1, <2>2, <2>3 DEF Bounded, Quiet
<1>9. Arrivals(t)'
  <2>1. \A i \in 1 .. (g + 1) : i \in 1 .. g \/ i = g + 1
    BY <1>2
  <2>2. \A i \in 1 .. Len(got'[Sink(t)]) : got'[Sink(t)][i] = i
    BY <1>6, <2>1
  <2>3. \A i \in 1 .. Len(q'[c]) : q'[c][i].n = (g + 1) + i
    BY <1>2, <1>3, <1>4
  <2> QED BY <1>6, <2>2, <2>3 DEF Arrivals
<1>10. /\ (Forwards(x)' <=> Forwards(x)) /\ Busy(x)' = Busy(x)
       /\ (Forwards(t)' <=> Forwards(t))
       /\ (Intact(t)' <=> Intact(t)) /\ (TornLast(t)' <=> TornLast(t))
  BY ForwardsKept, Topology DEF Quiet, Still, Intact, TornLast
<1>11. Opening(t)'
  BY <1>1, <1>7, <1>10 DEF Opening, Quiet, Still
<1>12. Sealing(t)'
  BY <1>1, SealingKept
<1>13. Endings(t)'
  <2>1. (AllWritten(t)' <=> AllWritten(t)) /\ (AllReached(t)' <=> AllReached(t))
    BY <1>7 DEF AllWritten, AllReached, Still
  <2> QED BY <1>1, <1>10, <2>1 DEF Endings, EndsTrusted, Quiet, Still
<1> QED BY <1>8, <1>9, <1>11, <1>12, <1>13 DEF Direction

\* The network alters a record that was whole.
LEMMA RecordAltered ==
  ASSUME NEW t \in Encrypting, TypeOK, TypeOK', Direction(t), alive' = alive,
         NEW k \in 1 .. Len(q[Middle(t)]), q[Middle(t)][k].state = "whole",
         q'[Middle(t)] = [q[Middle(t)] EXCEPT ![k] = Chunk(0, "altered")],
         end'[Middle(t)] = end[Middle(t)],
         Still(First(t)), Still(Last(t)), Quiet(t), Quiet(Opener(t)), SameCounts(t)
  PROVE  Direction(t)'
<1> DEFINE b == Middle(t)
           x == Opener(t)
           P == produced[Source(t)]
<1>1. DirectionTyped(t) /\ Bounded(t) /\ Arrivals(t) /\ Opening(t) /\ Sealing(t) /\ Endings(t)
  BY TypesNow DEF Direction
<1>2. q[b] \in Seq(Chunks) /\ P \in Nat /\ Len(q[b]) \in Nat
  BY <1>1 DEF DirectionTyped
<1>3. /\ Len(q'[b]) = Len(q[b])
      /\ q'[b][k].n = 0 /\ q'[b][k].state = "altered"
      /\ \A i \in 1 .. Len(q[b]) : i # k => q'[b][i] = q[b][i]
      /\ q[b] # <<>> /\ q'[b] # <<>>
  <2>1. Chunk(0, "altered") \in Chunks /\ Chunk(0, "altered").n = 0
        /\ Chunk(0, "altered").state = "altered"
    BY DEF Chunk, Chunks, Numbers
  <2>2. q'[b] \in Seq(Chunks) /\ Len(q'[b]) = Len(q[b])
    BY <1>2, <2>1, ExceptSeq
  <2>3. DOMAIN q[b] = 1 .. Len(q[b])
    BY <1>2, LenProperties
  <2>4. q[b] # <<>> /\ q'[b] # <<>>
    BY <1>2, <2>2, EmptyFacts
  <2>5. q'[b][k] = Chunk(0, "altered") /\ \A i \in 1 .. Len(q[b]) : i # k => q'[b][i] = q[b][i]
    BY <2>3
  <2> HIDE DEF b
  <2> QED BY <2>1, <2>2, <2>4, <2>5
<1>4. Bounded(t)'
  <2>1. StreamBounded(t, b)' /\ WholeNumbered(t)'
    BY <1>1, <1>2, <1>3 DEF Bounded, StreamBounded, WholeNumbered, SameCounts
  <2>2. StreamBounded(t, First(t))' /\ StreamBounded(t, Last(t))'
    BY <1>1 DEF Bounded, StreamBounded, Still, SameCounts
  <2> QED BY <1>1, <2>1, <2>2 DEF Bounded, SameCounts, Quiet
<1>5. Arrivals(t)' /\ Endings(t)'
  BY <1>1, ArrivalsKept, EndingsKept DEF SameCounts, Still, Quiet
<1>6. /\ TornLast(t)' <=> TornLast(t)
      /\ TornLast(t) => q'[b][Len(q'[b])] = q[b][Len(q[b])]
  <2>1. Len(q[b]) \in 1 .. Len(q[b])
    <3>1. \A n \in Nat : \A i \in 1 .. n : n \in 1 .. n
      OBVIOUS
    <3> QED BY <1>2, <3>1
  <2>2. CASE k = Len(q[b])
    BY <1>3, <2>2 DEF TornLast, EndsTorn
  <2>3. CASE k # Len(q[b])
    BY <1>3, <2>1, <2>3 DEF TornLast, EndsTorn
  <2> QED BY <2>2, <2>3
<1>7. /\ (Forwards(x)' <=> Forwards(x)) /\ Busy(x)' = Busy(x)
      /\ (Forwards(t)' <=> Forwards(t)) /\ Busy(t)' = Busy(t)
      /\ Reached(t)' = Reached(t) /\ (Intact(t)' <=> Intact(t))
  BY ForwardsKept, Topology DEF Quiet, Still, Intact, Reached, SameCounts
<1>8. Opening(t)'
  BY <1>1, <1>3, <1>6, <1>7 DEF Opening, Quiet, SameCounts
<1>9. Sealing(t)'
  BY <1>1, <1>6, <1>7 DEF Sealing, Quiet, Still, SameCounts, TornLast
<1> QED BY <1>4, <1>5, <1>8, <1>9 DEF Direction

\* The network ends the tunnel early: from some record on nothing is left, or
\* the first bytes of one record.
LEMMA TunnelCut ==
  ASSUME NEW t \in Encrypting, TypeOK, TypeOK', Direction(t), alive' = alive,
         "cut" \in Faults, end[Middle(t)] \in {"open", "fin"}, end'[Middle(t)] = "cut",
         Len(q'[Middle(t)]) <= Len(q[Middle(t)]),
         \A i \in 1 .. Len(q'[Middle(t)]) :
           \/ q'[Middle(t)][i] = q[Middle(t)][i]
           \/ q'[Middle(t)][i].n = 0 /\ q'[Middle(t)][i].state = "torn",
         Still(First(t)), Still(Last(t)), Quiet(t), Quiet(Opener(t)), SameCounts(t)
  PROVE  Direction(t)'
<1> DEFINE b == Middle(t)
           x == Opener(t)
           P == produced[Source(t)]
<1>1. DirectionTyped(t) /\ Bounded(t) /\ Arrivals(t) /\ Opening(t) /\ Sealing(t) /\ Endings(t)
  BY TypesNow DEF Direction
<1>2. DirectionTyped(t)'
  BY TypesNext
<1>3. /\ P \in Nat /\ Len(q[b]) \in Nat /\ Len(q'[b]) \in Nat
      /\ \A i \in 1 .. Len(q'[b]) : i \in 1 .. Len(q[b])
  <2>1. P \in Nat /\ Len(q[b]) \in Nat /\ Len(q'[b]) \in Nat
    BY <1>1, <1>2 DEF DirectionTyped
  <2> QED BY <2>1
<1>4. Bounded(t)'
  <2>1. \A i \in 1 .. Len(q[b]) : q[b][i].n <= P /\ (q[b][i].state = "whole" => q[b][i].n # 0)
    BY <1>1 DEF Bounded, StreamBounded, WholeNumbered
  <2>2. \A i \in 1 .. Len(q'[b]) : q'[b][i].n <= P /\ (q'[b][i].state = "whole" => q'[b][i].n # 0)
    BY <1>3, <2>1
  <2>3. StreamBounded(t, b)' /\ WholeNumbered(t)'
    BY <2>2 DEF StreamBounded, WholeNumbered, SameCounts
  <2>4. StreamBounded(t, First(t))' /\ StreamBounded(t, Last(t))'
    BY <1>1 DEF Bounded, StreamBounded, Still, SameCounts
  <2> QED BY <1>1, <2>3, <2>4 DEF Bounded, SameCounts, Quiet
<1>5. Arrivals(t)' /\ Endings(t)'
  BY <1>1, ArrivalsKept, EndingsKept DEF SameCounts, Still, Quiet
<1>6. Opening(t)'
  <2>1. (Forwards(x)' <=> Forwards(x)) /\ Busy(x)' = Busy(x) /\ Reached(t)' = Reached(t)
    BY ForwardsKept, Topology DEF Quiet, Still, Reached, SameCounts
  <2>2. ~Intact(t)'
    BY DEF Intact
  <2> QED BY <1>1, <1>3, <2>1, <2>2 DEF Opening, Quiet
<1>7. ~Forwards(t)'
  BY Topology DEF Forwards
<1> QED BY <1>4, <1>5, <1>6, <1>7 DEF Direction, Sealing

-----------------------------------------------------------------------------
(* Whole steps: the direction that moves and the one that does not.        *)

\* Only direction t may have changed.
Elsewhere(t) ==
  /\ \A st \in Streams \ {First(t), Middle(t), Last(t)} : Still(st)
  /\ \A x \in Tasks \ {t, Opener(t)} : Quiet(x)
  /\ \A u \in Encrypting \ {t} : written'[u] = written[u]
  /\ \A e \in Endpoints \ {Source(t)} : produced'[e] = produced[e]
  /\ \A e \in Endpoints \ {Sink(t)} : got'[e] = got[e]

LEMMA DirectionStep ==
  ASSUME NEW t \in Encrypting, TypeOK, TypeOK', TasksOK', alive' = alive,
         \A u \in Encrypting : Direction(u), Direction(t)', Elsewhere(t)
  PROVE  (\A u \in Encrypting : Direction(u))'
<1>1. PICK s \in Encrypting :
        /\ s # t /\ Encrypting = {s, t} /\ Opener(s) # Opener(t)
        /\ Tasks = {t, s, Opener(t), Opener(s)}
        /\ \A a \in {First(t), Middle(t), Last(t)}, b \in {First(s), Middle(s), Last(s)} :
             a # b
        /\ Source(s) = Sink(t) /\ Sink(s) = Source(t) /\ Source(t) # Sink(t)
  BY OtherDirection
<1>2. /\ t \in Tasks /\ Opener(t) \notin Encrypting
      /\ s \in Tasks /\ Opener(s) \in Tasks /\ Opener(s) \notin Encrypting
      /\ First(s) \in Streams /\ Middle(s) \in Streams /\ Last(s) \in Streams
      /\ Source(s) \in Endpoints /\ Sink(s) \in Endpoints
  BY Topology
<1>3. s \in Tasks \ {t, Opener(t)} /\ Opener(s) \in Tasks \ {t, Opener(t)}
  BY <1>1, <1>2
<1>4. Quiet(s) /\ Quiet(Opener(s))
  BY <1>3 DEF Elsewhere
<1>5. Still(First(s)) /\ Still(Middle(s)) /\ Still(Last(s))
  BY <1>1, <1>2 DEF Elsewhere
<1>6. SameCounts(s)
  BY <1>1, <1>2 DEF Elsewhere, SameCounts
<1>7. Worsens(s)
  BY <1>4, <1>5, <1>6 DEF Worsens, Quiet, Still, SameCounts, Fades
<1>8. Direction(s)'
  BY <1>7, WorseDirection
<1> QED BY <1>1, <1>8

\* What task x may have done to a stream before it ended.
Kept(st, q1, e1) ==
  \/ q1[st] = q[st] /\ e1[st] = end[st]
  \/ e1[st] = "rst" /\ \E k \in 0 .. Len(q[st]) : q1[st] = SubSeq(q[st], 1, k)
Taken(st, q1, e1) == Readable(st) /\ q1[st] = Tail(q[st]) /\ e1[st] = end[st]
Shut(st, q1, e1) == end[st] = "open" /\ q1[st] = q[st] /\ e1[st] = "fin"

\* A stream that was reset and then fades has faded.
LEMMA ResetFades ==
  ASSUME NEW st, NEW c \in Seq(Chunks), NEW e, NEW k \in 0 .. Len(c),
         Fades(st, SubSeq(c, 1, k), "rst")
  PROVE  Fades(st, c, e)
<1>1. /\ Len(c) \in Nat /\ SubSeq(c, 1, k) \in Seq(Chunks) /\ Len(SubSeq(c, 1, k)) = k
      /\ \A i \in 1 .. k : SubSeq(c, 1, k)[i] = c[i]
  BY PrefixFacts
<1>2. "rst" \in Ends
  BY DEF Ends
<1>3. end'[st] = "rst"
  BY <1>1, <1>2, FadeFacts
<1>4. CASE q'[st] = SubSeq(c, 1, k)
  BY <1>3, <1>4 DEF Fades
<1>5. CASE \E j \in 0 .. Len(SubSeq(c, 1, k)) : q'[st] = SubSeq(SubSeq(c, 1, k), 1, j)
  <2>1. PICK j \in 0 .. k : q'[st] = SubSeq(SubSeq(c, 1, k), 1, j)
    BY <1>1, <1>5
  <2>2. j \in 0 .. Len(c)
    BY <1>1
  <2>3. /\ q'[st] \in Seq(Chunks) /\ Len(q'[st]) = j
        /\ \A i \in 1 .. j : q'[st][i] = SubSeq(c, 1, k)[i]
    BY <1>1, <2>1, PrefixFacts
  <2>4. /\ SubSeq(c, 1, j) \in Seq(Chunks) /\ Len(SubSeq(c, 1, j)) = j
        /\ \A i \in 1 .. j : SubSeq(c, 1, j)[i] = c[i]
    BY <2>2, PrefixFacts
  <2>5. \A i \in 1 .. j : q'[st][i] = SubSeq(c, 1, j)[i]
    BY <1>1, <2>3, <2>4
  <2>6. q'[st] = SubSeq(c, 1, j)
    BY <2>3, <2>4, <2>5, SeqEqual
  <2> QED BY <1>3, <2>2, <2>6 DEF Fades
<1>6. CASE q'[st] = <<>>
  <2>1. 0 \in 0 .. Len(c)
    BY <1>1
  <2>2. SubSeq(c, 1, 0) = <<>>
    <3>1. SubSeq(c, 1, 0) \in Seq(Chunks) /\ Len(SubSeq(c, 1, 0)) = 0
      BY <2>1, PrefixFacts
    <3> QED BY <3>1, EmptySeq
  <2> QED BY <1>3, <1>6, <2>1, <2>2 DEF Fades
<1> QED BY <1>4, <1>5, <1>6 DEF Fades

\* Which task reads and writes a stream of direction t.
LEMMA Ways ==
  ASSUME NEW t \in Encrypting, NEW x \in Tasks
  PROVE  /\ In(x) = First(t) => x = t
         /\ In(x) = Middle(t) => x = Opener(t)
         /\ In(x) # Last(t) /\ Out(x) # First(t)
         /\ Out(x) = Middle(t) => x = t
         /\ Out(x) = Last(t) => x = Opener(t)
<1>1. PICK s \in Encrypting :
        /\ Tasks = {t, s, Opener(t), Opener(s)}
        /\ \A a \in {First(t), Middle(t), Last(t)}, b \in {First(s), Middle(s), Last(s)} :
             a # b
  BY OtherDirection
<1>2. \A u \in Encrypting :
        /\ In(u) = First(u) /\ Out(u) = Middle(u)
        /\ In(Opener(u)) = Middle(u) /\ Out(Opener(u)) = Last(u)
        /\ First(u) # Middle(u) /\ First(u) # Last(u) /\ Middle(u) # Last(u)
  BY Topology
<1>3. CASE x = t
  BY <1>2, <1>3
<1>4. CASE x = Opener(t)
  BY <1>2, <1>4
<1>5. CASE x = s
  BY <1>1, <1>2, <1>5
<1>6. CASE x = Opener(s)
  BY <1>1, <1>2, <1>6
<1> QED BY <1>1, <1>3, <1>4, <1>5, <1>6

\* A step in which task x ends.
LEMMA FinishStep ==
  ASSUME TypeOK, TasksOK, \A u \in Encrypting : Direction(u),
         NEW x \in Tasks, NEW r \in Finished,
         NEW q1 \in [Streams -> Seq(Chunks)], NEW e1 \in [Streams -> Ends],
         \A st \in Streams : Len(q1[st]) <= Capacity,
         Finish(x, r, q1, e1),
         \A st \in Streams :
           \/ Kept(st, q1, e1)
           \/ st = In(x) /\ Taken(st, q1, e1)
           \/ st = Out(x) /\ pc[x] = "shut" /\ Shut(st, q1, e1),
         UNCHANGED <<relay, produced, written, got>>,
         cipher' \in [Sides -> BOOLEAN]
  PROVE  /\ TypeOK' /\ TasksOK' /\ (\A u \in Encrypting : Direction(u))'
         /\ pc' = [pc EXCEPT ![x] = r]
<1>1. /\ StreamsTyped' /\ TasksTyped' /\ TasksOK'
      /\ pc' = [pc EXCEPT ![x] = r] /\ held' = [held EXCEPT ![x] = 0]
      /\ \A p \in Parties : alive'[p] => alive[p]
      /\ \A st \in Streams : Fades(st, q1[st], e1[st])
  BY FinishFacts
<1>2. TypeOK'
  BY <1>1 DEF TypeOK, StreamsTyped, TasksTyped
<1>3. pc'[x] = r /\ held'[x] = 0 /\ \A y \in Tasks \ {x} : pc'[y] = pc[y] /\ held'[y] = held[y]
  BY <1>1 DEF TypeOK
<1>4. ASSUME NEW st \in Streams
      PROVE  \/ Fades(st, q[st], end[st])
             \/ st = In(x) /\ Skips(x, st)
             \/ st = Out(x) /\ Shuts(x, st)
  <2>1. Fades(st, q1[st], e1[st]) /\ q[st] \in Seq(Chunks)
    BY <1>1 DEF TypeOK
  <2>2. CASE q1[st] = q[st] /\ e1[st] = end[st]
    BY <2>1, <2>2
  <2>3. CASE e1[st] = "rst" /\ \E k \in 0 .. Len(q[st]) : q1[st] = SubSeq(q[st], 1, k)
    <3>1. PICK k \in 0 .. Len(q[st]) : q1[st] = SubSeq(q[st], 1, k)
      BY <2>3
    <3>2. Fades(st, SubSeq(q[st], 1, k), "rst")
      BY <2>1, <2>3, <3>1
    <3> QED BY <2>1, <3>2, ResetFades
  <2>4. CASE st = In(x) /\ Taken(st, q1, e1)
    BY <1>3, <2>1, <2>4 DEF Taken, Skips
  <2>5. CASE st = Out(x) /\ pc[x] = "shut" /\ Shut(st, q1, e1)
    BY <1>3, <2>1, <2>5 DEF Shut, Shuts
  <2> QED BY <2>2, <2>3, <2>4, <2>5 DEF Kept
<1>5. ASSUME NEW t \in Encrypting
      PROVE  Direction(t)'
  <2>1. /\ t \in Tasks /\ Opener(t) \in Tasks
        /\ First(t) \in Streams /\ Middle(t) \in Streams /\ Last(t) \in Streams
    BY Topology
  <2>2. \A y \in {t, Opener(t)} :
          \/ pc'[y] = pc[y] /\ held'[y] = held[y]
          \/ pc'[y] \in Finished /\ held'[y] = 0
    BY <1>3, <2>1
  <2>3. Fades(First(t), q[First(t)], end[First(t)]) \/ Skips(t, First(t))
    BY <1>4, <2>1, Ways
  <2>4. \/ Fades(Middle(t), q[Middle(t)], end[Middle(t)])
        \/ Skips(Opener(t), Middle(t)) \/ Shuts(t, Middle(t))
    BY <1>4, <2>1, Ways
  <2>5. Fades(Last(t), q[Last(t)], end[Last(t)]) \/ Shuts(Opener(t), Last(t))
    BY <1>4, <2>1, Ways
  <2>6. Worsens(t)
    BY <1>1, <2>2, <2>3, <2>4, <2>5 DEF Worsens
  <2> QED BY <1>1, <1>2, <2>6, WorseDirection
<1> QED BY <1>1, <1>2, <1>5

\* A step in which no task moves and streams only fade.
LEMMA FadeStep ==
  ASSUME TypeOK, TasksOK', \A u \in Encrypting : Direction(u), StreamsTyped',
         \A p \in Parties : alive'[p] => alive[p],
         \A st \in Streams : Fades(st, q[st], end[st]),
         UNCHANGED <<pc, held, cipher, relay, produced, written, got>>
  PROVE  TypeOK' /\ (\A u \in Encrypting : Direction(u))'
<1>1. TypeOK'
  BY DEF TypeOK, StreamsTyped
<1>2. ASSUME NEW t \in Encrypting
      PROVE  Direction(t)'
  <2>1. Worsens(t)
    BY Topology DEF Worsens
  <2> QED BY <1>1, <2>1, WorseDirection
<1> QED BY <1>1, <1>2

LEMMA CipherStep ==
  ASSUME CipherClosed,
         \A x \in Tasks :
           pc'[x] \in {"decrypt", "closed"} => pc'[x] = pc[x] \/ ~cipher'[Side(x)],
         \A s \in Sides : cipher'[s] => cipher[s]
  PROVE  CipherClosed'
BY Siblings DEF CipherClosed

\* Every task encrypts a direction or opens one.
LEMMA OpenerOf ==
  ASSUME NEW x \in Tasks, x \notin Encrypting
  PROVE  \E t \in Encrypting : x = Opener(t)
BY DEF Tasks, Encrypting, Opener

\* One stream gets new contents, and nothing else happens to the streams.
LEMMA StreamPut ==
  ASSUME TypeOK, NEW st \in Streams, NEW c \in Seq(Chunks), Len(c) <= Capacity,
         q' = [q EXCEPT ![st] = c], end' = end, alive' = alive
  PROVE  /\ StreamsTyped' /\ q'[st] = c /\ end'[st] = end[st]
         /\ \A z \in Streams \ {st} : Still(z)
<1>1. q'[st] = c /\ \A z \in Streams \ {st} : q'[z] = q[z]
  BY DEF TypeOK
<1> QED BY <1>1 DEF TypeOK, StreamsTyped, Still

LEMMA TakeTyped ==
  ASSUME TypeOK, NEW st \in Streams, q[st] # <<>>
  PROVE  /\ Tail(q[st]) \in Seq(Chunks) /\ Len(Tail(q[st])) <= Capacity
         /\ Head(q[st]) \in Chunks
         /\ [q EXCEPT ![st] = Tail(@)] \in [Streams -> Seq(Chunks)]
         /\ \A z \in Streams : Len([q EXCEPT ![st] = Tail(@)][z]) <= Capacity
<1>1. q[st] \in Seq(Chunks) /\ Len(q[st]) <= Capacity
  BY DEF TypeOK
<1>2. /\ Head(q[st]) = q[st][1] /\ q[st][1] \in Chunks /\ Len(q[st]) \in Nat
      /\ Tail(q[st]) \in Seq(Chunks) /\ Len(Tail(q[st])) = Len(q[st]) - 1
  BY <1>1, TailFacts
<1>3. Len(Tail(q[st])) <= Capacity
  BY <1>1, <1>2
<1> HIDE DEF TypeOK
<1>4. [q EXCEPT ![st] = Tail(@)] \in [Streams -> Seq(Chunks)]
  BY <1>2 DEF TypeOK
<1>5. \A z \in Streams : Len([q EXCEPT ![st] = Tail(@)][z]) <= Capacity
  BY <1>3 DEF TypeOK
<1> QED BY <1>2, <1>3, <1>4, <1>5

\* Task x of direction t goes on, and touches at most stream st.
LEMMA MoveFrame ==
  ASSUME TypeOK, TasksOK, NEW t \in Encrypting, NEW x \in Tasks, NEW st \in Streams,
         x = t \/ x = Opener(t), st = First(t) \/ st = Middle(t) \/ st = Last(t),
         NEW v \in {"read", "write", "part", "shut"}, NEW h \in Numbers,
         v = "part" => x \in Encrypting,
         pc[x] \notin Finished,
         pc' = [pc EXCEPT ![x] = v], held' = [held EXCEPT ![x] = h],
         StreamsTyped', alive' = alive, \A z \in Streams \ {st} : Still(z),
         \A u \in Encrypting \ {t} : written'[u] = written[u],
         written' \in [Encrypting -> Numbers],
         UNCHANGED <<cipher, relay, produced, got>>
  PROVE  /\ TypeOK' /\ TasksOK' /\ Elsewhere(t)
         /\ pc'[x] = v /\ held'[x] = h /\ \A y \in Tasks \ {x} : Quiet(y)
<1>1. t \in Tasks /\ Opener(t) \in Tasks /\ x \in Tasks
  BY Topology
<1>2. pc'[x] = v /\ held'[x] = h /\ \A y \in Tasks \ {x} : Quiet(y)
  BY <1>1 DEF TypeOK, Quiet
<1>3. TypeOK'
  <2>1. /\ pc' \in [Tasks -> {"read", "write", "part", "shut"} \cup Finished]
        /\ held' \in [Tasks -> Numbers]
    BY <1>1 DEF TypeOK
  <2> QED BY <2>1 DEF TypeOK, StreamsTyped
<1>4. TasksOK'
  BY <1>1, <1>2 DEF TasksOK, Quiet
<1>5. Elsewhere(t)
  BY <1>2 DEF Elsewhere
<1> QED BY <1>2, <1>3, <1>4, <1>5

\* A step of a task that goes on is no failure of the cipher.
LEMMA MoveCipher ==
  ASSUME CipherClosed, NEW x \in Tasks, pc'[x] \notin Finished,
         \A y \in Tasks \ {x} : Quiet(y), cipher' = cipher
  PROVE  CipherClosed'
<1>1. \A y \in Tasks : pc'[y] \in {"decrypt", "closed"} => pc'[y] = pc[y]
  BY DEF Quiet, Finished
<1> QED BY <1>1, CipherStep

\* Streams, sides and input of any task.
LEMMA TaskStreams ==
  ASSUME NEW x \in Tasks
  PROVE  /\ In(x) \in Streams /\ Out(x) \in Streams /\ In(x) # Out(x)
         /\ Side(x) \in Sides /\ Side(x) \in Parties
         /\ Reverse(Out(x)) \in Streams /\ Reverse(Out(x)) # Out(x)
<1>1. \E t \in Encrypting : x = t \/ x = Opener(t)
  BY OpenerOf
<1>2. In(x) \in Streams /\ Out(x) \in Streams /\ In(x) # Out(x)
  BY <1>1, Topology
<1>3. Reverse(Out(x)) \in Streams /\ Reverse(Out(x)) # Out(x)
  BY <1>2 DEF Streams, Reverse
<1> QED BY <1>2, <1>3, Siblings

\* A task ends, and with it maybe the cipher of its side.
LEMMA FinishInv ==
  ASSUME IInv, NEW x \in Tasks, NEW r \in Finished,
         NEW q1 \in [Streams -> Seq(Chunks)], NEW e1 \in [Streams -> Ends],
         \A st \in Streams : Len(q1[st]) <= Capacity,
         Finish(x, r, q1, e1),
         \A st \in Streams :
           \/ Kept(st, q1, e1)
           \/ st = In(x) /\ Taken(st, q1, e1)
           \/ st = Out(x) /\ pc[x] = "shut" /\ Shut(st, q1, e1),
         UNCHANGED <<relay, produced, written, got>>,
         cipher' = cipher \/ CloseCipher(x),
         r \in {"decrypt", "closed"} => ~cipher'[Side(x)]
  PROVE  IInv'
<1>1. TypeOK /\ TasksOK /\ CipherClosed /\ \A u \in Encrypting : Direction(u)
  BY DEF IInv
<1>2. cipher' \in [Sides -> BOOLEAN] /\ \A s \in Sides : cipher'[s] => cipher[s]
  BY <1>1, TaskStreams DEF CloseCipher, TypeOK
<1>3. /\ TypeOK' /\ TasksOK' /\ (\A u \in Encrypting : Direction(u))'
      /\ pc' = [pc EXCEPT ![x] = r]
  BY <1>1, <1>2, FinishStep
<1>4. pc'[x] = r /\ \A y \in Tasks \ {x} : pc'[y] = pc[y]
  BY <1>1, <1>3 DEF TypeOK
<1>5. \A y \in Tasks : pc'[y] \in {"decrypt", "closed"} => pc'[y] = pc[y] \/ ~cipher'[Side(y)]
  BY <1>4
<1>6. CipherClosed'
  BY <1>1, <1>2, <1>5, CipherStep
<1> QED BY <1>3, <1>6 DEF IInv

\* A task that ends over something it has taken from its input.
LEMMA TakeAndFinish ==
  ASSUME IInv, NEW x \in Tasks, NEW r \in Finished, Readable(In(x)),
         Finish(x, r, [q EXCEPT ![In(x)] = Tail(@)], end),
         UNCHANGED <<relay, produced, written, got>>,
         cipher' = cipher \/ CloseCipher(x),
         r \in {"decrypt", "closed"} => ~cipher'[Side(x)]
  PROVE  IInv'
<1> DEFINE q1 == [q EXCEPT ![In(x)] = Tail(@)]
<1>1. TypeOK
  BY DEF IInv
<1>2. /\ q1 \in [Streams -> Seq(Chunks)] /\ end \in [Streams -> Ends]
      /\ \A st \in Streams : Len(q1[st]) <= Capacity
  BY <1>1, TaskStreams, TakeTyped DEF TypeOK, Readable
<1>3. \A st \in Streams : Kept(st, q1, end) \/ (st = In(x) /\ Taken(st, q1, end))
  BY <1>1 DEF Kept, Taken, TypeOK
<1>4. Finish(x, r, q1, end)
  OBVIOUS
<1> HIDE DEF q1
<1> QED BY <1>2, <1>3, <1>4, FinishInv

\* A task that ends and leaves the streams as they are.
LEMMA LeaveAndFinish ==
  ASSUME IInv, NEW x \in Tasks, NEW r \in Finished \ {"decrypt", "closed"},
         Finish(x, r, q, end), UNCHANGED <<cipher, relay, produced, written, got>>
  PROVE  IInv'
<1>1. /\ q \in [Streams -> Seq(Chunks)] /\ end \in [Streams -> Ends]
      /\ \A st \in Streams : Len(q[st]) <= Capacity
  BY DEF IInv, TypeOK
<1>2. \A st \in Streams : Kept(st, q, end)
  BY DEF Kept
<1> QED BY <1>1, <1>2, FinishInv

\* copy_encrypt takes bytes.
LEMMA EncryptReadStep ==
  ASSUME IInv, NEW x \in Tasks, EncryptRead(x)
  PROVE  IInv'
<1> DEFINE a == First(x)
<1>1. TypeOK /\ TasksOK /\ CipherClosed /\ \A u \in Encrypting : Direction(u)
  BY DEF IInv
<1>2. /\ x \in Encrypting /\ pc[x] = "read" /\ Readable(In(x))
      /\ UNCHANGED <<relay, produced, written, got>>
  BY DEF EncryptRead
<1>3. /\ x \in Tasks /\ In(x) = a /\ a \in Streams /\ Side(x) \in Sides
      /\ a # Middle(x) /\ a # Last(x) /\ Middle(x) \in Streams /\ Last(x) \in Streams
      /\ Opener(x) \in Tasks /\ Opener(x) \notin Encrypting
  BY <1>2, Topology
<1>4. q[a] # <<>> /\ Head(q[a]) \in Chunks
  BY <1>1, <1>2, <1>3, TakeTyped DEF Readable
<1>5. CASE /\ q' = [q EXCEPT ![In(x)] = Tail(@)]
           /\ held' = [held EXCEPT ![x] = Head(q[In(x)]).n]
           /\ pc' = [pc EXCEPT ![x] = "write"]
           /\ UNCHANGED <<end, alive>>
           /\ UNCHANGED cipher
  <2>1. Tail(q[a]) \in Seq(Chunks) /\ Len(Tail(q[a])) <= Capacity /\ Head(q[a]).n \in Numbers
    BY <1>1, <1>3, <1>4, TakeTyped DEF Chunks
  <2>2. /\ StreamsTyped' /\ q'[a] = Tail(q[a]) /\ end'[a] = end[a]
        /\ \A z \in Streams \ {a} : Still(z)
    BY <1>1, <1>3, <1>5, <2>1, StreamPut
  <2>3. pc[x] \notin Finished /\ written' \in [Encrypting -> Numbers]
    BY <1>1, <1>2 DEF Finished, TypeOK
  <2>4. /\ TypeOK' /\ TasksOK' /\ Elsewhere(x)
        /\ pc'[x] = "write" /\ held'[x] = Head(q[a]).n /\ \A y \in Tasks \ {x} : Quiet(y)
    <3>1. x \in Tasks /\ a \in Streams /\ a = First(x)
      BY <1>3
    <3>2. "write" \in {"read", "write", "part", "shut"} /\ "write" # "part"
      OBVIOUS
    <3>3. pc' = [pc EXCEPT ![x] = "write"] /\ held' = [held EXCEPT ![x] = Head(q[a]).n]
      BY <1>3, <1>5
    <3>4. /\ alive' = alive /\ UNCHANGED <<cipher, relay, produced, got>>
          /\ \A u \in Encrypting \ {x} : written'[u] = written[u]
      BY <1>2, <1>5
    <3> HIDE DEF a
    <3> QED BY ONLY <1>1, <1>2, <2>1, <2>2, <2>3, <3>1, <3>2, <3>3, <3>4, MoveFrame
  <2>5. /\ Still(Middle(x)) /\ Still(Last(x)) /\ Quiet(Opener(x)) /\ SameCounts(x)
    BY <1>2, <1>3, <2>2, <2>4 DEF SameCounts
  <2>6. Direction(x)'
    BY <1>1, <1>2, <1>4, <1>5, <2>2, <2>4, <2>5, SealerReads
  <2>7. (\A u \in Encrypting : Direction(u))'
    BY <1>1, <1>2, <1>5, <2>4, <2>6, DirectionStep
  <2>8. CipherClosed'
    BY <1>1, <1>5, <2>4, MoveCipher DEF Finished
  <2> QED BY <2>4, <2>7, <2>8 DEF IInv
<1>6. CASE CloseCipher(x) /\ Finish(x, "closed", [q EXCEPT ![In(x)] = Tail(@)], end)
  <2>1. ~cipher'[Side(x)] /\ "closed" \in Finished
    BY <1>1, <1>3, <1>6 DEF CloseCipher, TypeOK, Finished
  <2> QED BY <1>2, <1>6, <2>1, TakeAndFinish
<1> QED BY <1>5, <1>6 DEF EncryptRead

\* copy_decrypt takes a record.
LEMMA DecryptReadStep ==
  ASSUME IInv, NEW x \in Tasks, DecryptRead(x)
  PROVE  IInv'
<1>1. TypeOK /\ TasksOK /\ CipherClosed /\ \A u \in Encrypting : Direction(u)
  BY DEF IInv
<1>2. /\ x \notin Encrypting /\ pc[x] = "read" /\ Readable(In(x))
      /\ UNCHANGED <<relay, produced, written, got>>
  BY DEF DecryptRead
<1>3. PICK t \in Encrypting : x = Opener(t)
  BY <1>2, OpenerOf
<1> DEFINE b == Middle(t)
<1>4. /\ t \in Tasks /\ In(x) = b /\ b \in Streams /\ Side(x) \in Sides /\ t # x
      /\ b # First(t) /\ b # Last(t) /\ First(t) \in Streams /\ Last(t) \in Streams
  BY <1>2, <1>3, Topology
<1>5. q[b] # <<>> /\ Head(q[b]) \in Chunks
  BY <1>1, <1>2, <1>4, TakeTyped DEF Readable
<1>6. CASE /\ Verifies(Head(q[In(x)]))
           /\ q' = [q EXCEPT ![In(x)] = Tail(@)]
           /\ held' = [held EXCEPT ![x] = Head(q[In(x)]).n]
           /\ pc' = [pc EXCEPT ![x] = "write"]
           /\ UNCHANGED <<end, alive, cipher>>
  <2>1. Tail(q[b]) \in Seq(Chunks) /\ Len(Tail(q[b])) <= Capacity /\ Head(q[b]).n \in Numbers
    BY <1>1, <1>4, <1>5, TakeTyped DEF Chunks
  <2>2. /\ StreamsTyped' /\ q'[b] = Tail(q[b]) /\ end'[b] = end[b]
        /\ \A z \in Streams \ {b} : Still(z)
    BY <1>1, <1>4, <1>6, <2>1, StreamPut
  <2>3. pc[x] \notin Finished /\ written' \in [Encrypting -> Numbers]
    BY <1>1, <1>2 DEF Finished, TypeOK
  <2>4. /\ TypeOK' /\ TasksOK' /\ Elsewhere(t)
        /\ pc'[x] = "write" /\ held'[x] = Head(q[b]).n /\ \A y \in Tasks \ {x} : Quiet(y)
    <3>1. /\ x \in Tasks /\ (x = t \/ x = Opener(t))
          /\ b \in Streams /\ (b = First(t) \/ b = Middle(t) \/ b = Last(t))
      BY <1>3, <1>4
    <3>2. "write" \in {"read", "write", "part", "shut"} /\ ("write" = "part" => x \in Encrypting)
      OBVIOUS
    <3>3. pc' = [pc EXCEPT ![x] = "write"] /\ held' = [held EXCEPT ![x] = Head(q[b]).n]
      BY <1>4, <1>6
    <3>4. /\ alive' = alive /\ UNCHANGED <<cipher, relay, produced, got>>
          /\ \A u \in Encrypting \ {t} : written'[u] = written[u]
      BY <1>2, <1>6
    <3> HIDE DEF b
    <3>5. t \in Encrypting
      OBVIOUS
    <3> QED BY ONLY <1>1, <2>1, <2>2, <2>3, <3>1, <3>2, <3>3, <3>4, <3>5, MoveFrame
  <2>5. /\ Still(First(t)) /\ Still(Last(t)) /\ Quiet(t) /\ SameCounts(t)
    BY <1>2, <1>4, <2>2, <2>4 DEF SameCounts
  <2>6. Head(q[b]).state = "whole"
    BY <1>4, <1>6 DEF Verifies
  <2>7. Direction(t)'
    BY <1>1, <1>2, <1>3, <1>5, <1>6, <2>2, <2>4, <2>5, <2>6, OpenerReads
  <2>8. (\A u \in Encrypting : Direction(u))'
    BY <1>1, <1>6, <2>4, <2>7, DirectionStep
  <2>9. CipherClosed'
    BY <1>1, <1>6, <2>4, MoveCipher DEF Finished
  <2> QED BY <2>4, <2>8, <2>9 DEF IInv
<1>7. CASE CloseCipher(x) /\ Finish(x, "decrypt", [q EXCEPT ![In(x)] = Tail(@)], end)
  <2>1. ~cipher'[Side(x)] /\ "decrypt" \in Finished
    BY <1>1, <1>4, <1>7 DEF CloseCipher, TypeOK, Finished
  <2> QED BY <1>2, <1>7, <2>1, TakeAndFinish
<1>8. CASE /\ ~cipher[Side(x)] /\ UNCHANGED cipher
           /\ Finish(x, "closed", [q EXCEPT ![In(x)] = Tail(@)], end)
  <2>1. ~cipher'[Side(x)] /\ "closed" \in Finished
    BY <1>8 DEF Finished
  <2> QED BY <1>2, <1>8, <2>1, TakeAndFinish
<1> QED BY <1>6, <1>7, <1>8 DEF DecryptRead

\* A copy task sees the end of its input.
LEMMA ReadEndStep ==
  ASSUME IInv, NEW x \in Tasks, ReadEnd(x)
  PROVE  IInv'
<1>1. TypeOK /\ TasksOK /\ CipherClosed /\ \A u \in Encrypting : Direction(u)
  BY DEF IInv
<1>2. pc[x] = "read" /\ UNCHANGED <<cipher, relay, produced, written, got>>
  BY DEF ReadEnd
<1>3. CASE EndIsEof(In(x)) /\ pc' = [pc EXCEPT ![x] = "shut"] /\ UNCHANGED <<q, end, alive, held>>
  <2>1. PICK t \in Encrypting : x \in {t, Opener(t)}
    BY OpenerOf
  <2>2. /\ t \in Tasks /\ Opener(t) \in Tasks /\ t # Opener(t)
        /\ In(t) = First(t) /\ In(Opener(t)) = Middle(t)
    BY Topology
  <2>3. \A z : Still(z)
    BY <1>3 DEF Still
  <2>4. /\ TypeOK' /\ TasksOK' /\ Elsewhere(t)
        /\ pc'[x] = "shut" /\ held'[x] = held[x] /\ \A y \in Tasks \ {x} : Quiet(y)
    <3>1. First(t) \in Streams /\ x \in Tasks
      BY Topology
    <3>2. "shut" \in {"read", "write", "part", "shut"} /\ ("shut" = "part" => x \in Encrypting)
      OBVIOUS
    <3>3. held' = [held EXCEPT ![x] = held[x]] /\ held[x] \in Numbers
      BY <1>1, <1>3 DEF TypeOK
    <3>4. /\ alive' = alive /\ UNCHANGED <<cipher, relay, produced, got>>
          /\ \A u \in Encrypting \ {t} : written'[u] = written[u]
      BY <1>2, <1>3
    <3>5. pc[x] \notin Finished /\ written' \in [Encrypting -> Numbers] /\ StreamsTyped'
      BY <1>1, <1>2, <1>3 DEF Finished, TypeOK, StreamsTyped
    <3>6. pc' = [pc EXCEPT ![x] = "shut"]
      BY <1>3
    <3>7. t \in Encrypting /\ (x = t \/ x = Opener(t))
      BY <2>1
    <3> QED BY ONLY <1>1, <2>3, <3>1, <3>2, <3>3, <3>4, <3>5, <3>6, <3>7, MoveFrame
  <2>5. SameCounts(t)
    BY <1>2 DEF SameCounts
  <2>6. CASE x = t
    <3>1. Quiet(Opener(t)) /\ EndIsEof(First(t))
      BY <1>3, <2>2, <2>4, <2>6
    <3> QED BY <1>1, <1>2, <1>3, <2>3, <2>4, <2>5, <2>6, <3>1, SealerSeesEnd, DirectionStep,
               MoveCipher DEF IInv, Finished
  <2>7. CASE x = Opener(t)
    <3>1. Quiet(t) /\ EndIsEof(Middle(t))
      BY <1>3, <2>2, <2>4, <2>7
    <3> QED BY <1>1, <1>2, <1>3, <2>3, <2>4, <2>5, <2>7, <3>1, OpenerSeesEnd, DirectionStep,
               MoveCipher DEF IInv, Finished
  <2> QED BY <2>1, <2>6, <2>7
<1>4. CASE Finish(x, "io", q, end)
  <2>1. "io" \in Finished \ {"decrypt", "closed"}
    BY DEF Finished
  <2> QED BY <1>2, <1>4, <2>1, LeaveAndFinish
<1> QED BY <1>3, <1>4 DEF ReadEnd

\* A chunk is added where there is room.
LEMMA AddTyped ==
  ASSUME TypeOK, NEW st \in Streams, NEW c \in Chunks, HasRoom(st)
  PROVE  Append(q[st], c) \in Seq(Chunks) /\ Len(Append(q[st], c)) <= Capacity
<1>1. q[st] \in Seq(Chunks)
  BY DEF TypeOK
<1>2. /\ Append(q[st], c) \in Seq(Chunks) /\ Len(q[st]) \in Nat
      /\ Len(Append(q[st], c)) = Len(q[st]) + 1
  BY <1>1, AppendFacts
<1>3. \A m, n \in Nat : m < n => m + 1 <= n
  OBVIOUS
<1> QED BY <1>2, <1>3 DEF HasRoom

\* copy_decrypt writes the plaintext.
LEMMA OpenerWriteStep ==
  ASSUME IInv, NEW t \in Encrypting, pc[Opener(t)] = "write",
         alive[Last(t)[2]], end[Last(t)] = "open", HasRoom(Last(t)),
         q' = [q EXCEPT ![Last(t)] = Append(@, Chunk(held[Opener(t)], "whole"))],
         pc' = [pc EXCEPT ![Opener(t)] = "read"], held' = [held EXCEPT ![Opener(t)] = 0],
         UNCHANGED <<written, end, alive, cipher, relay, produced, got>>
  PROVE  IInv'
<1> DEFINE x == Opener(t)
           c == Last(t)
<1>1. TypeOK /\ TasksOK /\ CipherClosed /\ \A u \in Encrypting : Direction(u)
  BY DEF IInv
<1>2. /\ t \in Tasks /\ x \in Tasks /\ c \in Streams /\ t # x
      /\ c # First(t) /\ c # Middle(t) /\ First(t) \in Streams /\ Middle(t) \in Streams
  BY Topology
<1>3. Chunk(held[x], "whole") \in Chunks
  BY <1>1, <1>2 DEF Chunk, Chunks, TypeOK
<1>4. /\ Append(q[c], Chunk(held[x], "whole")) \in Seq(Chunks)
      /\ Len(Append(q[c], Chunk(held[x], "whole"))) <= Capacity
  BY <1>1, <1>2, <1>3, AddTyped
<1>5. /\ StreamsTyped' /\ q'[c] = Append(q[c], Chunk(held[x], "whole")) /\ end'[c] = end[c]
      /\ \A z \in Streams \ {c} : Still(z)
  BY <1>1, <1>2, <1>4, StreamPut
<1>6. /\ TypeOK' /\ TasksOK' /\ Elsewhere(t)
      /\ pc'[x] = "read" /\ held'[x] = 0 /\ \A y \in Tasks \ {x} : Quiet(y)
  <2>1. /\ x \in Tasks /\ (x = t \/ x = Opener(t))
        /\ c \in Streams /\ (c = First(t) \/ c = Middle(t) \/ c = Last(t))
    BY <1>2
  <2>2. "read" \in {"read", "write", "part", "shut"} /\ ("read" = "part" => x \in Encrypting)
    OBVIOUS
  <2>3. pc' = [pc EXCEPT ![x] = "read"] /\ held' = [held EXCEPT ![x] = 0] /\ 0 \in Numbers
    BY DEF Numbers
  <2>4. /\ alive' = alive /\ UNCHANGED <<cipher, relay, produced, got>>
        /\ \A u \in Encrypting \ {t} : written'[u] = written[u]
    OBVIOUS
  <2>5. pc[x] \notin Finished /\ written' \in [Encrypting -> Numbers]
    BY <1>1 DEF Finished, TypeOK
  <2>6. t \in Encrypting
    OBVIOUS
  <2> HIDE DEF x, c
  <2> QED BY ONLY <1>1, <1>5, <2>1, <2>2, <2>3, <2>4, <2>5, <2>6, MoveFrame
<1>7. Still(First(t)) /\ Still(Middle(t)) /\ Quiet(t) /\ SameCounts(t)
  BY <1>2, <1>5, <1>6 DEF SameCounts
<1>8. Direction(t)'
  BY <1>1, <1>5, <1>6, <1>7, OpenerWrites
<1>9. (\A u \in Encrypting : Direction(u))'
  BY <1>1, <1>6, <1>8, DirectionStep
<1>10. CipherClosed'
  BY <1>1, <1>2, <1>6, MoveCipher DEF Finished
<1> QED BY <1>6, <1>9, <1>10 DEF IInv

\* copy_encrypt puts the first bytes of a record on the tunnel.
LEMMA SealerBeginStep ==
  ASSUME IInv, NEW t \in Encrypting, pc[t] = "write",
         alive[Middle(t)[2]], end[Middle(t)] = "open", HasRoom(Middle(t)),
         q' = [q EXCEPT ![Middle(t)] = Append(@, Chunk(held[t], "torn"))],
         pc' = [pc EXCEPT ![t] = "part"],
         UNCHANGED <<held, written, end, alive, cipher, relay, produced, got>>
  PROVE  IInv'
<1> DEFINE b == Middle(t)
<1>1. TypeOK /\ TasksOK /\ CipherClosed /\ \A u \in Encrypting : Direction(u)
  BY DEF IInv
<1>2. /\ t \in Tasks /\ Opener(t) \in Tasks /\ b \in Streams /\ t # Opener(t)
      /\ b # First(t) /\ b # Last(t) /\ First(t) \in Streams /\ Last(t) \in Streams
  BY Topology
<1>3. Chunk(held[t], "torn") \in Chunks /\ held[t] \in Numbers
  BY <1>1, <1>2 DEF Chunk, Chunks, TypeOK
<1>4. /\ Append(q[b], Chunk(held[t], "torn")) \in Seq(Chunks)
      /\ Len(Append(q[b], Chunk(held[t], "torn"))) <= Capacity
  BY <1>1, <1>2, <1>3, AddTyped
<1>5. /\ StreamsTyped' /\ q'[b] = Append(q[b], Chunk(held[t], "torn")) /\ end'[b] = end[b]
      /\ \A z \in Streams \ {b} : Still(z)
  BY <1>1, <1>2, <1>4, StreamPut
<1>6. /\ TypeOK' /\ TasksOK' /\ Elsewhere(t)
      /\ pc'[t] = "part" /\ held'[t] = held[t] /\ \A y \in Tasks \ {t} : Quiet(y)
  <2>1. b \in Streams /\ (b = First(t) \/ b = Middle(t) \/ b = Last(t))
    BY <1>2
  <2>2. "part" \in {"read", "write", "part", "shut"}
    OBVIOUS
  <2>3. held' = [held EXCEPT ![t] = held[t]]
    BY <1>1 DEF TypeOK
  <2>4. /\ alive' = alive /\ UNCHANGED <<cipher, relay, produced, got>>
        /\ \A u \in Encrypting \ {t} : written'[u] = written[u]
    OBVIOUS
  <2>5. pc[t] \notin Finished /\ written' \in [Encrypting -> Numbers]
    BY <1>1 DEF Finished, TypeOK
  <2>6. /\ t \in Encrypting /\ t \in Tasks /\ (t = t \/ t = Opener(t))
        /\ pc' = [pc EXCEPT ![t] = "part"] /\ ("part" = "part" => t \in Encrypting)
    BY <1>2
  <2> HIDE DEF b
  <2> QED BY ONLY <1>1, <1>3, <1>5, <2>1, <2>2, <2>3, <2>4, <2>5, <2>6, MoveFrame
<1>7. Still(First(t)) /\ Still(Last(t)) /\ Quiet(Opener(t)) /\ SameCounts(t)
  BY <1>2, <1>5, <1>6 DEF SameCounts
<1>8. Direction(t)'
  BY <1>1, <1>5, <1>6, <1>7, SealerBegins
<1>9. (\A u \in Encrypting : Direction(u))'
  BY <1>1, <1>6, <1>8, DirectionStep
<1>10. CipherClosed'
  BY <1>1, <1>2, <1>6, MoveCipher DEF Finished
<1> QED BY <1>6, <1>9, <1>10 DEF IInv

\* copy_encrypt puts the rest of a record on the tunnel.
LEMMA SealerCompleteStep ==
  ASSUME IInv, NEW t \in Encrypting, pc[t] = "part",
         alive[Middle(t)[2]], end[Middle(t)] = "open",
         q' = [q EXCEPT ![Middle(t)][Len(q[Middle(t)])].state = "whole"],
         pc' = [pc EXCEPT ![t] = "read"], held' = [held EXCEPT ![t] = 0],
         written' = [written EXCEPT ![t] = @ + 1],
         UNCHANGED <<end, alive, cipher, relay, produced, got>>
  PROVE  IInv'
<1> DEFINE b == Middle(t)
           n == Len(q[b])
           c == [q[b] EXCEPT ![n].state = "whole"]
<1>1. TypeOK /\ TasksOK /\ CipherClosed /\ \A u \in Encrypting : Direction(u)
  BY DEF IInv
<1>2. /\ t \in Tasks /\ Opener(t) \in Tasks /\ b \in Streams /\ t # Opener(t)
      /\ b # First(t) /\ b # Last(t) /\ First(t) \in Streams /\ Last(t) \in Streams
      /\ Out(t) = b
  BY Topology
<1>3. Forwards(t)
  BY <1>2 DEF Forwards, Finished
<1>4. held[t] = written[t] + 1 /\ TornLast(t)
  BY <1>1, <1>3 DEF Direction, Sealing
<1>5. q[b] \in Seq(Chunks) /\ n \in 1 .. n /\ n <= Capacity /\ q[b][n] \in Chunks
  <2>1. q[b] # <<>> /\ q[b] \in Seq(Chunks) /\ n <= Capacity
    BY <1>1, <1>2, <1>4 DEF TornLast, EndsTorn, TypeOK
  <2>2. n \in Nat /\ n > 0
    BY <2>1, TailFacts
  <2>3. \A k \in Nat : k > 0 => k \in 1 .. k
    OBVIOUS
  <2>4. n \in 1 .. n
    BY <2>2, <2>3
  <2> QED BY <2>1, <2>4, ElementOfSeq
<1>6. c \in Seq(Chunks) /\ Len(c) <= Capacity
  <2> DEFINE e == [q[b][n] EXCEPT !.state = "whole"]
  <2>1. e \in Chunks
    BY <1>5 DEF Chunks
  <2>2. c = [q[b] EXCEPT ![n] = e]
    OBVIOUS
  <2> HIDE DEF e, c
  <2>3. [q[b] EXCEPT ![n] = e] \in Seq(Chunks) /\ Len([q[b] EXCEPT ![n] = e]) = n
    BY <1>5, <2>1, ExceptSeq
  <2> QED BY <1>5, <2>2, <2>3
<1>7. /\ StreamsTyped' /\ q'[b] = c /\ end'[b] = end[b]
      /\ \A z \in Streams \ {b} : Still(z)
  <2>1. q' = [q EXCEPT ![b] = c]
    OBVIOUS
  <2> HIDE DEF c
  <2> QED BY <1>1, <1>2, <1>6, <2>1, StreamPut
<1>8. written' \in [Encrypting -> Numbers] /\ written'[t] = written[t] + 1
      /\ \A u \in Encrypting \ {t} : written'[u] = written[u]
  <2>1. written[t] + 1 \in Numbers
    BY <1>1, <1>2, <1>4 DEF TypeOK
  <2> QED BY <1>1, <2>1 DEF TypeOK
<1>9. /\ TypeOK' /\ TasksOK' /\ Elsewhere(t)
      /\ pc'[t] = "read" /\ held'[t] = 0 /\ \A y \in Tasks \ {t} : Quiet(y)
  <2>1. b \in Streams /\ (b = First(t) \/ b = Middle(t) \/ b = Last(t))
    BY <1>2
  <2>2. "read" \in {"read", "write", "part", "shut"} /\ 0 \in Numbers
    BY DEF Numbers
  <2>3. alive' = alive /\ UNCHANGED <<cipher, relay, produced, got>>
    OBVIOUS
  <2>4. pc[t] \notin Finished
    BY DEF Finished
  <2> HIDE DEF b
  <2> QED BY <1>1, <1>2, <1>7, <1>8, <2>1, <2>2, <2>3, <2>4, MoveFrame
<1>10. Still(First(t)) /\ Still(Last(t)) /\ Quiet(Opener(t))
  BY <1>2, <1>7, <1>9
<1>11. Direction(t)'
  BY <1>1, <1>7, <1>8, <1>9, <1>10, SealerCompletes
<1>12. (\A u \in Encrypting : Direction(u))'
  BY <1>1, <1>9, <1>11, DirectionStep
<1>13. CipherClosed'
  BY <1>1, <1>2, <1>9, MoveCipher DEF Finished
<1> QED BY <1>9, <1>12, <1>13 DEF IInv

LEMMA WriteStep ==
  ASSUME IInv, NEW x \in Tasks, Write(x)
  PROVE  IInv'
<1>1. PICK t \in Encrypting : x \in {t, Opener(t)}
  BY OpenerOf
<1>2. /\ Out(t) = Middle(t) /\ Out(Opener(t)) = Last(t) /\ Opener(t) \notin Encrypting
      /\ pc[x] = "part" => x \in Encrypting
  BY Topology DEF IInv, TasksOK
<1>3. alive[Out(x)[2]] /\ end[Out(x)] = "open" /\ UNCHANGED <<end, alive, cipher, relay, produced, got>>
  BY DEF Write
<1>4. CASE /\ pc[x] = "write" /\ x \notin Encrypting
           /\ HasRoom(Out(x))
           /\ q' = [q EXCEPT ![Out(x)] = Append(@, Chunk(held[x], "whole"))]
           /\ pc' = [pc EXCEPT ![x] = "read"]
           /\ held' = [held EXCEPT ![x] = 0]
           /\ UNCHANGED written
  <2>1. x = Opener(t) /\ Out(x) = Last(t)
    BY <1>1, <1>2, <1>4
  <2> QED BY <1>3, <1>4, <2>1, OpenerWriteStep
<1>5. CASE /\ pc[x] = "write" /\ x \in Encrypting
           /\ HasRoom(Out(x))
           /\ q' = [q EXCEPT ![Out(x)] = Append(@, Chunk(held[x], "torn"))]
           /\ pc' = [pc EXCEPT ![x] = "part"]
           /\ UNCHANGED <<held, written>>
  <2>1. x = t /\ Out(x) = Middle(t)
    BY <1>1, <1>2, <1>5
  <2> QED BY <1>3, <1>5, <2>1, SealerBeginStep
<1>6. CASE /\ pc[x] = "part"
           /\ q' = [q EXCEPT ![Out(x)][Len(q[Out(x)])].state = "whole"]
           /\ pc' = [pc EXCEPT ![x] = "read"]
           /\ held' = [held EXCEPT ![x] = 0]
           /\ written' = [written EXCEPT ![x] = @ + 1]
  <2>1. x = t /\ Out(x) = Middle(t)
    BY <1>1, <1>2, <1>6
  <2> QED BY <1>3, <1>6, <2>1, SealerCompleteStep
<1> QED BY <1>4, <1>5, <1>6 DEF Write

\* A write is lost: the task goes on, fails, or fails on the peer's reset.
LEMMA WriteLostStep ==
  ASSUME IInv, NEW x \in Tasks, WriteLost(x)
  PROVE  IInv'
<1> DEFINE st == Out(x)
           back == Reverse(st)
<1>1. TypeOK /\ TasksOK /\ CipherClosed /\ \A u \in Encrypting : Direction(u)
  BY DEF IInv
<1>2. /\ pc[x] \in {"write", "part", "shut"}
      /\ ~alive[st[2]] \/ end[st] \in {"rst", "cut"}
      /\ UNCHANGED <<cipher, relay, produced, written, got>>
  BY DEF WriteLost
<1>3. "io" \in Finished \ {"decrypt", "closed"} /\ back \in Streams
  BY TaskStreams DEF Finished
<1>4. CASE /\ pc' = [pc EXCEPT ![x] = "read"] /\ held' = [held EXCEPT ![x] = 0]
           /\ UNCHANGED <<q, end, alive>>
  <2>1. PICK t \in Encrypting : x \in {t, Opener(t)}
    BY OpenerOf
  <2>2. /\ t \in Tasks /\ Opener(t) \in Tasks /\ t # Opener(t)
        /\ Out(t) = Middle(t) /\ Out(Opener(t)) = Last(t)
    BY Topology
  <2>3. \A z : Still(z)
    BY <1>4 DEF Still
  <2>4. /\ TypeOK' /\ TasksOK' /\ Elsewhere(t)
        /\ pc'[x] = "read" /\ held'[x] = 0 /\ \A y \in Tasks \ {x} : Quiet(y)
    <3>1. First(t) \in Streams /\ x \in Tasks
      BY Topology
    <3>2. "read" \in {"read", "write", "part", "shut"} /\ ("read" = "part" => x \in Encrypting)
      OBVIOUS
    <3>3. 0 \in Numbers
      BY DEF Numbers
    <3>4. /\ alive' = alive /\ UNCHANGED <<cipher, relay, produced, got>>
          /\ \A u \in Encrypting \ {t} : written'[u] = written[u]
      BY <1>2, <1>4
    <3>5. pc[x] \notin Finished /\ written' \in [Encrypting -> Numbers] /\ StreamsTyped'
      BY <1>1, <1>2, <1>4 DEF Finished, TypeOK, StreamsTyped
    <3>6. pc' = [pc EXCEPT ![x] = "read"] /\ held' = [held EXCEPT ![x] = 0]
      BY <1>4
    <3>7. t \in Encrypting /\ (x = t \/ x = Opener(t))
      BY <2>1
    <3> QED BY ONLY <1>1, <2>3, <3>1, <3>2, <3>3, <3>4, <3>5, <3>6, <3>7, MoveFrame
  <2>5. SameCounts(t)
    BY <1>2 DEF SameCounts
  <2>6. Direction(t)'
    <3>1. CASE x = t
      <4>1. Quiet(Opener(t)) /\ (~alive[Middle(t)[2]] \/ end[Middle(t)] # "open")
        BY <1>2, <2>2, <2>4, <3>1
      <4> QED BY <1>1, <1>4, <2>3, <2>4, <2>5, <3>1, <4>1, SealerLoses
    <3>2. CASE x = Opener(t)
      <4>1. Quiet(t) /\ (~alive[Last(t)[2]] \/ end[Last(t)] # "open")
        BY <1>2, <2>2, <2>4, <3>2
      <4> QED BY <1>1, <1>4, <2>3, <2>4, <2>5, <3>2, <4>1, OpenerLoses
    <3> QED BY <2>1, <3>1, <3>2
  <2>7. (\A u \in Encrypting : Direction(u))'
    BY <1>1, <1>4, <2>4, <2>6, DirectionStep
  <2>8. CipherClosed'
    BY <1>1, <1>2, <2>4, MoveCipher DEF Finished
  <2> QED BY <2>4, <2>7, <2>8 DEF IInv
<1>5. CASE Finish(x, "io", q, end)
  BY <1>2, <1>3, <1>5, LeaveAndFinish
<1>6. ASSUME NEW k \in 0 .. Len(q[back]),
             Finish(x, "io", [q EXCEPT ![back] = SubSeq(@, 1, k)], [end EXCEPT ![back] = "rst"])
      PROVE  IInv'
  <2> DEFINE q1 == [q EXCEPT ![back] = SubSeq(@, 1, k)]
             e1 == [end EXCEPT ![back] = "rst"]
  <2> HIDE DEF back
  <2>1. q[back] \in Seq(Chunks) /\ Len(q[back]) <= Capacity
    BY <1>1, <1>3 DEF TypeOK
  <2>2. /\ SubSeq(q[back], 1, k) \in Seq(Chunks) /\ Len(SubSeq(q[back], 1, k)) = k
        /\ Len(q[back]) \in Nat
    BY <2>1, PrefixFacts
  <2>3. k <= Capacity
    BY <2>1, <2>2
  <2>4. q1 \in [Streams -> Seq(Chunks)] /\ e1 \in [Streams -> Ends]
    BY <1>1, <2>2 DEF TypeOK, Ends
  <2>5. \A z \in Streams : Len(q1[z]) <= Capacity
    BY <1>1, <2>2, <2>3 DEF TypeOK
  <2>6. \A z \in Streams : Kept(z, q1, e1)
    <3>1. q1[back] = SubSeq(q[back], 1, k) /\ e1[back] = "rst"
      BY <1>1, <1>3 DEF TypeOK
    <3>2. \A z \in Streams \ {back} : q1[z] = q[z] /\ e1[z] = end[z]
      BY <1>1 DEF TypeOK
    <3> HIDE DEF q1, e1
    <3> QED BY <3>1, <3>2 DEF Kept
  <2>7. Finish(x, "io", q1, e1)
    BY <1>6
  <2> HIDE DEF q1, e1
  <2>8. "io" \in Finished /\ ("io" \in {"decrypt", "closed"} => ~cipher'[Side(x)])
    BY <1>3
  <2>9. UNCHANGED <<relay, produced, written, got>> /\ (cipher' = cipher \/ CloseCipher(x))
    BY <1>2
  <2> QED BY <2>4, <2>5, <2>6, <2>7, <2>8, <2>9, FinishInv
<1> QED BY <1>4, <1>5, <1>6 DEF WriteLost

\* A copy task shuts its output down and returns Ok.
LEMMA ShutdownWriteStep ==
  ASSUME IInv, NEW x \in Tasks, ShutdownWrite(x)
  PROVE  IInv'
<1> DEFINE e1 == [end EXCEPT ![Out(x)] = IF @ = "open" THEN "fin" ELSE @]
<1>1. TypeOK
  BY DEF IInv
<1>2. /\ pc[x] = "shut" /\ Finish(x, "ok", q, e1)
      /\ UNCHANGED <<cipher, relay, produced, written, got>>
  BY DEF ShutdownWrite
<1>3. /\ q \in [Streams -> Seq(Chunks)] /\ \A st \in Streams : Len(q[st]) <= Capacity
      /\ e1 \in [Streams -> Ends]
  BY <1>1, TaskStreams DEF TypeOK, Ends
<1>4. ASSUME NEW st \in Streams
      PROVE  Kept(st, q, e1) \/ (st = Out(x) /\ pc[x] = "shut" /\ Shut(st, q, e1))
  <2>1. e1[st] = IF st = Out(x) /\ end[st] = "open" THEN "fin" ELSE end[st]
    BY <1>1 DEF TypeOK
  <2> HIDE DEF e1
  <2> QED BY <1>2, <2>1 DEF Kept, Shut
<1>5. "ok" \in Finished /\ ("ok" \in {"decrypt", "closed"} => ~cipher'[Side(x)])
  BY DEF Finished
<1> HIDE DEF e1
<1> QED BY <1>2, <1>3, <1>4, <1>5, FinishInv

\* A copy task is aborted, or unwinds.
LEMMA CancelStep ==
  ASSUME IInv, NEW x \in Tasks, Cancel(x)
  PROVE  IInv'
<1>1. Finish(x, "cancelled", q, end) /\ UNCHANGED <<cipher, relay, produced, written, got>>
  BY DEF Cancel
<1>2. "cancelled" \in Finished \ {"decrypt", "closed"}
  BY DEF Finished
<1> QED BY <1>1, <1>2, LeaveAndFinish

LEMMA PanicStep ==
  ASSUME IInv, NEW x \in Tasks, Panic(x)
  PROVE  IInv'
<1>1. /\ Readable(In(x)) /\ Finish(x, "panicked", [q EXCEPT ![In(x)] = Tail(@)], end)
      /\ UNCHANGED <<relay, produced, written, got>>
      /\ cipher' = cipher \/ CloseCipher(x)
  BY DEF Panic
<1>2. "panicked" \in Finished /\ ("panicked" \in {"decrypt", "closed"} => ~cipher'[Side(x)])
  BY DEF Finished
<1> QED BY <1>1, <1>2, TakeAndFinish

\* The select! loops only record why they end.
LEMMA RelayStep ==
  ASSUME IInv, NEW s \in Sides, TaskReturned(s) \/ IdleTimeout(s) \/ ShutdownRequested(s)
  PROVE  IInv'
<1>1. TypeOK /\ TasksOK /\ CipherClosed /\ \A u \in Encrypting : Direction(u)
  BY DEF IInv
<1>2. UNCHANGED <<q, end, alive, pc, held, cipher, produced, written, got>>
  BY DEF TaskReturned, IdleTimeout, ShutdownRequested
<1>3. relay' \in [Sides -> {"running", "ok", "idle", "shutdown", "panicked"} \cup Errors]
  BY <1>1 DEF TypeOK, TaskReturned, IdleTimeout, ShutdownRequested, Errors
<1>4. TypeOK'
  BY <1>1, <1>2, <1>3 DEF TypeOK
<1>5. TasksOK' /\ CipherClosed'
  BY <1>1, <1>2 DEF TasksOK, CipherClosed
<1>6. ASSUME NEW t \in Encrypting
      PROVE  Direction(t)'
  <2>1. Worsens(t)
    BY <1>2 DEF Worsens, Fades
  <2> QED BY <1>1, <1>4, <1>5, <2>1, WorseDirection
<1> QED BY <1>4, <1>5, <1>6 DEF IInv

\* Every endpoint is the source of one direction and the sink of the other.
LEMMA EndpointRoles ==
  ASSUME NEW e \in Endpoints
  PROVE  /\ \E t \in Encrypting : Source(t) = e
         /\ \E t \in Encrypting : Sink(t) = e
         /\ e \in Parties /\ e \notin Sides
<1>1. "uplink" \in Encrypting
  BY DEF Encrypting
<1>2. PICK s \in Encrypting :
        /\ Source(s) = Sink("uplink") /\ Sink(s) = Source("uplink")
        /\ Endpoints = {Source("uplink"), Sink("uplink")}
  BY <1>1, OtherDirection
<1>3. (\E t \in Encrypting : Source(t) = e) /\ (\E t \in Encrypting : Sink(t) = e)
  BY <1>1, <1>2
<1>4. e \in Parties /\ e \notin Sides
  BY DEF Endpoints, Parties, Sides
<1> QED BY <1>3, <1>4

\* The environment moves while every task stays where it is.
LEMMA TasksStay ==
  ASSUME IInv, UNCHANGED <<pc, cipher>>, \A s \in Sides : alive'[s] = alive[s]
  PROVE  TasksOK' /\ CipherClosed'
BY Siblings DEF IInv, TasksOK, CipherClosed

LEMMA ProduceStep ==
  ASSUME IInv, NEW e \in Endpoints, Produce(e)
  PROVE  IInv'
<1>1. TypeOK /\ TasksOK /\ CipherClosed /\ \A u \in Encrypting : Direction(u)
  BY DEF IInv
<1>2. PICK t \in Encrypting : Source(t) = e
  BY EndpointRoles
<1> DEFINE a == First(t)
           c == Chunk(produced[e] + 1, "whole")
<1>3. /\ ToSide(e) = a /\ a \in Streams /\ Source(t) \in Endpoints /\ Sink(t) # Source(t)
      /\ a # Middle(t) /\ a # Last(t) /\ Middle(t) \in Streams /\ Last(t) \in Streams
      /\ t \in Tasks /\ Opener(t) \in Tasks
  BY <1>2, Topology, OtherDirection
<1>4. /\ end[a] = "open" /\ HasRoom(a)
      /\ produced[e] < IF e = "app" THEN MaxRequest ELSE MaxResponse
      /\ q' = [q EXCEPT ![a] = Append(q[a], c)]
      /\ produced' = [produced EXCEPT ![e] = @ + 1]
      /\ end' = end /\ alive' = alive
      /\ UNCHANGED <<pc, held, cipher, relay, written, got>>
  BY <1>3 DEF Produce
<1>5. produced[e] \in Nat /\ produced[e] + 1 \in Numbers
  BY <1>1, <1>4 DEF TypeOK, Numbers
<1>6. c \in Chunks
  BY <1>5 DEF Chunk, Chunks
<1>7. produced' \in [Endpoints -> Numbers] /\ produced'[e] = produced[e] + 1
      /\ \A f \in Endpoints \ {e} : produced'[f] = produced[f]
  BY <1>1, <1>4, <1>5 DEF TypeOK
<1> HIDE DEF c
<1>8. Append(q[a], c) \in Seq(Chunks) /\ Len(Append(q[a], c)) <= Capacity
  BY <1>1, <1>3, <1>4, <1>6, AddTyped
<1>9. /\ StreamsTyped' /\ q'[a] = Append(q[a], c) /\ end'[a] = end[a]
      /\ \A z \in Streams \ {a} : Still(z)
  BY <1>1, <1>3, <1>4, <1>8, StreamPut
<1>10. TypeOK'
  BY <1>1, <1>4, <1>7, <1>9 DEF TypeOK, StreamsTyped
<1>11. TasksOK' /\ CipherClosed'
  BY <1>4, TasksStay
<1>12. \A y : Quiet(y)
  BY <1>4 DEF Quiet
<1>13. Still(Middle(t)) /\ Still(Last(t))
  BY <1>3, <1>9
<1>14. Direction(t)'
  <2>1. c = Chunk(produced[Source(t)] + 1, "whole")
    BY <1>2 DEF c
  <2> QED BY <1>1, <1>2, <1>4, <1>6, <1>7, <1>9, <1>10, <1>12, <1>13, <2>1, SourceProduces
<1>15. Elsewhere(t)
  BY <1>2, <1>4, <1>7, <1>9, <1>12 DEF Elsewhere
<1>16. (\A u \in Encrypting : Direction(u))'
  BY <1>1, <1>4, <1>10, <1>11, <1>14, <1>15, DirectionStep
<1> QED BY <1>10, <1>11, <1>16 DEF IInv

LEMMA CloseWriteStep ==
  ASSUME IInv, NEW e \in Endpoints, CloseWrite(e)
  PROVE  IInv'
<1>1. TypeOK /\ TasksOK /\ CipherClosed /\ \A u \in Encrypting : Direction(u)
  BY DEF IInv
<1>2. PICK t \in Encrypting : Source(t) = e
  BY EndpointRoles
<1> DEFINE a == First(t)
<1>3. /\ ToSide(e) = a /\ a \in Streams
      /\ a # Middle(t) /\ a # Last(t) /\ Middle(t) \in Streams /\ Last(t) \in Streams
  BY <1>2, Topology
<1>4. /\ end[a] = "open" /\ end' = [end EXCEPT ![a] = "fin"] /\ q' = q /\ alive' = alive
      /\ UNCHANGED <<pc, held, cipher, relay, produced, written, got>>
  BY <1>3 DEF CloseWrite
<1>5. end' \in [Streams -> Ends] /\ end'[a] = "fin" /\ \A z \in Streams \ {a} : Still(z)
  BY <1>1, <1>3, <1>4 DEF TypeOK, Ends, Still
<1>6. TypeOK'
  BY <1>1, <1>4, <1>5 DEF TypeOK
<1>7. TasksOK' /\ CipherClosed'
  BY <1>4, TasksStay
<1>8. (\A y : Quiet(y)) /\ SameCounts(t) /\ Still(Middle(t)) /\ Still(Last(t))
  BY <1>3, <1>4, <1>5 DEF Quiet, SameCounts
<1>9. Direction(t)'
  BY <1>1, <1>4, <1>5, <1>6, <1>8, SourceCloses
<1>10. Elsewhere(t)
  BY <1>4, <1>5, <1>8 DEF Elsewhere
<1>11. (\A u \in Encrypting : Direction(u))'
  BY <1>1, <1>4, <1>6, <1>7, <1>9, <1>10, DirectionStep
<1> QED BY <1>6, <1>7, <1>11 DEF IInv

LEMMA ConsumeStep ==
  ASSUME IInv, NEW e \in Endpoints, Consume(e)
  PROVE  IInv'
<1>1. TypeOK /\ TasksOK /\ CipherClosed /\ \A u \in Encrypting : Direction(u)
  BY DEF IInv
<1>2. PICK t \in Encrypting : Sink(t) = e
  BY EndpointRoles
<1> DEFINE c == Last(t)
<1>3. /\ FromSide(e) = c /\ c \in Streams
      /\ c # Middle(t) /\ c # First(t) /\ Middle(t) \in Streams /\ First(t) \in Streams
  BY <1>2, Topology
<1>4. /\ q[c] # <<>> /\ q' = [q EXCEPT ![c] = Tail(q[c])]
      /\ got' = [got EXCEPT ![e] = Append(got[e], Head(q[c]).n)]
      /\ end' = end /\ alive' = alive
      /\ UNCHANGED <<pc, held, cipher, relay, produced, written>>
  BY <1>3 DEF Consume
<1>5. Tail(q[c]) \in Seq(Chunks) /\ Len(Tail(q[c])) <= Capacity /\ Head(q[c]).n \in Numbers
  BY <1>1, <1>3, <1>4, TakeTyped DEF Chunks
<1>6. /\ StreamsTyped' /\ q'[c] = Tail(q[c]) /\ end'[c] = end[c]
      /\ \A z \in Streams \ {c} : Still(z)
  BY <1>1, <1>3, <1>4, <1>5, StreamPut
<1>7. /\ got' \in [Endpoints -> Seq(Numbers)] /\ got'[e] = Append(got[e], Head(q[c]).n)
      /\ \A f \in Endpoints \ {e} : got'[f] = got[f]
  <2>1. got[e] \in Seq(Numbers)
    BY <1>1 DEF TypeOK
  <2>2. Append(got[e], Head(q[c]).n) \in Seq(Numbers)
    BY <1>5, <2>1, AppendFacts
  <2> QED BY <1>1, <1>4, <2>2 DEF TypeOK
<1>8. TypeOK'
  BY <1>1, <1>4, <1>6, <1>7 DEF TypeOK, StreamsTyped
<1>9. TasksOK' /\ CipherClosed'
  BY <1>4, TasksStay
<1>10. (\A y : Quiet(y)) /\ Still(First(t)) /\ Still(Middle(t))
  BY <1>3, <1>4, <1>6 DEF Quiet
<1>11. Direction(t)'
  BY <1>1, <1>2, <1>4, <1>6, <1>7, <1>8, <1>10, SinkConsumes
<1>12. Elsewhere(t)
  BY <1>2, <1>4, <1>6, <1>7, <1>10 DEF Elsewhere
<1>13. (\A u \in Encrypting : Direction(u))'
  BY <1>1, <1>4, <1>8, <1>9, <1>11, <1>12, DirectionStep
<1> QED BY <1>8, <1>9, <1>13 DEF IInv

LEMMA VanishStep ==
  ASSUME IInv, NEW e \in Endpoints, Vanish(e)
  PROVE  IInv'
<1>1. TypeOK /\ TasksOK /\ CipherClosed /\ \A u \in Encrypting : Direction(u)
  BY DEF IInv
<1>2. Drop(e, q, end) /\ UNCHANGED <<pc, held, cipher, relay, produced, written, got>>
  BY DEF Vanish
<1>3. /\ q \in [Streams -> Seq(Chunks)] /\ \A st \in Streams : Len(q[st]) <= Capacity
      /\ end \in [Streams -> Ends] /\ alive \in [Parties -> BOOLEAN] /\ e \in Parties
  BY <1>1, EndpointRoles DEF TypeOK
<1>4. /\ StreamsTyped' /\ alive' = [alive EXCEPT ![e] = FALSE]
      /\ \A st \in Streams : Fades(st, q[st], end[st])
  BY <1>2, <1>3, DropFades
<1>5. /\ \A p \in Parties : alive'[p] => alive[p]
      /\ \A s \in Sides : alive'[s] = alive[s]
  BY <1>3, <1>4, EndpointRoles DEF Parties, Sides
<1>6. TasksOK' /\ CipherClosed'
  BY <1>2, <1>5, TasksStay
<1> QED BY <1>1, <1>2, <1>4, <1>5, <1>6, FadeStep DEF IInv

\* The network resets the tunnel.
LEMMA NetworkResetStep ==
  ASSUME IInv, NetworkReset
  PROVE  IInv'
<1>1. TypeOK /\ TasksOK /\ CipherClosed /\ \A u \in Encrypting : Direction(u)
  BY DEF IInv
<1>2. PICK keep \in [Tunnel -> 0 .. Capacity] :
        /\ \A st \in Tunnel : keep[st] <= Len(q[st])
        /\ q' = [st \in Streams |-> IF st \in Tunnel THEN SubSeq(q[st], 1, keep[st])
                                    ELSE q[st]]
  BY DEF NetworkReset
<1>3. /\ end' = [st \in Streams |-> IF st \in Tunnel THEN "rst" ELSE end[st]]
      /\ UNCHANGED <<alive, pc, held, cipher, relay, produced, written, got>>
  BY DEF NetworkReset
<1>4. ASSUME NEW st \in Streams
      PROVE  /\ Fades(st, q[st], end[st])
             /\ q'[st] \in Seq(Chunks) /\ Len(q'[st]) <= Capacity /\ end'[st] \in Ends
  <2>1. q[st] \in Seq(Chunks) /\ Len(q[st]) <= Capacity /\ end[st] \in Ends
    BY <1>1 DEF TypeOK
  <2>2. Len(q[st]) \in Nat
    BY <2>1, LenProperties
  <2>3. CASE st \in Tunnel
    <3>1. keep[st] \in 0 .. Len(q[st]) /\ keep[st] <= Capacity
      BY <1>2, <2>2, <2>3
    <3>2. q'[st] = SubSeq(q[st], 1, keep[st]) /\ end'[st] = "rst"
      BY <1>2, <1>3, <2>3
    <3>3. SubSeq(q[st], 1, keep[st]) \in Seq(Chunks) /\ Len(SubSeq(q[st], 1, keep[st])) = keep[st]
      BY <2>1, <3>1, PrefixFacts
    <3> QED BY <3>1, <3>2, <3>3 DEF Fades, Ends
  <2>4. CASE st \notin Tunnel
    BY <1>2, <1>3, <2>1, <2>4 DEF Fades
  <2> QED BY <2>3, <2>4
<1>5. StreamsTyped'
  BY <1>1, <1>2, <1>3, <1>4 DEF StreamsTyped, TypeOK
<1>6. TasksOK' /\ CipherClosed'
  BY <1>3, TasksStay
<1>7. \A p \in Parties : alive'[p] => alive[p]
  BY <1>3
<1> QED BY <1>1, <1>3, <1>4, <1>5, <1>6, <1>7, FadeStep DEF IInv

\* Every tunnel stream is the middle of a direction.
LEMMA TunnelRoles ==
  ASSUME NEW st \in Tunnel
  PROVE  \E t \in Encrypting : Middle(t) = st
BY DEF Tunnel, Encrypting, Middle, Out

\* The network alters a record.
LEMMA AlterStep ==
  ASSUME IInv, NEW st \in Tunnel, Alter(st)
  PROVE  IInv'
<1>1. TypeOK /\ TasksOK /\ CipherClosed /\ \A u \in Encrypting : Direction(u)
  BY DEF IInv
<1>2. PICK t \in Encrypting : Middle(t) = st
  BY TunnelRoles
<1>3. PICK k \in 1 .. Len(q[st]) :
        q[st][k].state = "whole" /\ q' = [q EXCEPT ![st][k] = Chunk(0, "altered")]
  BY DEF Alter
<1>4. end' = end /\ alive' = alive
      /\ UNCHANGED <<pc, held, cipher, relay, produced, written, got>>
  BY DEF Alter
<1> DEFINE c == [q[st] EXCEPT ![k] = Chunk(0, "altered")]
<1>5. /\ st \in Streams /\ st # First(t) /\ st # Last(t)
      /\ First(t) \in Streams /\ Last(t) \in Streams
  BY <1>2, Topology
<1>6. c \in Seq(Chunks) /\ Len(c) <= Capacity
  <2>1. Chunk(0, "altered") \in Chunks
    BY DEF Chunk, Chunks, Numbers
  <2>2. q[st] \in Seq(Chunks) /\ Len(q[st]) <= Capacity
    BY <1>1, <1>5 DEF TypeOK
  <2>3. c \in Seq(Chunks) /\ Len(c) = Len(q[st])
    BY <2>1, <2>2, ExceptSeq
  <2> QED BY <2>2, <2>3
<1>7. q' = [q EXCEPT ![st] = c]
  BY <1>3
<1> HIDE DEF c
<1>8. /\ StreamsTyped' /\ q'[st] = c /\ end'[st] = end[st]
      /\ \A z \in Streams \ {st} : Still(z)
  BY <1>1, <1>4, <1>5, <1>6, <1>7, StreamPut
<1>9. TypeOK'
  BY <1>1, <1>4, <1>8 DEF TypeOK, StreamsTyped
<1>10. TasksOK' /\ CipherClosed'
  BY <1>4, TasksStay
<1>11. (\A y : Quiet(y)) /\ SameCounts(t) /\ Still(First(t)) /\ Still(Last(t))
  BY <1>4, <1>5, <1>8 DEF Quiet, SameCounts
<1>12. Direction(t)'
  <2>1. /\ k \in 1 .. Len(q[Middle(t)]) /\ q[Middle(t)][k].state = "whole"
        /\ q'[Middle(t)] = [q[Middle(t)] EXCEPT ![k] = Chunk(0, "altered")]
        /\ end'[Middle(t)] = end[Middle(t)]
    BY <1>2, <1>3, <1>8 DEF c
  <2>2. Quiet(t) /\ Quiet(Opener(t)) /\ Direction(t)
    BY <1>1, <1>11
  <2> QED BY <1>1, <1>4, <1>9, <1>11, <2>1, <2>2, RecordAltered
<1>13. Elsewhere(t)
  BY <1>2, <1>4, <1>8, <1>11 DEF Elsewhere
<1>14. (\A u \in Encrypting : Direction(u))'
  BY <1>1, <1>4, <1>9, <1>10, <1>12, <1>13, DirectionStep
<1> QED BY <1>9, <1>10, <1>14 DEF IInv

\* The network ends one direction of the tunnel early.
LEMMA NetworkCutStep ==
  ASSUME IInv, NEW st \in Tunnel, NetworkCut(st)
  PROVE  IInv'
<1>1. TypeOK /\ TasksOK /\ CipherClosed /\ \A u \in Encrypting : Direction(u)
  BY DEF IInv
<1>2. PICK t \in Encrypting : Middle(t) = st
  BY TunnelRoles
<1>3. /\ "cut" \in Faults /\ end[st] \in {"open", "fin"} /\ end' = [end EXCEPT ![st] = "cut"]
      /\ alive' = alive /\ UNCHANGED <<pc, held, cipher, relay, produced, written, got>>
  BY DEF NetworkCut
<1>4. /\ st \in Streams /\ st # First(t) /\ st # Last(t)
      /\ First(t) \in Streams /\ Last(t) \in Streams
  BY <1>2, Topology
<1>5. q[st] \in Seq(Chunks) /\ Len(q[st]) \in Nat /\ Len(q[st]) <= Capacity
  <2>1. q[st] \in Seq(Chunks) /\ Len(q[st]) <= Capacity
    BY <1>1, <1>4 DEF TypeOK
  <2> QED BY <2>1, LenProperties
<1>6. \E c \in Seq(Chunks) :
        /\ q' = [q EXCEPT ![st] = c] /\ Len(c) <= Len(q[st])
        /\ \A i \in 1 .. Len(c) : c[i] = q[st][i] \/ (c[i].n = 0 /\ c[i].state = "torn")
  <2>1. PICK k \in 0 .. Len(q[st]) :
          \/ q' = [q EXCEPT ![st] = SubSeq(@, 1, k)]
          \/ k > 0 /\ q' = [q EXCEPT ![st] = Append(SubSeq(@, 1, k - 1), Chunk(0, "torn"))]
    BY DEF NetworkCut
  <2>2. CASE q' = [q EXCEPT ![st] = SubSeq(@, 1, k)]
    <3> DEFINE c == SubSeq(q[st], 1, k)
    <3>1. c \in Seq(Chunks) /\ Len(c) = k /\ \A i \in 1 .. k : c[i] = q[st][i]
      BY <1>5, PrefixFacts
    <3>2. q' = [q EXCEPT ![st] = c] /\ k <= Len(q[st])
      BY <1>5, <2>2
    <3> HIDE DEF c
    <3> QED BY <3>1, <3>2
  <2>3. CASE k > 0 /\ q' = [q EXCEPT ![st] = Append(SubSeq(@, 1, k - 1), Chunk(0, "torn"))]
    <3> DEFINE d == SubSeq(q[st], 1, k - 1)
               e == Chunk(0, "torn")
               c == Append(d, e)
    <3>1. e \in Chunks /\ e.n = 0 /\ e.state = "torn"
      BY DEF Chunk, Chunks, Numbers
    <3>2. k - 1 \in 0 .. Len(q[st]) /\ k <= Len(q[st]) /\ (k - 1) + 1 = k /\ k \in Nat
      BY <1>5, <2>3
    <3>3. d \in Seq(Chunks) /\ Len(d) = k - 1 /\ \A i \in 1 .. (k - 1) : d[i] = q[st][i]
      BY <1>5, <3>2, PrefixFacts
    <3>4. q' = [q EXCEPT ![st] = c]
      BY <2>3
    <3> HIDE DEF d, e
    <3>5. /\ c \in Seq(Chunks) /\ Len(c) = Len(d) + 1
          /\ \A i \in 1 .. Len(d) : c[i] = d[i]
          /\ c[Len(d) + 1] = e
      BY <3>1, <3>3, AppendFacts
    <3> HIDE DEF c
    <3>6. Len(c) = k /\ c[k] = e /\ \A i \in 1 .. (k - 1) : c[i] = q[st][i]
      BY <3>2, <3>3, <3>5
    <3>7. \A i \in 1 .. k : i \in 1 .. (k - 1) \/ i = k
      BY <3>2
    <3>8. \A i \in 1 .. Len(c) : c[i] = q[st][i] \/ (c[i].n = 0 /\ c[i].state = "torn")
      BY <3>1, <3>6, <3>7
    <3> QED BY <3>2, <3>4, <3>5, <3>6, <3>8
  <2> QED BY <2>1, <2>2, <2>3
<1>7. PICK c \in Seq(Chunks) :
        /\ q' = [q EXCEPT ![st] = c] /\ Len(c) <= Len(q[st])
        /\ \A i \in 1 .. Len(c) : c[i] = q[st][i] \/ (c[i].n = 0 /\ c[i].state = "torn")
  BY <1>6
<1>8. q'[st] = c /\ end'[st] = "cut" /\ \A z \in Streams \ {st} : Still(z)
  BY <1>1, <1>3, <1>4, <1>7 DEF TypeOK, Still
<1>9. StreamsTyped'
  <2>1. Len(c) \in Nat
    BY LenProperties
  <2>2. Len(c) <= Capacity
    BY <1>5, <1>7, <2>1
  <2>3. q' \in [Streams -> Seq(Chunks)] /\ end' \in [Streams -> Ends]
    BY <1>1, <1>3, <1>7 DEF TypeOK, Ends
  <2>4. \A z \in Streams : Len(q'[z]) <= Capacity
    BY <1>1, <1>8, <2>2 DEF TypeOK, Still
  <2> QED BY <1>1, <1>3, <2>3, <2>4 DEF StreamsTyped, TypeOK
<1>10. TypeOK'
  BY <1>1, <1>3, <1>9 DEF TypeOK, StreamsTyped
<1>11. TasksOK' /\ CipherClosed'
  BY <1>3, TasksStay
<1>12. (\A y : Quiet(y)) /\ SameCounts(t) /\ Still(First(t)) /\ Still(Last(t))
  BY <1>3, <1>4, <1>8 DEF Quiet, SameCounts
<1>13. Direction(t)'
  <2>1. /\ end[Middle(t)] \in {"open", "fin"} /\ end'[Middle(t)] = "cut"
        /\ Len(q'[Middle(t)]) <= Len(q[Middle(t)])
        /\ \A i \in 1 .. Len(q'[Middle(t)]) :
             \/ q'[Middle(t)][i] = q[Middle(t)][i]
             \/ q'[Middle(t)][i].n = 0 /\ q'[Middle(t)][i].state = "torn"
    BY <1>2, <1>3, <1>7, <1>8
  <2>2. Quiet(t) /\ Quiet(Opener(t)) /\ Direction(t)
    BY <1>1, <1>12
  <2> QED BY <1>1, <1>3, <1>10, <1>12, <2>1, <2>2, TunnelCut
<1>14. Elsewhere(t)
  BY <1>2, <1>3, <1>8, <1>12 DEF Elsewhere
<1>15. (\A u \in Encrypting : Direction(u))'
  BY <1>1, <1>3, <1>10, <1>11, <1>13, <1>14, DirectionStep
<1> QED BY <1>10, <1>11, <1>15 DEF IInv

LEMMA StutterStep ==
  ASSUME IInv, UNCHANGED vars
  PROVE  IInv'
<1>1. TypeOK /\ TasksOK /\ CipherClosed /\ \A u \in Encrypting : Direction(u)
  BY DEF IInv
<1>2. UNCHANGED <<q, end, alive, pc, held, cipher, relay, produced, written, got>>
  BY DEF vars
<1>3. TypeOK' /\ TasksOK' /\ CipherClosed'
  BY <1>1, <1>2 DEF TypeOK, TasksOK, CipherClosed
<1>4. ASSUME NEW t \in Encrypting
      PROVE  Direction(t)'
  <2>1. Worsens(t)
    BY <1>2 DEF Worsens, Fades
  <2> QED BY <1>1, <1>3, <2>1, WorseDirection
<1> QED BY <1>3, <1>4 DEF IInv

-----------------------------------------------------------------------------
(* The invariant, and what follows from it.                                *)

LEMMA InitInvariant == Init => IInv
<1> SUFFICES ASSUME Init
             PROVE  IInv
  OBVIOUS
<1>1. <<>> \in Seq(Chunks) /\ <<>> \in Seq(Numbers) /\ Len(<<>>) = 0
  BY EmptyFacts
<1>2. TypeOK
  <2>1. /\ q \in [Streams -> Seq(Chunks)] /\ end \in [Streams -> Ends]
        /\ alive \in [Parties -> BOOLEAN]
        /\ pc \in [Tasks -> {"read", "write", "part", "shut"} \cup Finished]
    BY <1>1 DEF Init, Ends
  <2>2. /\ held \in [Tasks -> Numbers] /\ cipher \in [Sides -> BOOLEAN]
        /\ produced \in [Endpoints -> Numbers] /\ written \in [Encrypting -> Numbers]
    BY DEF Init, Numbers
  <2>3. relay \in [Sides -> {"running", "ok", "idle", "shutdown", "panicked"} \cup Errors]
    BY DEF Init
  <2>4. got \in [Endpoints -> Seq(Numbers)] /\ \A st \in Streams : Len(q[st]) <= Capacity
    BY <1>1 DEF Init
  <2> QED BY <2>1, <2>2, <2>3, <2>4 DEF TypeOK
<1>3. \A x \in Tasks : pc[x] = "read"
  BY DEF Init
<1>4. TasksOK
  <2>1. \A x \in Tasks : alive[Side(x)]
    BY Siblings DEF Init
  <2> QED BY <1>3, <2>1 DEF TasksOK
<1>5. CipherClosed
  BY <1>3 DEF CipherClosed
<1>6. ASSUME NEW t \in Encrypting
      PROVE  Direction(t)
  <2>1. /\ t \in Tasks /\ Opener(t) \in Tasks
        /\ First(t) \in Streams /\ Middle(t) \in Streams /\ Last(t) \in Streams
        /\ Source(t) \in Endpoints /\ Sink(t) \in Endpoints
    BY Topology
  <2>2. /\ q[First(t)] = <<>> /\ q[Middle(t)] = <<>> /\ q[Last(t)] = <<>>
        /\ got[Sink(t)] = <<>> /\ written[t] = 0 /\ produced[Source(t)] = 0
        /\ held[t] = 0 /\ held[Opener(t)] = 0
        /\ pc[t] = "read" /\ pc[Opener(t)] = "read"
        /\ end[First(t)] = "open" /\ end[Middle(t)] = "open" /\ end[Last(t)] = "open"
    BY <2>1 DEF Init
  <2>3. /\ Len(q[First(t)]) = 0 /\ Len(q[Middle(t)]) = 0 /\ Len(q[Last(t)]) = 0
        /\ Len(got[Sink(t)]) = 0
    BY <1>1, <2>2
  <2>4. Busy(t) = 0 /\ Busy(Opener(t)) = 0 /\ Reached(t) = 0 /\ ~TornLast(t)
    BY <2>2, <2>3 DEF Busy, Reached, TornLast, EndsTorn
  <2>5. Bounded(t) /\ Arrivals(t)
    BY <2>2, <2>3 DEF Bounded, StreamBounded, WholeNumbered, Arrivals
  <2>6. Opening(t) /\ Sealing(t)
    BY <2>2, <2>3, <2>4 DEF Opening, Sealing
  <2>7. Endings(t)
    BY <2>2 DEF Endings
  <2> QED BY <2>5, <2>6, <2>7 DEF Direction
<1> QED BY <1>2, <1>4, <1>5, <1>6 DEF IInv

LEMMA NextInvariant == IInv /\ [Next]_vars => IInv'
<1> SUFFICES ASSUME IInv, [Next]_vars
             PROVE  IInv'
  OBVIOUS
<1>1. ASSUME NEW x \in Tasks, Task(x) \/ Panic(x)
      PROVE  IInv'
  BY <1>1, EncryptReadStep, DecryptReadStep, ReadEndStep, WriteStep, WriteLostStep,
     ShutdownWriteStep, CancelStep, PanicStep DEF Task
<1>2. ASSUME NEW s \in Sides, TaskReturned(s) \/ IdleTimeout(s) \/ ShutdownRequested(s)
      PROVE  IInv'
  BY <1>2, RelayStep
<1>3. ASSUME NEW e \in Endpoints, Produce(e) \/ CloseWrite(e) \/ Consume(e) \/ Vanish(e)
      PROVE  IInv'
  BY <1>3, ProduceStep, CloseWriteStep, ConsumeStep, VanishStep
<1>4. ASSUME NEW st \in Tunnel, Alter(st) \/ NetworkCut(st)
      PROVE  IInv'
  BY <1>4, AlterStep, NetworkCutStep
<1>5. CASE NetworkReset
  BY <1>5, NetworkResetStep
<1>6. CASE UNCHANGED vars
  BY <1>6, StutterStep
<1> QED BY <1>1, <1>2, <1>3, <1>4, <1>5, <1>6 DEF Next

\* In every reachable state each direction is in order.
THEOREM RelayInvariant == Spec => []IInv
BY InitInvariant, NextInvariant, PTL DEF Spec

\* Every variable of the session stays in its range: no stream ever holds
\* more than its buffer, and no chunk carries a number nobody sent.
THEOREM RelayTypeCorrect == Spec => []TypeOK
<1>1. IInv => TypeOK
  BY DEF IInv
<1> QED BY <1>1, RelayInvariant, PTL

\* What has reached the sink of t: what it has read, then its last stream.
LEMMA ArrivedFacts ==
  ASSUME TypeOK, NEW t \in Encrypting
  PROVE  /\ Len(Arrived(Sink(t))) = Reached(t)
         /\ \A i \in 1 .. Reached(t) :
              Arrived(Sink(t))[i] = IF i <= Len(got[Sink(t)]) THEN got[Sink(t)][i]
                                    ELSE q[Last(t)][i - Len(got[Sink(t)])].n
<1> DEFINE g == got[Sink(t)]
           c == q[Last(t)]
           d == [i \in 1 .. Len(c) |-> c[i].n]
<1>1. /\ g \in Seq(Numbers) /\ Len(g) \in Nat /\ Len(c) \in Nat
      /\ \A i \in 1 .. Len(c) : c[i] \in Chunks
  BY TypesNow DEF DirectionTyped
<1>2. \A i \in 1 .. Len(c) : c[i].n \in Numbers
  BY <1>1 DEF Chunks
<1>3. d \in [1 .. Len(c) -> Numbers]
  BY <1>2
<1>4. d \in Seq(Numbers)
  BY <1>1, <1>3, SeqDef
<1>5. DOMAIN d = 1 .. Len(c) /\ DOMAIN d = 1 .. Len(d) /\ Len(d) \in Nat
  BY <1>3, <1>4, LenProperties
<1>6. Len(d) = Len(c)
  BY <1>1, <1>5
<1>7. Arrived(Sink(t)) = g \o d
  BY Topology DEF Arrived
<1>8. /\ Len(g \o d) = Len(g) + Len(d)
      /\ \A i \in 1 .. Len(g) + Len(d) :
           (g \o d)[i] = IF i <= Len(g) THEN g[i] ELSE d[i - Len(g)]
  <2> HIDE DEF g, d
  <2> QED BY <1>1, <1>4, ConcatProperties
<1>9. \A i \in 1 .. Len(c) : d[i] = c[i].n
  OBVIOUS
<1>10. \A i \in 1 .. Len(g) + Len(d) : ~(i <= Len(g)) => i - Len(g) \in 1 .. Len(c)
  <2>1. \A m, n \in Nat : \A i \in 1 .. m + n : ~(i <= m) => i - m \in 1 .. n
    OBVIOUS
  <2> HIDE DEF g, c, d
  <2> QED BY <1>1, <1>6, <2>1
<1>11. Reached(t) = Len(g) + Len(d)
  BY <1>6 DEF Reached
<1> HIDE DEF d
<1> QED BY <1>7, <1>8, <1>9, <1>10, <1>11

\* Each endpoint receives a prefix of what the other one sent, whatever the
\* copy tasks, aborts, panics, resets and altered records do: nothing is ever
\* skipped, repeated, reordered or changed (copy_encrypt and copy_decrypt).
THEOREM RelayPrefix == Spec => []PrefixDelivered
<1>1. IInv => PrefixDelivered
  <2> SUFFICES ASSUME IInv, NEW e \in Endpoints
               PROVE  /\ Len(Arrived(e)) <= produced[Far(e)]
                      /\ \A i \in 1 .. Len(Arrived(e)) : Arrived(e)[i] = i
    BY DEF PrefixDelivered
  <2>1. PICK t \in Encrypting : Sink(t) = e
    BY EndpointRoles
  <2> DEFINE g == Len(got[e])
             n == Len(q[Last(t)])
             P == produced[Source(t)]
  <2>2. DirectionTyped(t) /\ Bounded(t) /\ Arrivals(t) /\ TypeOK
    BY TypesNow DEF IInv, Direction
  <2>3. Source(t) = Far(e) /\ Reached(t) = g + n
    BY <2>1, Topology DEF Reached
  <2>4. g \in Nat /\ n \in Nat /\ P \in Nat /\ g <= P
    BY <2>1, <2>2 DEF DirectionTyped, Bounded
  <2>5. /\ \A i \in 1 .. g : got[e][i] = i
        /\ \A i \in 1 .. n : q[Last(t)][i].n = g + i
        /\ \A i \in 1 .. n : q[Last(t)][i].n <= P
    BY <2>1, <2>2 DEF Arrivals, Bounded, StreamBounded
  <2>6. /\ Len(Arrived(e)) = g + n
        /\ \A i \in 1 .. g + n :
             Arrived(e)[i] = IF i <= g THEN got[e][i] ELSE q[Last(t)][i - g].n
    BY <2>1, <2>2, <2>3, ArrivedFacts
  <2> HIDE DEF g, n, P
  <2>7. g + n <= P
    <3>1. CASE n = 0
      BY <2>4, <3>1
    <3>2. CASE n # 0
      <4>1. n \in 1 .. n
        BY <2>4, <3>2
      <4> QED BY <2>5, <4>1
    <3> QED BY <3>1, <3>2
  <2>8. ASSUME NEW i \in 1 .. g + n
        PROVE  Arrived(e)[i] = i
    <3>1. CASE i <= g
      <4>1. i \in 1 .. g
        BY <2>4, <3>1
      <4> QED BY <2>5, <2>6, <3>1, <4>1
    <3>2. CASE ~(i <= g)
      <4>1. i - g \in 1 .. n /\ g + (i - g) = i
        BY <2>4, <3>2
      <4> QED BY <2>5, <2>6, <3>2, <4>1
    <3> QED BY <3>1, <3>2
  <2> QED BY <2>3, <2>6, <2>7, <2>8 DEF P
<1> QED BY <1>1, RelayInvariant, PTL

\* What an endpoint that is shown an end of stream has received.
LEMMA EndOfStream ==
  ASSUME IInv, EndsTrusted, NEW e \in Endpoints, alive[e], end[FromSide(e)] = "fin"
  PROVE  /\ Len(Arrived(e)) = written[SealedFor(e)]
         /\ OuterTls => /\ end[ToSide(Far(e))] # "open"
                        /\ written[SealedFor(e)] = produced[Far(e)]
<1>1. PICK t \in Encrypting : Sink(t) = e
  BY EndpointRoles
<1>2. /\ FromSide(e) = Last(t) /\ SealedFor(e) = t /\ Far(e) = Source(t)
      /\ ToSide(Far(e)) = First(t)
  BY <1>1, Topology
<1>3. AllReached(t)
  BY <1>1, <1>2 DEF IInv, Direction, Endings
<1>4. Len(Arrived(e)) = Reached(t)
  BY <1>1, ArrivedFacts DEF IInv
<1> QED BY <1>2, <1>3, <1>4 DEF AllReached, AllWritten

\* The tasks that write to an endpoint, and the task whose Ok ends a relay.
Openers == {"inbound", "downlink"}
LastTask(s) == IF s = "client" THEN "downlink" ELSE "outbound"

\* How a dropped socket comes about: its writer has not returned Ok, and a
\* relay returns Ok only for a task that has passed the end of its input on.
LossInv ==
  /\ \A s \in Sides : relay[s] = "ok" => pc[LastTask(s)] = "ok"
  /\ \A x \in Tasks : pc[x] \in {"shut", "ok"} => end[In(x)] # "open"
  /\ \A x \in Tasks : pc[x] = "ok" => end[Out(x)] # "open"
  /\ \A x \in Tasks : pc[x] = "cancelled" => relay[Side(x)] \notin {"running", "panicked"}
  /\ \A x \in Openers :
       end[Out(x)] = "cut" => pc[x] \in Errors \cup {"cancelled", "panicked"}

\* What a step may do to tasks, ends of streams and relays.
TaskMoves(x) ==
  /\ pc[x] \notin Finished
  /\ pc'[x] = "ok" => pc[x] = "shut" /\ end'[Out(x)] # "open"
  /\ pc'[x] = "shut" => end[In(x)] # "open"
  /\ pc'[x] = "cancelled" => relay[Side(x)] \notin {"running", "panicked"}
EndsMove ==
  /\ \A st \in Streams : end'[st] = "open" => end[st] = "open"
  /\ \A x \in Openers : end'[Out(x)] = "cut" =>
       \/ end[Out(x)] = "cut"
       \/ end[Out(x)] = "open" /\ pc'[x] \in Finished /\ (pc'[x] = "ok" => pc[x] = "ok")
RelayMoves(s) ==
  relay[s] = "running" /\ relay'[s] # "running" /\ (relay'[s] = "ok" => pc[LastTask(s)] = "ok")
LossStep ==
  /\ \A x \in Tasks : pc'[x] = pc[x] \/ TaskMoves(x)
  /\ EndsMove
  /\ \A s \in Sides : relay'[s] = relay[s] \/ RelayMoves(s)

LEMMA LossPlaces ==
  /\ Openers \subseteq Tasks
  /\ \A s \in Sides : LastTask(s) \in Tasks
  /\ \A x \in Tasks : In(x) \in Streams /\ Out(x) \in Streams /\ Side(x) \in Sides
                      /\ Out(x)[1] = Side(x)
  /\ \A x \in Openers : Out(x) \notin Tunnel
  /\ \A x, y \in Tasks : Out(x) = Out(y) => x = y
BY DEF Openers, Tasks, Sides, LastTask, In, Out, Side, Streams, Tunnel

LEMMA LossPreserved ==
  ASSUME IInv, LossInv, LossStep
  PROVE  LossInv'
<1>1. ASSUME NEW s \in Sides, relay'[s] = "ok"
      PROVE  pc'[LastTask(s)] = "ok"
  <2>1. pc[LastTask(s)] = "ok"
    BY <1>1 DEF LossInv, LossStep, RelayMoves
  <2> QED BY <2>1, LossPlaces DEF LossStep, TaskMoves, Finished
<1>2. ASSUME NEW x \in Tasks, pc'[x] \in {"shut", "ok"}
      PROVE  end'[In(x)] # "open"
  <2>1. end[In(x)] # "open"
    BY <1>2 DEF LossInv, LossStep, TaskMoves
  <2> QED BY <2>1, LossPlaces DEF LossStep, EndsMove
<1>3. ASSUME NEW x \in Tasks, pc'[x] = "ok"
      PROVE  end'[Out(x)] # "open"
  BY <1>3, LossPlaces DEF LossInv, LossStep, EndsMove, TaskMoves
<1>4. ASSUME NEW x \in Tasks, pc'[x] = "cancelled"
      PROVE  relay'[Side(x)] \notin {"running", "panicked"}
  <2>1. relay[Side(x)] \notin {"running", "panicked"} /\ Side(x) \in Sides
    BY <1>4, LossPlaces DEF LossInv, LossStep, TaskMoves
  <2> QED BY <2>1 DEF LossStep, RelayMoves
<1>5. ASSUME NEW x \in Openers, end'[Out(x)] = "cut"
      PROVE  pc'[x] \in Errors \cup {"cancelled", "panicked"}
  <2>1. x \in Tasks
    BY LossPlaces
  <2>2. CASE end[Out(x)] = "cut"
    <3>1. pc[x] \in Errors \cup {"cancelled", "panicked"}
      BY <2>2 DEF LossInv
    <3> QED BY <2>1, <3>1 DEF LossStep, TaskMoves, Errors, Finished
  <2>3. CASE end[Out(x)] = "open" /\ pc'[x] \in Finished /\ (pc'[x] = "ok" => pc[x] = "ok")
    <3>1. pc'[x] # "ok"
      BY <2>1, <2>3 DEF LossInv
    <3> QED BY <2>3, <3>1 DEF Finished, Errors
  <2> QED BY <1>5, <2>2, <2>3 DEF LossStep, EndsMove
<1> QED BY <1>1, <1>2, <1>3, <1>4, <1>5 DEF LossInv

\* The end of a task t with result r, when only the end of its output and
\* the end of a reset stream were set before.
LEMMA FinishLoss ==
  ASSUME TypeOK, NEW t \in Tasks, NEW r \in Finished, NEW q1, NEW e1 \in [Streams -> Ends],
         \A st \in Streams : e1[st] \in {"fin", "rst"} \/ e1[st] = end[st],
         \A st \in Streams : e1[st] = "open" => end[st] = "open",
         pc[t] \notin Finished, Finish(t, r, q1, e1),
         r = "ok" => pc[t] = "shut" /\ e1[Out(t)] # "open",
         r = "cancelled" => relay[Side(t)] \notin {"running", "panicked"},
         relay' = relay
  PROVE  LossStep
<1>1. pc' = [pc EXCEPT ![t] = r] /\ pc \in [Tasks -> {"read", "write", "part", "shut"} \cup Finished]
  BY DEF Finish, TypeOK
<1>2. /\ pc'[t] = r /\ r # "shut"
      /\ \A x \in Tasks \ {t} : pc'[x] = pc[x]
  BY <1>1 DEF Finished
<1>3. \/ end' = e1
      \/ /\ pc[Sibling(t)] \in Finished
         /\ \A st \in Streams : \/ end'[st] = "rst"
                                \/ end'[st] = e1[st]
                                \/ st[1] = Side(t) /\ e1[st] = "open" /\ end'[st] = "cut"
         /\ \A st \in Streams : end'[st] = "open" => e1[st] = "open"
  BY DEF Finish, Drop
<1>4. TaskMoves(t)
  BY <1>2, <1>3, LossPlaces DEF TaskMoves
<1>5. \A st \in Streams : end'[st] = "open" => end[st] = "open"
  BY <1>3
<1>6. ASSUME NEW x \in Openers, end'[Out(x)] = "cut"
      PROVE  \/ end[Out(x)] = "cut"
             \/ end[Out(x)] = "open" /\ pc'[x] \in Finished /\ (pc'[x] = "ok" => pc[x] = "ok")
  <2>1. x \in Tasks /\ Out(x) \in Streams /\ Out(x)[1] = Side(x)
    BY LossPlaces
  <2>2. CASE e1[Out(x)] = "cut"
    BY <2>1, <2>2
  <2>3. CASE e1[Out(x)] # "cut"
    <3>1. /\ pc[Sibling(t)] \in Finished /\ Side(x) = Side(t) /\ e1[Out(x)] = "open"
      BY <1>3, <1>6, <2>1, <2>3
    <3>2. x = t \/ x = Sibling(t)
      BY <2>1, <3>1, Siblings
    <3>3. pc'[x] \in Finished /\ (pc'[x] = "ok" => pc[x] = "ok")
      BY <1>2, <2>1, <3>1, <3>2
    <3> QED BY <2>1, <3>1, <3>3
  <2> QED BY <2>2, <2>3
<1> QED BY <1>2, <1>4, <1>5, <1>6 DEF LossStep, EndsMove

\* A task's step that ends neither the task nor a stream.
LEMMA GoesOn ==
  ASSUME TypeOK, NEW t \in Tasks, NEW v \in {"read", "write", "part", "shut"},
         pc[t] \notin Finished, pc' = [pc EXCEPT ![t] = v], UNCHANGED <<end, relay>>,
         v = "shut" => end[In(t)] # "open"
  PROVE  LossStep
<1>1. pc'[t] = v /\ \A x \in Tasks \ {t} : pc'[x] = pc[x]
  BY DEF TypeOK
<1>2. TaskMoves(t)
  BY <1>1 DEF TaskMoves
<1> QED BY <1>1, <1>2 DEF LossStep, EndsMove

LEMMA TaskLoss ==
  ASSUME TypeOK, NEW t \in Tasks, Task(t) \/ Panic(t)
  PROVE  LossStep
<1>1. ASSUME NEW r \in {"io", "closed", "decrypt", "panicked"}, NEW q1, Finish(t, r, q1, end),
             pc[t] \notin Finished, relay' = relay
      PROVE  LossStep
  <2>1. end \in [Streams -> Ends]
    BY DEF TypeOK
  <2>2. r \in Finished /\ r # "ok" /\ r # "cancelled"
    BY DEF Finished
  <2> QED BY <1>1, <2>1, <2>2, FinishLoss
<1>2. CASE EncryptRead(t)
  BY <1>1, <1>2, GoesOn DEF EncryptRead, Finished
<1>3. CASE DecryptRead(t)
  BY <1>1, <1>3, GoesOn DEF DecryptRead, Finished
<1>4. CASE ReadEnd(t)
  BY <1>1, <1>4, GoesOn DEF ReadEnd, Finished
<1>5. CASE Write(t)
  BY <1>5, GoesOn DEF Write, Finished
<1>6. CASE WriteLost(t)
  <2> DEFINE back == Reverse(Out(t))
             e1 == [end EXCEPT ![back] = "rst"]
  <2>1. /\ e1 \in [Streams -> Ends]
        /\ \A st \in Streams : e1[st] \in {"fin", "rst"} \/ e1[st] = end[st]
        /\ \A st \in Streams : e1[st] = "open" => end[st] = "open"
    BY DEF TypeOK, Ends
  <2>2. pc[t] \notin Finished /\ relay' = relay
    BY <1>6 DEF WriteLost, Finished
  <2>3. ASSUME NEW q1, Finish(t, "io", q1, e1)
        PROVE  LossStep
    <3> HIDE DEF e1
    <3> QED BY <2>1, <2>2, <2>3, FinishLoss DEF Finished
  <2>4. CASE pc' = [pc EXCEPT ![t] = "read"] /\ UNCHANGED end
    BY <2>2, <2>4, GoesOn
  <2> QED BY <1>1, <1>6, <2>2, <2>3, <2>4 DEF WriteLost
<1>7. CASE ShutdownWrite(t)
  <2> DEFINE e1 == [end EXCEPT ![Out(t)] = IF @ = "open" THEN "fin" ELSE @]
  <2>1. /\ e1 \in [Streams -> Ends] /\ e1[Out(t)] # "open"
        /\ \A st \in Streams : e1[st] \in {"fin", "rst"} \/ e1[st] = end[st]
        /\ \A st \in Streams : e1[st] = "open" => end[st] = "open"
    BY LossPlaces DEF TypeOK, Ends
  <2>2. pc[t] = "shut" /\ relay' = relay /\ Finish(t, "ok", q, e1)
    BY <1>7 DEF ShutdownWrite
  <2> HIDE DEF e1
  <2> QED BY <2>1, <2>2, FinishLoss DEF Finished
<1>8. CASE Cancel(t)
  <2>1. end \in [Streams -> Ends]
    BY DEF TypeOK
  <2> QED BY <1>8, <2>1, FinishLoss DEF Cancel, Finished
<1>9. CASE Panic(t)
  BY <1>1, <1>9 DEF Panic, Finished
<1> QED BY <1>2, <1>3, <1>4, <1>5, <1>6, <1>7, <1>8, <1>9 DEF Task

\* A step that touches no task, no relay and no stream to an endpoint.
LEMMA OutsideLoss ==
  ASSUME UNCHANGED <<pc, relay>>,
         \A st \in Streams : end'[st] = "open" => end[st] = "open",
         \A x \in Openers : end'[Out(x)] = "cut" => end[Out(x)] = "cut"
  PROVE  LossStep
BY DEF LossStep, EndsMove

LEMMA NextLoss ==
  ASSUME IInv, [Next]_vars
  PROVE  LossStep
<1>1. TypeOK
  BY DEF IInv
<1>2. ASSUME NEW t \in Tasks, Task(t) \/ Panic(t)
      PROVE  LossStep
  BY <1>1, <1>2, TaskLoss
<1>3. ASSUME NEW s \in Sides, TaskReturned(s) \/ IdleTimeout(s) \/ ShutdownRequested(s)
      PROVE  LossStep
  <2>1. PICK v : relay' = [relay EXCEPT ![s] = v]
    BY <1>3 DEF TaskReturned, IdleTimeout, ShutdownRequested
  <2>2. relay'[s] = v /\ \A y \in Sides \ {s} : relay'[y] = relay[y]
    BY <1>1, <2>1 DEF TypeOK
  <2>3. UNCHANGED <<pc, end>> /\ relay[s] = "running"
    BY <1>3 DEF TaskReturned, IdleTimeout, ShutdownRequested
  <2>4. v # "running" /\ (v = "ok" => pc[LastTask(s)] = "ok")
    <3>1. CASE TaskReturned(s)
      <4>1. PICK t \in Tasks :
              /\ Side(t) = s
              /\ pc[t] \in Errors \cup {"panicked"} \/ (pc[t] = "ok" /\ t \in EndsRelay)
              /\ relay' = [relay EXCEPT ![s] = pc[t]]
        BY <3>1 DEF TaskReturned
      <4>2. v = pc[t]
        BY <1>1, <2>2, <4>1 DEF TypeOK
      <4>3. t \in EndsRelay => t = LastTask(s)
        BY <4>1 DEF EndsRelay, LastTask, Side
      <4> QED BY <4>1, <4>2, <4>3 DEF Errors
    <3>2. CASE IdleTimeout(s) \/ ShutdownRequested(s)
      BY <1>1, <2>2, <3>2 DEF IdleTimeout, ShutdownRequested, TypeOK
    <3> QED BY <1>3, <3>1, <3>2
  <2>5. RelayMoves(s)
    BY <2>2, <2>3, <2>4 DEF RelayMoves
  <2> QED BY <2>2, <2>3, <2>5 DEF LossStep, EndsMove
<1>4. ASSUME NEW e \in Endpoints, Produce(e) \/ CloseWrite(e) \/ Consume(e) \/ Vanish(e)
      PROVE  LossStep
  <2>1. UNCHANGED <<pc, relay>>
    BY <1>4 DEF Produce, CloseWrite, Consume, Vanish
  <2>2. \A st \in Streams : \/ end'[st] = end[st]
                            \/ end'[st] # "open" /\ st[1] = e
    <3>1. CASE UNCHANGED end
      BY <3>1
    <3>2. CASE CloseWrite(e)
      <4>1. ToSide(e)[1] = e
        BY DEF ToSide, Endpoints
      <4> QED BY <1>1, <3>2, <4>1 DEF CloseWrite, TypeOK
    <3>3. CASE Vanish(e)
      BY <3>3 DEF Vanish, Drop
    <3> QED BY <1>4, <3>1, <3>2, <3>3 DEF Produce, Consume
  <2>3. \A x \in Openers : Out(x) \in Streams /\ Out(x)[1] # e
    BY DEF Openers, Out, Streams, Endpoints
  <2> QED BY <2>1, <2>2, <2>3, OutsideLoss
<1>5. ASSUME NEW st \in Tunnel, Alter(st) \/ NetworkCut(st)
      PROVE  LossStep
  <2>1. UNCHANGED <<pc, relay>> /\ (UNCHANGED end \/ end' = [end EXCEPT ![st] = "cut"])
    BY <1>5 DEF Alter, NetworkCut
  <2>2. \A y \in Streams : end'[y] = end[y] \/ (end'[y] = "cut" /\ y = st)
    BY <1>1, <2>1 DEF TypeOK
  <2>3. \A x \in Openers : Out(x) \in Streams /\ Out(x) # st
    BY LossPlaces
  <2> QED BY <2>1, <2>2, <2>3, OutsideLoss
<1>6. CASE NetworkReset
  BY <1>6, LossPlaces, OutsideLoss DEF NetworkReset
<1>7. CASE UNCHANGED vars
  BY <1>7, OutsideLoss DEF vars
<1> QED BY <1>2, <1>3, <1>4, <1>5, <1>6, <1>7 DEF Next

\* In every reachable state a dropped socket has a failed or ended relay
\* behind it.
LEMMA LossInvariant == Spec => []LossInv
<1>1. Init => LossInv
  BY LossPlaces DEF Init, LossInv
<1>2. IInv /\ LossInv /\ [Next]_vars => LossInv'
  BY NextLoss, LossPreserved
<1> QED BY <1>1, <1>2, RelayInvariant, PTL DEF Spec

\* What an endpoint whose socket was dropped knows.
LEMMA DroppedSocket ==
  ASSUME TypeOK, LossInv, NEW e \in Endpoints, end[FromSide(e)] = "cut"
  PROVE  KnownLoss(e)
<1> DEFINE x == IF e = "app" THEN "downlink" ELSE "inbound"
           s == Side(x)
<1>1. /\ x \in Openers /\ x \in Tasks /\ s \in Sides /\ FromSide(e) = Out(x)
      /\ FromSide(e)[1] = s
  BY DEF Endpoints, Openers, Tasks, Side, Sides, FromSide, ToSide, Reverse, Out
<1>2. /\ pc[x] \in Errors \cup {"cancelled", "panicked"}
      /\ pc[x] = "cancelled" => relay[s] \notin {"running", "panicked"}
  BY <1>1 DEF LossInv
<1>3. CASE relay[s] # "ok"
  BY <1>1, <1>2, <1>3 DEF KnownLoss, FailedBeside
<1>4. CASE relay[s] = "ok"
  <2>1. pc[LastTask(s)] = "ok"
    BY <1>1, <1>4 DEF LossInv
  <2>2. e = "dest"
    BY <1>2, <2>1 DEF Endpoints, LastTask, Side, Errors
  <2>3. pc["outbound"] = "ok" /\ "outbound" \in Tasks /\ In("outbound") = ToSide(e)
    BY <2>1, <2>2 DEF LastTask, Side, Tasks, In, ToSide
  <2> QED BY <2>2, <2>3 DEF LossInv, KnownLoss
<1> QED BY <1>3, <1>4

\* With outer TLS, an endpoint that sees an end of stream has been sent all
\* that the other endpoint sent before it ended its own stream, or the relay
\* beside it failed, or it is a destination that had ended its own stream:
\* neither relay returns Ok over a stream to its endpoint that it cut short
\* unasked, and copy_decrypt never shuts one down that lacks something.
THEOREM EofComplete ==
  ASSUME OuterTls
  PROVE  Spec => []EofIsComplete
<1>1. IInv /\ LossInv => EofIsComplete
  BY EndOfStream, DroppedSocket DEF EofIsComplete, EndsTrusted, CleanEnd, IInv
<1> QED BY <1>1, RelayInvariant, LossInvariant, PTL

\* With outer TLS, or when nobody on the path ends connections early, the end
\* of stream that an endpoint sees comes after every record the peer wrote
\* completely, or the loss is known in the same way.
THEOREM EofAfterRecords ==
  ASSUME EndsTrusted
  PROVE  Spec => []EofAfterEveryRecord
<1>1. IInv /\ LossInv => EofAfterEveryRecord
  BY EndOfStream, DroppedSocket DEF EofAfterEveryRecord, CleanEnd, IInv
<1> QED BY <1>1, RelayInvariant, LossInvariant, PTL

\* After a failed encrypt_record or decrypt_record has left the shared
\* Option<TransportState> empty, the other copy task of that side seals or
\* opens nothing more.
THEOREM FailuresStopSiblings == Spec => FailureStopsSibling
<1>1. IInv /\ [Next]_vars =>
        [\A t \in Tasks : pc[t] \in {"decrypt", "closed"} =>
           ~(pc[Sibling(t)] = "read" /\ pc'[Sibling(t)] = "write")]_vars
  <2> SUFFICES ASSUME IInv, [Next]_vars, NEW t \in Tasks, pc[t] \in {"decrypt", "closed"},
                      pc[Sibling(t)] = "read", pc'[Sibling(t)] = "write"
               PROVE  FALSE
    OBVIOUS
  <2> DEFINE x == Sibling(t)
  <2>1. /\ x \in Tasks /\ ~cipher[Side(x)]
        /\ pc \in [Tasks -> {"read", "write", "part", "shut"} \cup Finished]
    BY Siblings DEF IInv, CipherClosed, TypeOK
  <2> HIDE DEF x
  <2>2. pc[x] = "read" /\ pc'[x] = "write"
    BY DEF x
  <2>3. ASSUME NEW y \in Tasks, NEW v, pc' = [pc EXCEPT ![y] = v]
        PROVE  x = y /\ v = "write"
    BY <2>1, <2>2, <2>3
  <2>4. \A y \in Tasks : \A r \in Finished : \A q1, e1 : ~Finish(y, r, q1, e1)
    BY <2>3 DEF Finish, Finished
  <2>5. ASSUME NEW y \in Tasks, Task(y) \/ Panic(y)
        PROVE  FALSE
    <3>1. ~EncryptRead(y) /\ ~DecryptRead(y)
      BY <2>1, <2>3, <2>4 DEF EncryptRead, DecryptRead, Finished
    <3>2. ~ReadEnd(y) /\ ~Write(y) /\ ~WriteLost(y)
      BY <2>2, <2>3, <2>4 DEF ReadEnd, Write, WriteLost, Finished
    <3>3. ~ShutdownWrite(y) /\ ~Cancel(y) /\ ~Panic(y)
      BY <2>4 DEF ShutdownWrite, Cancel, Panic, Finished
    <3> QED BY <2>5, <3>1, <3>2, <3>3 DEF Task
  <2>6. CASE pc' = pc
    BY <2>2, <2>6
  <2> QED BY <2>5, <2>6 DEF Next, vars, TaskReturned, IdleTimeout, ShutdownRequested, Produce,
       CloseWrite, Consume, Vanish, Alter, NetworkCut, NetworkReset
<1> QED BY <1>1, RelayInvariant, PTL DEF Spec, FailureStopsSibling

-----------------------------------------------------------------------------
(* The two relays implement a channel between their endpoints.             *)

\* What an endpoint that has sent n chunks has sent.
Counting(n) == [i \in 1 .. n |-> i]

LEMMA CountingFacts ==
  ASSUME NEW n \in Nat
  PROVE  /\ Counting(n) \in Seq(Nat) /\ Len(Counting(n)) = n
         /\ \A i \in 1 .. n : Counting(n)[i] = i
         /\ Counting(n + 1) = Append(Counting(n), n + 1)
         /\ Counting(0) = <<>>
<1>1. \A m \in Nat : /\ Counting(m) \in Seq(Nat) /\ Len(Counting(m)) = m
                     /\ \A i \in 1 .. m : Counting(m)[i] = i
  <2> SUFFICES ASSUME NEW m \in Nat
               PROVE  /\ Counting(m) \in Seq(Nat) /\ Len(Counting(m)) = m
                      /\ \A i \in 1 .. m : Counting(m)[i] = i
    OBVIOUS
  <2>1. Counting(m) \in [1 .. m -> Nat]
    BY DEF Counting
  <2>2. Counting(m) \in Seq(Nat)
    BY <2>1, SeqDef
  <2>3. Len(Counting(m)) = m
    BY <2>1, <2>2, LenProperties
  <2> QED BY <2>2, <2>3 DEF Counting
<1>2. Counting(n + 1) = Append(Counting(n), n + 1)
  <2> DEFINE x == Counting(n + 1)
             y == Append(Counting(n), n + 1)
  <2>1. x \in Seq(Nat) /\ Len(x) = n + 1 /\ \A i \in 1 .. n + 1 : x[i] = i
    BY <1>1, n + 1 \in Nat
  <2>2. /\ y \in Seq(Nat) /\ Len(y) = n + 1 /\ y[n + 1] = n + 1
        /\ \A i \in 1 .. n : y[i] = Counting(n)[i]
    <3> DEFINE c == Counting(n)
    <3>1. c \in Seq(Nat) /\ Len(c) = n
      BY <1>1
    <3> HIDE DEF c
    <3>2. /\ Append(c, n + 1) \in Seq(Nat) /\ Len(Append(c, n + 1)) = n + 1
          /\ Append(c, n + 1)[n + 1] = n + 1
      BY <3>1
    <3>3. \A i \in 1 .. n : Append(c, n + 1)[i] = c[i]
      BY <3>1
    <3> QED BY <3>2, <3>3 DEF c
  <2> HIDE DEF x, y
  <2>3. \A i \in 1 .. n + 1 : x[i] = y[i]
    <3> SUFFICES ASSUME NEW i \in 1 .. n + 1 PROVE y[i] = i
      BY <2>1
    <3>1. CASE i = n + 1
      BY <2>2, <3>1
    <3>2. CASE i # n + 1
      <4>1. i \in 1 .. n
        BY <3>2
      <4> QED BY <1>1, <2>2, <4>1
    <3> QED BY <3>1, <3>2
  <2>4. x = y
    BY <2>1, <2>2, <2>3, SeqEqual
  <2> QED BY <2>4 DEF x, y
<1>3. Counting(0) = <<>>
  BY <1>1, EmptySeq, 0 \in Nat
<1> QED BY <1>1, <1>2, <1>3

\* A step that no endpoint takes part in.
LEMMA Invisible ==
  ASSUME produced' = produced, got' = got, \A e \in Endpoints : alive'[e] = alive[e]
  PROVE  UNCHANGED EndToEnd!vars
BY DEF EndToEnd!vars

LEMMA FinishInvisible ==
  ASSUME TypeOK, NEW t \in Tasks, NEW r, NEW q1, NEW e1, Finish(t, r, q1, e1)
  PROVE  \A e \in Endpoints : alive'[e] = alive[e]
<1>1. alive' = alive \/ alive' = [alive EXCEPT ![Side(t)] = FALSE]
  BY DEF Finish, Drop
<1>2. Side(t) \notin Endpoints
  BY DEF Side, Endpoints
<1> QED BY <1>1, <1>2 DEF TypeOK, Endpoints, Parties

\* For any number of chunks, any buffers and all the faults of the network,
\* the endpoints and the tasks: the relays on top of seal_record and
\* open_record give the application and the destination the channel that
\* those functions give the relays.
THEOREM TunnelRefinesChannel == Spec => TunnelIsChannel
<1>1. Init => EndToEnd!Init
  <2> SUFFICES ASSUME Init PROVE EndToEnd!Init
    OBVIOUS
  <2>1. \A e \in Endpoints : produced[e] = 0 /\ alive[e] = TRUE
    BY DEF Init, Endpoints, Parties
  <2>2. got = [e \in Endpoints |-> <<>>]
    BY DEF Init
  <2>3. [i \in 1 .. 0 |-> i] = <<>>
    BY CountingFacts DEF Counting
  <2>4. [e \in Endpoints |-> [i \in 1 .. produced[e] |-> i]] = [e \in Endpoints |-> <<>>]
    BY <2>1, <2>3
  <2>5. [e \in Endpoints |-> alive[e]] = [e \in Endpoints |-> TRUE]
    BY <2>1
  <2> QED BY <2>2, <2>4, <2>5 DEF EndToEnd!Init
<1>2. IInv /\ [Next]_vars => [EndToEnd!Next]_EndToEnd!vars
  <2> SUFFICES ASSUME IInv, [Next]_vars
               PROVE  EndToEnd!Next \/ UNCHANGED EndToEnd!vars
    OBVIOUS
  <2>0. TypeOK
    BY DEF IInv
  <2> DEFINE Hidden == produced' = produced /\ got' = got /\ \A e \in Endpoints : alive'[e] = alive[e]
             S == [e \in Endpoints |-> [i \in 1 .. produced[e] |-> i]]
             U == [e \in Endpoints |-> alive[e]]
  <2>1. ASSUME NEW t \in Tasks, Task(t) \/ Panic(t)
        PROVE  Hidden
    <3>1. produced' = produced /\ got' = got
      BY <2>1 DEF Task, Panic, EncryptRead, DecryptRead, ReadEnd, Write, WriteLost,
                  ShutdownWrite, Cancel
    <3>2. alive' = alive \/ \E r, q1, e1 : Finish(t, r, q1, e1)
      BY <2>1 DEF Task, Panic, EncryptRead, DecryptRead, ReadEnd, Write, WriteLost,
                  ShutdownWrite, Cancel
    <3> QED BY <2>0, <3>1, <3>2, FinishInvisible
  <2>2. ASSUME \/ \E s \in Sides : TaskReturned(s) \/ IdleTimeout(s) \/ ShutdownRequested(s)
               \/ \E e \in Endpoints : CloseWrite(e)
               \/ \E st \in Tunnel : Alter(st) \/ NetworkCut(st)
               \/ NetworkReset \/ UNCHANGED vars
        PROVE  Hidden
    BY <2>2 DEF TaskReturned, IdleTimeout, ShutdownRequested, CloseWrite, Alter, NetworkCut,
                NetworkReset, vars
  <2>3. ASSUME NEW e \in Endpoints, Produce(e)
        PROVE  EndToEnd!Next
    <3>1. /\ alive[e] /\ alive' = alive /\ got' = got
          /\ produced' = [produced EXCEPT ![e] = @ + 1]
          /\ produced[e] + 1 \in Numbers
      BY <2>0, <2>3 DEF Produce, Numbers, TypeOK, Endpoints
    <3>2. produced \in [Endpoints -> Nat]
      BY <2>0 DEF TypeOK, Numbers
    <3>3. [i \in 1 .. produced[e] + 1 |-> i] = Append([i \in 1 .. produced[e] |-> i], produced[e] + 1)
      BY <3>2, CountingFacts DEF Counting
    <3>4. S' = [S EXCEPT ![e] = Append(@, produced[e] + 1)]
      BY <3>1, <3>2, <3>3
    <3>5. U' = U /\ U[e]
      BY <3>1
    <3> DEFINE k == produced[e] + 1
    <3>6. k \in Numbers
      BY <3>1
    <3> HIDE DEF k
    <3>7. k \in Numbers /\ U[e] /\ S' = [S EXCEPT ![e] = Append(@, k)] /\ got' = got /\ U' = U
      BY <3>1, <3>4, <3>5, <3>6 DEF k
    <3> QED BY <3>7 DEF EndToEnd!Next, EndToEnd!Send
  <2>4. ASSUME NEW e \in Endpoints, Consume(e)
        PROVE  EndToEnd!Next
    <3> DEFINE n == Len(got[e]) + 1
    <3>1. /\ alive[e] /\ alive' = alive /\ produced' = produced
          /\ got' = [got EXCEPT ![e] = Append(@, Head(q[FromSide(e)]).n)]
          /\ q[FromSide(e)] # <<>>
      BY <2>4 DEF Consume
    <3>2. Far(e) \in Endpoints /\ produced[Far(e)] \in Nat
      BY <2>0 DEF Far, Endpoints, TypeOK, Numbers
    <3>3. n <= produced[Far(e)] /\ Head(q[FromSide(e)]).n = n /\ n \in Nat \ {0}
      <4>1. PICK t \in Encrypting : Sink(t) = e
        BY EndpointRoles
      <4>2. FromSide(e) = Last(t) /\ DirectionTyped(t) /\ Arrivals(t) /\ Bounded(t)
            /\ Source(t) = Far(e)
        BY <2>0, <4>1, Topology, TypesNow DEF IInv, Direction
      <4>3. Len(got[e]) \in Nat /\ Len(q[Last(t)]) \in Nat \ {0}
            /\ Head(q[Last(t)]) = q[Last(t)][1]
        <5>1. /\ q[Last(t)] \in Seq(Chunks) /\ Len(q[Last(t)]) \in Nat
              /\ Len(got[e]) \in Nat /\ q[Last(t)] # <<>>
          BY <3>1, <4>1, <4>2 DEF DirectionTyped
        <5> QED BY ONLY <5>1
      <4>4. q[Last(t)][1].n = Len(got[e]) + 1 /\ q[Last(t)][1].n <= produced[Far(e)]
        BY <4>1, <4>2, <4>3 DEF Arrivals, Bounded, StreamBounded
      <4> QED BY <4>2, <4>3, <4>4
    <3>4. Len(S[Far(e)]) = produced[Far(e)] /\ S[Far(e)][n] = n
      <4>1. S[Far(e)] = Counting(produced[Far(e)])
        BY <3>2 DEF Counting
      <4>2. n \in 1 .. produced[Far(e)]
        BY <3>2, <3>3
      <4> HIDE DEF S, n
      <4> QED BY <3>2, <4>1, <4>2, CountingFacts
    <3>5. S' = S /\ U' = U /\ U[e]
      BY <3>1
    <3>6. Len(got[e]) < Len(S[Far(e)])
      BY <3>2, <3>3, <3>4
    <3>7. got' = [got EXCEPT ![e] = Append(@, S[Far(e)][n])]
      BY <3>1, <3>3, <3>4
    <3>8. EndToEnd!Receive(e)
      BY <3>5, <3>6, <3>7 DEF EndToEnd!Receive
    <3> QED BY <3>8 DEF EndToEnd!Next
  <2>5. ASSUME NEW e \in Endpoints, Vanish(e)
        PROVE  EndToEnd!Next
    <3>1. /\ alive[e] /\ produced' = produced /\ got' = got
          /\ alive' = [alive EXCEPT ![e] = FALSE]
      BY <2>5 DEF Vanish, Drop
    <3>2. U' = [U EXCEPT ![e] = FALSE]
      BY <2>0, <3>1 DEF TypeOK, Endpoints, Parties
    <3>3. EndToEnd!Fail(e)
      BY <3>1, <3>2 DEF EndToEnd!Fail
    <3> QED BY <3>3 DEF EndToEnd!Next
  <2>6. CASE Hidden
    BY <2>6, Invisible
  <2> HIDE DEF Hidden
  <2> QED BY <2>1, <2>2, <2>3, <2>4, <2>5, <2>6 DEF Next
<1> QED BY <1>1, <1>2, RelayInvariant, PTL DEF Spec, TunnelIsChannel, EndToEnd!Spec
=============================================================================

-------------------------------- MODULE Relay --------------------------------
(***************************************************************************)
(* One tunnel session after its handshake: the relay functions of          *)
(* secure-tunnel-client and secure-tunnel-server, each with two spawned    *)
(* copy tasks, between a local application and the destination service.    *)
(*                                                                         *)
(*   app <-> client (uplink, downlink) <=> server (inbound, outbound) <-> dest *)
(*                                                                         *)
(* A stream <<a, b>> is what party a has written and party b has not yet   *)
(* read on the TCP (or TLS) connection between them; q holds its contents  *)
(* and end says how it ends once they are read.  The application, the      *)
(* destination and the TCP connections are external.                       *)
(*                                                                         *)
(* One chunk stands for what one read returns; it is numbered by its       *)
(* position, so loss, duplication and reordering show.  On the tunnel a    *)
(* chunk is one record: whole, torn (its first bytes only) or altered.     *)
(***************************************************************************)
EXTENDS Naturals, Sequences, FiniteSets

CONSTANTS
  MaxRequest,  \* bound: chunks the application sends
  MaxResponse, \* bound: chunks the destination sends
  Capacity,    \* bound: chunks a stream buffers before a writer blocks
  OuterTls,    \* outer_tls.enabled
  Faults       \* what may happen besides relaying: records "alter"ed, the
               \* tunnel "reset" or "cut" by the network, an endpoint that
               \* "vanish"es, nonces "exhaust"ed, "idle" timeout, "shutdown",
               \* a copy task that "panic"s

ASSUME BoundsAssumption ==
  MaxRequest \in Nat /\ MaxResponse \in Nat /\ Capacity \in Nat \ {0}
ASSUME OptionsAssumption ==
  /\ OuterTls \in BOOLEAN
  /\ Faults \subseteq {"alter", "reset", "cut", "vanish", "exhaust", "idle",
                       "shutdown", "panic"}

Parties == {"app", "client", "server", "dest"}
Endpoints == {"app", "dest"}
Sides == {"client", "server"}
Streams == {<<"app", "client">>, <<"client", "server">>, <<"server", "dest">>,
            <<"dest", "server">>, <<"server", "client">>, <<"client", "app">>}
Tunnel == {<<"client", "server">>, <<"server", "client">>}
Reverse(st) == <<st[2], st[1]>>

\* The four copy tasks: where each runs, reads and writes.
Tasks == {"uplink", "inbound", "outbound", "downlink"}
Encrypting == {"uplink", "outbound"}
Side(t) == IF t \in {"uplink", "downlink"} THEN "client" ELSE "server"
In(t) == CASE t = "uplink"   -> <<"app", "client">>
           [] t = "inbound"  -> <<"client", "server">>
           [] t = "outbound" -> <<"dest", "server">>
           [] t = "downlink" -> <<"server", "client">>
Out(t) == CASE t = "uplink"   -> <<"client", "server">>
            [] t = "inbound"  -> <<"server", "dest">>
            [] t = "outbound" -> <<"server", "client">>
            [] t = "downlink" -> <<"client", "app">>
Sibling(t) == CHOOSE u \in Tasks \ {t} : Side(u) = Side(t)

VARIABLES
  q,        \* q[st]: chunks in flight on stream st
  end,      \* end[st]: "open", "fin" (shut down), "cut" (dropped), "rst"
  alive,    \* alive[p]: party p still holds its sockets
  pc,       \* pc[t]: where copy task t is, or how it finished
  held,     \* held[t]: the chunk task t has read and not yet written
  cipher,   \* cipher[s]: s's shared Option<TransportState> is Some
  relay,    \* relay[s]: "running", or the result relay returned
  produced, \* produced[e]: chunks endpoint e has sent
  written,  \* written[t]: records task t has written completely
  got       \* got[e]: chunks endpoint e has received

vars == <<q, end, alive, pc, held, cipher, relay, produced, written, got>>

Finished == {"ok", "io", "closed", "decrypt", "cancelled", "panicked"}
Errors == {"io", "closed", "decrypt"}

Init ==
  /\ q = [st \in Streams |-> <<>>]
  /\ end = [st \in Streams |-> "open"]
  /\ alive = [p \in Parties |-> TRUE]
  /\ pc = [t \in Tasks |-> "read"]
  /\ held = [t \in Tasks |-> 0]
  /\ cipher = [s \in Sides |-> TRUE]
  /\ relay = [s \in Sides |-> "running"]
  /\ produced = [e \in Endpoints |-> 0]
  /\ written = [t \in Encrypting |-> 0]
  /\ got = [e \in Endpoints |-> <<>>]

Chunk(n, state) == [n |-> n, state |-> state]
-----------------------------------------------------------------------------
(* Sockets (external: TCP and TLS as the relays observe them).             *)

\* Party p drops its sockets.  What it had not read is gone; if there was
\* such data, TCP resets the connection and may lose the last of what p
\* wrote, otherwise an unfinished stream just ends.
Drop(p, q1, e1) ==
  LET Reset == {st \in Streams : st[1] = p /\ q1[Reverse(st)] # <<>>}
  IN \E keep \in [Reset -> 0 .. Capacity] :
       /\ \A st \in Reset : keep[st] <= Len(q1[st])
       /\ alive' = [alive EXCEPT ![p] = FALSE]
       /\ q' = [st \in Streams |->
                  IF st[2] = p THEN <<>>
                  ELSE IF st \in Reset THEN SubSeq(q1[st], 1, keep[st])
                  ELSE q1[st]]
       /\ end' = [st \in Streams |->
                    IF st \in Reset THEN "rst"
                    ELSE IF st[1] = p /\ e1[st] = "open" THEN "cut"
                    ELSE e1[st]]

\* A reader sees the end of a stream when nothing is left to read.  A
\* dropped TLS connection ends without close_notify, which rustls reports
\* as an error; on plain TCP it looks like any other end of stream.
CleanEnd(st) ==
  \/ end[st] = "fin"
  \/ end[st] = "cut" /\ ~(OuterTls /\ st \in Tunnel)

-----------------------------------------------------------------------------
(* The copy tasks.                                                         *)

\* Mutant: a finished task keeps its halves, so the sockets stay open.
FinishKeepingHalves(t, r, q1, e1) ==
  /\ pc' = [pc EXCEPT ![t] = r]
  /\ held' = [held EXCEPT ![t] = 0]
  /\ q' = q1 /\ end' = e1 /\ UNCHANGED alive
\* A task's future ends and drops its halves of both sockets; the sockets
\* close with the second of the two tasks (tokio::io::split).
Finish(t, r, q1, e1) ==
  /\ pc' = [pc EXCEPT ![t] = r]
  /\ held' = [held EXCEPT ![t] = 0]
  /\ IF pc[Sibling(t)] \in Finished
     THEN Drop(Side(t), q1, e1)
     ELSE q' = q1 /\ end' = e1 /\ UNCHANGED alive

\* Mutant: the cipher is put back after a failure.
KeepCipher(t) == UNCHANGED cipher
\* A failed read_message or write_message leaves the shared option None.
CloseCipher(t) == cipher' = [cipher EXCEPT ![Side(t)] = FALSE]

\* Something complete is there to read.
Readable(st) == q[st] # <<>> /\ Head(q[st]).state # "torn"

\* copy_encrypt: a read that returns bytes, and encrypt_record on them.
EncryptRead(t) ==
  /\ t \in Encrypting
  /\ pc[t] = "read"
  /\ Readable(In(t))
  /\ \/ /\ cipher[Side(t)]
        /\ q' = [q EXCEPT ![In(t)] = Tail(@)]
        /\ held' = [held EXCEPT ![t] = Head(q[In(t)]).n]
        /\ pc' = [pc EXCEPT ![t] = "write"]
        /\ UNCHANGED <<end, alive>>
        /\ UNCHANGED cipher
     \/ /\ ~cipher[Side(t)] \/ "exhaust" \in Faults
        /\ CloseCipher(t)
        /\ Finish(t, "closed", [q EXCEPT ![In(t)] = Tail(@)], end)
  /\ UNCHANGED <<relay, produced, written, got>>

\* Mutant: a record is used without checking its tag.
VerifiesAnything(record) == TRUE
\* read_message succeeds on what the peer sealed (see TransportRecords).
Verifies(record) == record.state = "whole"

\* copy_decrypt: read_record_frame returns a record, and decrypt_record on it.
DecryptRead(t) ==
  /\ t \notin Encrypting
  /\ pc[t] = "read"
  /\ Readable(In(t))
  /\ LET record == Head(q[In(t)])
         rest == [q EXCEPT ![In(t)] = Tail(@)]
     IN    \/ /\ cipher[Side(t)] /\ Verifies(record)
              /\ q' = rest
              /\ held' = [held EXCEPT ![t] = record.n]
              /\ pc' = [pc EXCEPT ![t] = "write"]
              /\ UNCHANGED <<end, alive, cipher>>
           \/ /\ cipher[Side(t)] /\ ~Verifies(record)
              /\ CloseCipher(t)
              /\ Finish(t, "decrypt", rest, end)
           \/ /\ ~cipher[Side(t)]
              /\ Finish(t, "closed", rest, end)
              /\ UNCHANGED cipher
  /\ UNCHANGED <<relay, produced, written, got>>

\* Mutant: every end of the input counts as an orderly close.
AnyEndIsEof(st) == TRUE
\* read_record_frame and read: only an end at a record boundary is Ok(None)
\* or a zero count; a torn record, a reset or a missing close_notify is an
\* error.
EndIsEof(st) == q[st] = <<>> /\ CleanEnd(st)

\* The end of the input: copy tasks go on to shut their output down, or
\* fail on a reset, on a missing close_notify or on a torn record.
ReadEnd(t) ==
  /\ pc[t] = "read"
  /\ end[In(t)] # "open"
  /\ ~Readable(In(t))
  /\ \/ /\ EndIsEof(In(t))
        /\ pc' = [pc EXCEPT ![t] = "shut"]
        /\ UNCHANGED <<q, end, alive, held>>
     \/ /\ ~EndIsEof(In(t))
        /\ Finish(t, "io", q, end)
  /\ UNCHANGED <<cipher, relay, produced, written, got>>

HasRoom(st) == Len(q[st]) < Capacity

\* write_all and flush to a party that still reads, when there is room.  A
\* record can be on the tunnel in part before it is there as a whole.
Write(t) ==
  LET st == Out(t)
  IN /\ alive[st[2]] /\ end[st] = "open"
     /\ \/ /\ pc[t] = "write" /\ t \notin Encrypting
           /\ HasRoom(st)
           /\ q' = [q EXCEPT ![st] = Append(@, Chunk(held[t], "whole"))]
           /\ pc' = [pc EXCEPT ![t] = "read"]
           /\ held' = [held EXCEPT ![t] = 0]
           /\ UNCHANGED written
        \/ /\ pc[t] = "write" /\ t \in Encrypting
           /\ HasRoom(st)
           /\ q' = [q EXCEPT ![st] = Append(@, Chunk(held[t], "torn"))]
           /\ pc' = [pc EXCEPT ![t] = "part"]
           /\ UNCHANGED <<held, written>>
        \/ /\ pc[t] = "part"
           /\ q' = [q EXCEPT ![st][Len(q[st])].state = "whole"]
           /\ pc' = [pc EXCEPT ![t] = "read"]
           /\ held' = [held EXCEPT ![t] = 0]
           /\ written' = [written EXCEPT ![t] = @ + 1]
     /\ UNCHANGED <<end, alive, cipher, relay, produced, got>>

\* A write to a party that dropped its sockets, or on a reset connection:
\* the bytes vanish, the write or a later one fails, and the peer's reset
\* may overtake what it had sent.
WriteLost(t) ==
  LET st == Out(t)
      back == Reverse(st)
  IN /\ pc[t] \in {"write", "part", "shut"}
     /\ ~alive[st[2]] \/ end[st] \in {"rst", "cut"}
     /\ \/ /\ pc' = [pc EXCEPT ![t] = "read"]
           /\ pc[t] # "shut"
           /\ held' = [held EXCEPT ![t] = 0]
           /\ UNCHANGED <<q, end, alive>>
        \/ Finish(t, "io", q, end)
        \/ \E k \in 0 .. Len(q[back]) :
             Finish(t, "io", [q EXCEPT ![back] = SubSeq(@, 1, k)],
                             [end EXCEPT ![back] = "rst"])
     /\ UNCHANGED <<cipher, relay, produced, written, got>>

\* Mutant: the task returns without write.shutdown(), relying on the drop.
ReturnWithoutShutdown(t) ==
  /\ pc[t] = "shut"
  /\ Finish(t, "ok", q, end)
  /\ UNCHANGED <<cipher, relay, produced, written, got>>
\* write.shutdown() after a clean end of the input; the task returns Ok.
ShutdownWrite(t) ==
  /\ pc[t] = "shut"
  /\ Finish(t, "ok", q, [end EXCEPT ![Out(t)] = IF @ = "open" THEN "fin" ELSE @])
  /\ UNCHANGED <<cipher, relay, produced, written, got>>

\* A task unwinds over what it has read, maybe with the cipher's lock held:
\* the lock is then poisoned, and nobody uses the cipher again.
Panic(t) ==
  /\ "panic" \in Faults
  /\ pc[t] = "read" /\ Readable(In(t))
  /\ \/ UNCHANGED cipher
     \/ CloseCipher(t)
  /\ Finish(t, "panicked", [q EXCEPT ![In(t)] = Tail(@)], end)
  /\ UNCHANGED <<relay, produced, written, got>>

\* The effect of abort() after the relay has broken its loop; when a task
\* panicked, relay has returned by ? and the other task goes on by itself.
\* A task that is being polled goes on until it next waits, so its other
\* steps stay enabled.
Cancel(t) ==
  /\ relay[Side(t)] \notin {"running", "panicked"}
  /\ pc[t] \notin Finished
  /\ Finish(t, "cancelled", q, end)
  /\ UNCHANGED <<cipher, relay, produced, written, got>>

-----------------------------------------------------------------------------
(* The relay functions: the select! loop that waits for the two tasks.     *)

\* Mutants: the end of the request direction ends the relay as well; the
\* client waits for its local writer too.
EitherEndsRelay == Tasks
OnlyOutboundEndsRelay == {"outbound"}
\* Ok from uplink or inbound only sets uplink_complete or inbound_complete,
\* which disables that branch; Ok from downlink or outbound breaks the loop.
EndsRelay == {"downlink", "outbound"}

\* A finished task's branch: break with Ok or with the task's error, or
\* return because the task panicked.
TaskReturned(s) ==
  /\ relay[s] = "running"
  /\ \E t \in Tasks :
       /\ Side(t) = s
       /\ pc[t] \in Errors \cup {"panicked"} \/ (pc[t] = "ok" /\ t \in EndsRelay)
       /\ relay' = [relay EXCEPT ![s] = pc[t]]
  /\ UNCHANGED <<q, end, alive, pc, held, cipher, produced, written, got>>

\* The idle_timer branch.  Without a clock it may win at any moment.
IdleTimeout(s) ==
  /\ "idle" \in Faults
  /\ relay[s] = "running"
  /\ relay' = [relay EXCEPT ![s] = "idle"]
  /\ UNCHANGED <<q, end, alive, pc, held, cipher, produced, written, got>>

\* The shutdown.changed() branch.
ShutdownRequested(s) ==
  /\ "shutdown" \in Faults
  /\ relay[s] = "running"
  /\ relay' = [relay EXCEPT ![s] = "shutdown"]
  /\ UNCHANGED <<q, end, alive, pc, held, cipher, produced, written, got>>

-----------------------------------------------------------------------------
(* The environment: application, destination service and network.          *)

ToSide(e) == IF e = "app" THEN <<"app", "client">> ELSE <<"dest", "server">>
FromSide(e) == Reverse(ToSide(e))
Far(e) == IF e = "app" THEN "dest" ELSE "app"

Produce(e) ==
  LET st == ToSide(e)
  IN /\ alive[e] /\ alive[st[2]] /\ end[st] = "open"
     /\ produced[e] < IF e = "app" THEN MaxRequest ELSE MaxResponse
     /\ HasRoom(st)
     /\ q' = [q EXCEPT ![st] = Append(@, Chunk(produced[e] + 1, "whole"))]
     /\ produced' = [produced EXCEPT ![e] = @ + 1]
     /\ UNCHANGED <<end, alive, pc, held, cipher, relay, written, got>>

\* The endpoint shuts down its writing direction and goes on reading.
CloseWrite(e) ==
  /\ alive[e] /\ end[ToSide(e)] = "open"
  /\ end' = [end EXCEPT ![ToSide(e)] = "fin"]
  /\ UNCHANGED <<q, alive, pc, held, cipher, relay, produced, written, got>>

Consume(e) ==
  /\ alive[e] /\ q[FromSide(e)] # <<>>
  /\ got' = [got EXCEPT ![e] = Append(@, Head(q[FromSide(e)]).n)]
  /\ q' = [q EXCEPT ![FromSide(e)] = Tail(@)]
  /\ UNCHANGED <<end, alive, pc, held, cipher, relay, produced, written>>

\* The endpoint closes its socket or dies.
Vanish(e) ==
  /\ "vanish" \in Faults
  /\ alive[e]
  /\ Drop(e, q, end)
  /\ UNCHANGED <<pc, held, cipher, relay, produced, written, got>>

\* A record on the tunnel is altered in flight.
Alter(st) ==
  /\ "alter" \in Faults
  /\ \E i \in 1 .. Len(q[st]) :
       /\ q[st][i].state = "whole"
       /\ q' = [q EXCEPT ![st][i] = Chunk(0, "altered")]
  /\ UNCHANGED <<end, alive, pc, held, cipher, relay, produced, written, got>>

\* The tunnel connection is reset: both directions lose what is in flight
\* from some point on.
NetworkReset ==
  /\ "reset" \in Faults
  /\ \A st \in Tunnel : alive[st[1]] /\ end[st] # "rst"
  /\ \E keep \in [Tunnel -> 0 .. Capacity] :
       /\ \A st \in Tunnel : keep[st] <= Len(q[st])
       /\ q' = [st \in Streams |-> IF st \in Tunnel THEN SubSeq(q[st], 1, keep[st])
                                   ELSE q[st]]
  /\ end' = [st \in Streams |-> IF st \in Tunnel THEN "rst" ELSE end[st]]
  /\ UNCHANGED <<alive, pc, held, cipher, relay, produced, written, got>>

\* Someone on the path ends one direction early with a bare FIN, at any byte.
NetworkCut(st) ==
  /\ "cut" \in Faults
  /\ end[st] \in {"open", "fin"}
  /\ end' = [end EXCEPT ![st] = "cut"]
  /\ \E k \in 0 .. Len(q[st]) :
       \/ q' = [q EXCEPT ![st] = SubSeq(@, 1, k)]
       \/ k > 0 /\ q' = [q EXCEPT ![st] = Append(SubSeq(@, 1, k - 1),
                                                 Chunk(0, "torn"))]
  /\ UNCHANGED <<alive, pc, held, cipher, relay, produced, written, got>>

Task(t) == \/ EncryptRead(t) \/ DecryptRead(t) \/ ReadEnd(t) \/ Write(t)
           \/ WriteLost(t) \/ ShutdownWrite(t) \/ Cancel(t)

Next ==
  \/ \E t \in Tasks : Task(t) \/ Panic(t)
  \/ \E s \in Sides : TaskReturned(s) \/ IdleTimeout(s) \/ ShutdownRequested(s)
  \/ \E e \in Endpoints : Produce(e) \/ CloseWrite(e) \/ Consume(e) \/ Vanish(e)
  \/ \E st \in Tunnel : Alter(st) \/ NetworkCut(st)
  \/ NetworkReset

Spec == Init /\ [][Next]_vars

\* Tokio runs every task that can run and polls the select! loop; endpoints
\* read what arrives.  Nothing makes an endpoint send or close.
Fairness ==
  /\ \A t \in Tasks : WF_vars(Task(t))
  /\ \A s \in Sides : WF_vars(TaskReturned(s))
  /\ \A e \in Endpoints : WF_vars(Consume(e))
FairSpec == Spec /\ Fairness

-----------------------------------------------------------------------------
Ends == {"open", "fin", "cut", "rst"}
Numbers == 0 .. MaxRequest + MaxResponse
Chunks == [n : Numbers, state : {"whole", "torn", "altered"}]

TypeOK ==
  /\ q \in [Streams -> Seq(Chunks)]
  /\ \A st \in Streams : Len(q[st]) <= Capacity
  /\ end \in [Streams -> Ends]
  /\ alive \in [Parties -> BOOLEAN]
  /\ pc \in [Tasks -> {"read", "write", "part", "shut"} \cup Finished]
  /\ held \in [Tasks -> Numbers]
  /\ cipher \in [Sides -> BOOLEAN]
  /\ relay \in [Sides -> {"running", "ok", "idle", "shutdown", "panicked"} \cup Errors]
  /\ produced \in [Endpoints -> Numbers]
  /\ written \in [Encrypting -> Numbers]
  /\ got \in [Endpoints -> Seq(Numbers)]

\* What has reached endpoint e, read by it or not.
Arrived(e) == got[e] \o [i \in 1 .. Len(q[FromSide(e)]) |-> q[FromSide(e)][i].n]

\* The task that seals what goes to endpoint e.
SealedFor(e) == IF e = "app" THEN "outbound" ELSE "uplink"

\* Each endpoint receives a prefix of what the other one sent: copy tasks,
\* aborts, panics (after which the other task goes on alone), resets and
\* altered records may cut it short, but never skip, repeat, reorder or
\* change anything.
PrefixDelivered ==
  \A e \in Endpoints :
    /\ Len(Arrived(e)) <= produced[Far(e)]
    /\ \A i \in 1 .. Len(Arrived(e)) : Arrived(e)[i] = i

\* What the two relays are to their endpoints.
EndToEnd == INSTANCE RecordChannel
              WITH Peers <- Endpoints, Other <- Far, Payloads <- Numbers,
                   sent <- [e \in Endpoints |-> [i \in 1 .. produced[e] |-> i]],
                   received <- got, up <- [e \in Endpoints |-> alive[e]]

\* The relays, their tunnel and the network in between implement for the
\* application and the destination the channel that seal_record and
\* open_record implement for the relays: every step of every task is a send,
\* an in-order receipt, the end of an endpoint or invisible to both.
TunnelIsChannel == EndToEnd!Spec

\* The relay beside endpoint e has returned for an error of a task, a panic,
\* an idle timeout or a shutdown, or one of its tasks has failed and the relay
\* has yet to notice.
FailedBeside(e) ==
  LET s == FromSide(e)[1]
  IN \/ relay[s] \notin {"running", "ok"}
     \/ /\ relay[s] = "running"
        /\ \E t \in Tasks : Side(t) = s /\ pc[t] \in Errors \cup {"panicked"}

\* An endpoint that loses the rest of a stream: its socket was dropped, not
\* shut down by copy_decrypt, and either the relay beside it has failed or it
\* is a destination that had ended its own stream, after which the server
\* aborts the request.
KnownLoss(e) ==
  /\ end[FromSide(e)] = "cut"
  /\ FailedBeside(e) \/ (e = "dest" /\ end[ToSide(e)] # "open")

\* With outer TLS, an endpoint that sees an end of stream, by a shutdown or
\* by a dropped socket (which plain TCP does not tell apart), has been sent
\* all that the other endpoint sent before ending its own stream, or the loss
\* is known: no relay reports Ok over a stream it cut short, and an abort, a
\* timeout or a cut tunnel never reaches the endpoint as a shutdown.
EofIsComplete ==
  \A e \in Endpoints :
    alive[e] /\ CleanEnd(FromSide(e)) =>
      \/ /\ end[ToSide(Far(e))] # "open"
         /\ Len(Arrived(e)) = produced[Far(e)]
      \/ KnownLoss(e)

\* Without TLS a dropped peer looks like an orderly close of the tunnel, but
\* still every record the peer wrote completely is delivered before the
\* endpoint sees an end of stream, or the loss is known: an altered record,
\* an empty cipher or a panic beside it never passes for the end.
EofAfterEveryRecord ==
  \A e \in Endpoints :
    alive[e] /\ CleanEnd(FromSide(e)) =>
      Len(Arrived(e)) = written[SealedFor(e)] \/ KnownLoss(e)

\* Once a task has failed inside the shared cipher, the other direction of
\* that side seals or opens nothing more, even before the relay notices.
FailureStopsSibling ==
  [][\A t \in Tasks : pc[t] \in {"decrypt", "closed"} =>
       ~(pc[Sibling(t)] = "read" /\ pc'[Sibling(t)] = "write")]_vars

\* When a relay has returned other than by a panic, its tasks stop and both
\* its sockets are closed.  After a panic nothing is aborted, and the sockets
\* are the other task's as long as it runs.
SocketsReleased == \A s \in Sides : relay[s] \notin {"running", "panicked"} ~> ~alive[s]

\* The end of the server's relay, for any reason, ends the client's relay
\* without help from its idle timer.
ServerEndReachesClient == ~alive["server"] ~> relay["client"] # "running"

\* The end of the client's relay reaches the destination as an end of its
\* request stream.
ClientEndReachesDestination ==
  ~alive["client"] ~> end[<<"server", "dest">>] # "open"

\* A destination that answers after it has seen the end of the request and
\* then closes gets its whole response to the application, and both relays
\* return Ok, unless an idle timer or a shutdown ends one of them before.
ResponseCompletes ==
  [](/\ end[<<"server", "dest">>] = "fin" /\ q[<<"server", "dest">>] = <<>>
     /\ end[<<"dest", "server">>] = "open"
     /\ <>(end[<<"dest", "server">>] = "fin")
     /\ [](\A s \in Sides : relay[s] \notin {"idle", "shutdown"})
     => <>(/\ Len(got["app"]) = produced["dest"]
           /\ \A s \in Sides : relay[s] = "ok"))

-----------------------------------------------------------------------------
(* What comments and documents say and the code does not do.               *)

\* docs/protocol.md:88: "Version 1 performs a full bidirectional close when
\* either side reaches EOF; it does not forward half-closes."
FullCloseOnEof ==
  end[<<"app", "client">>] = "fin" ~> \A s \in Sides : relay[s] # "running"

\* docs/operations.md:144: decrypt failures are reported as such.  A relay
\* one of whose tasks failed to decrypt does not return another task error.
DecryptFailureReported ==
  \A s \in Sides :
    relay[s] \in {"io", "closed"} =>
      \A t \in Tasks : Side(t) = s => pc[t] # "decrypt"
=============================================================================

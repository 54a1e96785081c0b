-------------------------------- MODULE Serve --------------------------------
(***************************************************************************)
(* The serve function of either binary: the accept loop with its           *)
(* connection limit, the session tasks it spawns, the shutdown broadcast,  *)
(* the draining of the JoinSet, and the metrics.                           *)
(*                                                                         *)
(* A session is abstracted to the phases of handle_outer and run_noise     *)
(* (server) or handle_local, run_noise and complete_noise_handshake        *)
(* (client): what each phase waits for, which errors it can end with, and  *)
(* whether it also waits for shutdown.changed().  The relay phase is the   *)
(* subject of Relay.                                                       *)
(***************************************************************************)
EXTENDS Naturals, FiniteSets, CloseReason

CONSTANTS
  Conns,      \* connections that may arrive
  Limit,      \* limits.max_connections
  Roles,      \* the binaries considered: "server", "client" or both
  OuterTls,   \* outer_tls.enabled
  Faults      \* may contain "panic" (a session task panics) and
              \* "accept" (listener.accept returns an error)

ASSUME ConnsAssumption == IsFiniteSet(Conns)
ASSUME LimitAssumption == Limit \in Nat \ {0}
ASSUME OptionsAssumption ==
  /\ Roles \subseteq {"server", "client"}
  /\ OuterTls \in BOOLEAN
  /\ Faults \subseteq {"panic", "accept"}

VARIABLES
  role,       \* which binary this process runs, "server" or "client"
  loop,       \* "accepting", "draining" (after break), "exited", "failed"
  signalled,  \* the value in the shutdown watch channel
  permits,    \* permits left in the semaphore
  phase,      \* phase[c]: "absent", "rejected", a running phase,
              \* "finished" (finish_connection done), "ended", "panicked",
              \* "aborted"
  error,      \* error[c]: what c's session ended with ("none": Ok or not ended)
  handshaken, \* handshaken[c]: telemetry.handshake_succeeded
  sessions,   \* the JoinSet: session tasks not yet joined
  metrics     \* TunnelMetrics

-----------------------------------------------------------------------------
(* The phases of a session.                                                *)

NextPhase(ph) ==
  CASE ph = "start"       -> IF role = "client" THEN "remote"
                             ELSE IF OuterTls THEN "tls" ELSE "preface"
    [] ph = "remote"      -> IF OuterTls THEN "tls" ELSE "send"
    [] ph = "tls"         -> IF role = "client" THEN "send" ELSE "preface"
    [] ph = "preface"     -> "first"
    [] ph = "first"       -> "reply"
    [] ph = "reply"       -> "destination"
    [] ph = "send"        -> "answer"
    [] ph = "answer"      -> "relay"
    [] ph = "destination" -> "relay"

ServerPhases == {"start", "tls", "preface", "first", "reply", "destination", "relay"}
ClientPhases == {"start", "remote", "tls", "send", "answer", "relay"}
Running == ServerPhases \cup ClientPhases

\* The errors a phase can end with, besides the shutdown.
PhaseErrors(ph) ==
  CASE ph = "start"       -> {"io"}
    [] ph = "remote"      -> {"remote timeout", "io"}
    [] ph = "tls"         -> {"outer TLS timeout", "outer TLS rejected", "io"}
    [] ph = "preface"     -> {"key file", "preface timeout", "io", "InvalidPreface",
                              "UnsupportedVersion"}
    [] ph = "first"       -> {"handshake timeout", "io", "handshake rejected",
                              "UnauthorisedClient"}
    [] ph = "reply"       -> {"io"}
    [] ph = "send"        -> {"key file", "io"}
    [] ph = "answer"      -> {"handshake timeout", "io", "handshake rejected"}
    [] ph = "destination" -> {"destination timeout", "destination refused"}
    [] ph = "relay"       -> {"idle timeout", "record rejected", "ClosedSession", "io"}

\* Mutant: relay forgets its shutdown branch.
InterruptibleButRelay == {"remote", "tls", "preface", "first", "destination"}
\* Phases that select! on shutdown.changed() next to what they wait for.
\* The handshake writes and the client's wait for the reply do not.
Interruptible == {"remote", "tls", "preface", "first", "destination", "relay"}

\* The phase whose completion stores handshake_succeeded.
HandshakeEnds == IF role = "server" THEN "reply" ELSE "answer"

-----------------------------------------------------------------------------
Counters == {"active", "total", "success", "failure", "unauthorized", "decrypt",
             "destination"}

vars == <<role, loop, signalled, permits, phase, error, handshaken, sessions, metrics>>

Init ==
  /\ role \in Roles
  /\ loop = "accepting"
  /\ signalled = FALSE
  /\ permits = Limit
  /\ phase = [c \in Conns |-> "absent"]
  /\ error = [c \in Conns |-> "none"]
  /\ handshaken = [c \in Conns |-> FALSE]
  /\ sessions = {}
  /\ metrics = [m \in Counters |-> 0]

-----------------------------------------------------------------------------
(* The accept loop.                                                        *)

connection_opened ==
  metrics' = [metrics EXCEPT !["active"] = @ + 1, !["total"] = @ + 1]

\* Mutant: the limit is checked with available_permits, taking no permit.
AcceptWithoutPermit(c) ==
  /\ loop = "accepting"
  /\ phase[c] = "absent"
  /\ permits > 0
  /\ connection_opened
  /\ phase' = [phase EXCEPT ![c] = "start"]
  /\ sessions' = sessions \cup {c}
  /\ UNCHANGED <<role, loop, signalled, permits, error, handshaken>>
Accept(c) ==
  /\ loop = "accepting"
  /\ phase[c] = "absent"
  /\ permits > 0
  /\ permits' = permits - 1
  /\ connection_opened
  /\ phase' = [phase EXCEPT ![c] = "start"]
  /\ sessions' = sessions \cup {c}
  /\ UNCHANGED <<role, loop, signalled, error, handshaken>>

\* try_acquire_owned fails: the connection is dropped and the loop goes on.
Reject(c) ==
  /\ loop = "accepting"
  /\ phase[c] = "absent"
  /\ permits = 0
  /\ phase' = [phase EXCEPT ![c] = "rejected"]
  /\ UNCHANGED <<role, loop, signalled, permits, error, handshaken, sessions, metrics>>

\* accepted? returns from serve: the JoinSet is dropped, which aborts every
\* session without finish_connection.
AcceptFails ==
  /\ "accept" \in Faults
  /\ loop = "accepting"
  /\ loop' = "failed"
  /\ phase' = [c \in Conns |-> IF phase[c] \in Running THEN "aborted"
                               ELSE IF phase[c] = "finished" THEN "ended"
                               ELSE phase[c]]
  /\ permits' = Limit
  /\ sessions' = {}
  /\ UNCHANGED <<role, signalled, error, handshaken, metrics>>

\* SIGTERM or SIGINT: broadcast, leave the loop and drop the listener.
Signal ==
  /\ loop = "accepting"
  /\ signalled' = TRUE
  /\ loop' = "draining"
  /\ UNCHANGED <<role, permits, phase, error, handshaken, sessions, metrics>>

\* sessions.join_next() in the loop or after it.
JoinNext(c) ==
  /\ loop \in {"accepting", "draining"}
  /\ c \in sessions
  /\ phase[c] \in {"ended", "panicked"}
  /\ sessions' = sessions \ {c}
  /\ UNCHANGED <<role, loop, signalled, permits, phase, error, handshaken, metrics>>

\* Mutant: serve returns right after the broadcast.
ExitWithoutDraining ==
  /\ loop = "draining"
  /\ loop' = "exited"
  /\ UNCHANGED <<role, signalled, permits, phase, error, handshaken, sessions, metrics>>
\* join_next returned None: log_snapshot and return.
Exit ==
  /\ loop = "draining"
  /\ sessions = {}
  /\ loop' = "exited"
  /\ UNCHANGED <<role, signalled, permits, phase, error, handshaken, sessions, metrics>>

-----------------------------------------------------------------------------
(* A session task.                                                         *)

Bit(b) == IF b THEN 1 ELSE 0

\* Mutant: a session that ends before the handshake returns early.
connection_closed_early_return(c, reason) ==
  metrics' = IF handshaken[c]
             THEN [metrics EXCEPT !["active"] = @ - 1, !["success"] = @ + 1]
             ELSE metrics
\* Mutant: sessions closed by shutdown count as handshake failures.
connection_closed_any_failure(c, reason) ==
  metrics' = [metrics EXCEPT !["active"] = @ - 1, !["success"] = @ + Bit(handshaken[c]),
                             !["failure"] = @ + Bit(~handshaken[c])]
connection_closed(c, reason) ==
  metrics' = [metrics EXCEPT
    !["active"] = @ - 1,
    !["success"] = @ + Bit(handshaken[c]),
    !["failure"] = @ + Bit(~handshaken[c] /\ reason # "Shutdown"),
    !["unauthorized"] = @ + Bit(reason = "UnauthorizedClient"),
    !["decrypt"] = @ + Bit(reason = "DecryptFailed"),
    !["destination"] = @ + Bit(reason = "DestinationConnectFailed")]

\* The session's future returns e and the task calls finish_connection.
finish_connection(c, e) ==
  /\ error' = [error EXCEPT ![c] = e]
  /\ phase' = [phase EXCEPT ![c] = "finished"]
  /\ connection_closed(c, IF e = "none" THEN "PeerClosed" ELSE from_error(e))
  /\ UNCHANGED <<role, loop, signalled, permits, handshaken, sessions>>

\* What a phase waits for happens.
Advance(c) ==
  /\ phase[c] \in Running \ {"relay"}
  /\ phase[c] = "start" => ~signalled
  /\ phase' = [phase EXCEPT ![c] = NextPhase(phase[c])]
  /\ handshaken' = [handshaken EXCEPT ![c] = @ \/ phase[c] = HandshakeEnds]
  /\ UNCHANGED <<role, loop, signalled, permits, error, sessions, metrics>>

\* It fails or times out.
Fail(c) ==
  /\ phase[c] \in Running
  /\ phase[c] = "start" => ~signalled
  /\ \E e \in PhaseErrors(phase[c]) : finish_connection(c, e)

\* The relay returns Ok.
RelayEnds(c) ==
  /\ phase[c] = "relay"
  /\ finish_connection(c, "none")

\* *shutdown.borrow() at the start, shutdown.changed() later.
SeesShutdown(c) ==
  /\ signalled
  /\ phase[c] \in Interruptible \cup {"start"}
  /\ finish_connection(c, "shutdown requested")

\* Mutant: the permit is forgotten when a session panics.
PanicKeepsPermit(c) == UNCHANGED permits
ReleasePermit(c) == permits' = permits + 1

\* The task ends and drops _permit.
TaskEnds(c) ==
  /\ phase[c] = "finished"
  /\ phase' = [phase EXCEPT ![c] = "ended"]
  /\ ReleasePermit(c)
  /\ UNCHANGED <<role, loop, signalled, error, handshaken, sessions, metrics>>

\* A panic unwinds the task: the permit is dropped, finish_connection is
\* not called.
Panic(c) ==
  /\ "panic" \in Faults
  /\ phase[c] \in Running
  /\ phase' = [phase EXCEPT ![c] = "panicked"]
  /\ ReleasePermit(c)
  /\ UNCHANGED <<role, loop, signalled, error, handshaken, sessions, metrics>>

Session(c) == Advance(c) \/ Fail(c) \/ RelayEnds(c) \/ SeesShutdown(c) \/ TaskEnds(c)

Next ==
  \/ \E c \in Conns : Accept(c) \/ Reject(c) \/ JoinNext(c) \/ Session(c) \/ Panic(c)
  \/ AcceptFails \/ Signal \/ Exit

Spec == Init /\ [][Next]_vars

\* Every phase but relay ends by itself: the reads and connects have
\* timeouts, and the handshake writes fit the socket buffer of a new
\* connection.  A busy relay may go on for ever.
Progress(c) == phase[c] # "relay" /\ (Advance(c) \/ Fail(c))
Fairness ==
  /\ \A c \in Conns : /\ WF_vars(Progress(c))
                      /\ WF_vars(SeesShutdown(c))
                      /\ WF_vars(TaskEnds(c))
                      /\ WF_vars(JoinNext(c))
  /\ WF_vars(Exit)
FairSpec == Spec /\ Fairness

-----------------------------------------------------------------------------
Errors == {"none", "shutdown requested"} \cup UNION {PhaseErrors(ph) : ph \in Running}

TypeOK ==
  /\ role \in Roles
  /\ loop \in {"accepting", "draining", "exited", "failed"}
  /\ signalled \in BOOLEAN
  /\ permits \in 0 .. Limit
  /\ phase \in [Conns -> Running \cup {"absent", "rejected", "finished", "ended",
                                       "panicked", "aborted"}]
  /\ error \in [Conns -> Errors]
  /\ handshaken \in [Conns -> BOOLEAN]
  /\ sessions \subseteq Conns
  /\ metrics \in [Counters -> Nat]

Live == {c \in Conns : phase[c] \in Running}
Holding == {c \in Conns : phase[c] \in Running \cup {"finished"}}
Closed == {c \in Conns : phase[c] \in {"finished", "ended"}}
Succeeded == {c \in Closed : handshaken[c]}
Failed == {c \in Closed : ~handshaken[c] /\ error[c] # "shutdown requested"}
Lost == {c \in Conns : phase[c] \in {"panicked", "aborted"}}

\* No permit is lost or returned twice on any path out of a session: the
\* permits in the semaphore and the tasks that hold one add up to
\* max_connections, so at most that many sessions are served at a time.
PermitsBalance == permits + Cardinality(Holding) = Limit

\* active_connections is the number of sessions being served, plus those
\* that ended without finish_connection (a panic, or a failed accept).
ActiveGauge == metrics.active = Cardinality(Live) + Cardinality(Lost)

\* The handshake totals count each closed session once: a success if its
\* handshake completed, whatever ended it later; a failure if not, unless
\* it was only told to shut down.
HandshakeTotals ==
  /\ metrics.success = Cardinality(Succeeded)
  /\ metrics.failure = Cardinality(Failed)

\* When serve returns after a signal, every session has finished, its
\* permit is back and it has been joined, so log_snapshot saw final values.
ExitIsClean ==
  loop = "exited" => sessions = {} /\ Holding = {} /\ permits = Limit

\* After SIGTERM serve returns, however busy the sessions are and whatever
\* phase of the handshake they are in.
ShutdownTerminates == signalled ~> loop = "exited"

-----------------------------------------------------------------------------
(* What documents and tests say of the metrics and the code does not do.   *)

\* server main.rs:834: an unauthorised client is reported as such.  Every
\* session refused by the allow-list is in unauthorized_client_total.
UnauthorizedCounted ==
  metrics.unauthorized = Cardinality({c \in Closed : error[c] = "UnauthorisedClient"})

\* docs/operations.md:144: destination-connect failures are reported.
DestinationFailuresCounted ==
  metrics.destination =
    Cardinality({c \in Closed :
                   error[c] \in {"destination timeout", "destination refused"}})

\* One of the two counters, at least, tells what happened: weaker than what
\* the test and the document say, so a counterexample refutes them both.
FailureReasonsCounted == UnauthorizedCounted \/ DestinationFailuresCounted
=============================================================================

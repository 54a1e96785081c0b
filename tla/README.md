# secure-tunnel: TLA+ models and proofs

secure-tunnel carries TCP connections of a local application through one
authenticated, encrypted connection per session to a fixed destination next to
the server:

    application <-> client <== TCP or TLS, Noise records ==> server <-> destination

The project models the library (`crates/secure-tunnel`) and the two binaries
(`crates/secure-tunnel-client`, `crates/secure-tunnel-server`) from their source,
with the key files, configuration and rotation procedures they are operated with,
the installation script and the benchmark.  TLC checks the models on small
instances; TLAPS proves the safety properties for every value of the constants.

## The system

| Component | State | Operations | Works with | What is hard |
|---|---|---|---|---|
| Record transport (lib.rs `TransportSession`, `TransportSender`, `TransportReceiver`) | one `Option<TransportState>` behind a mutex, shared by both directions; a send and a receive nonce | `encrypt_record`, `decrypt_record` (`seal_record`, `open_record`) | called by the copy tasks | an error in one direction closes both; nonces at their limit; two size limits; replayed or reordered records |
| Handshake (lib.rs `ClientHandshake`, `ServerHandshake`, `ServerReply`) | an option each (taken by the one attempt), order flags, identities, allow-list | `first_message`, `finish`, `accept_preface`, `receive_client`, `message`, `into_session` | `complete_noise_handshake` (client), `run_noise` (server) | one chance per object; several server identities during a rotation; repeated and misdirected frames |
| Framing (lib.rs `encode_handshake_frame`, `decode_frame`, main.rs `read_record_frame`, `read_length_framed`) | the bytes of a frame read so far | encode, decode, read from a stream | handshake, relay | segmentation; lengths 0 and maximum; end of stream inside or between records |
| Relay (`relay`, `copy_encrypt`, `copy_decrypt` of both binaries) | two tasks per side, halves of two sockets, activity channel, idle timer | the copy loops, the `select!` loop, `abort` | transport, sockets, shutdown broadcast | half-close, aborts in mid-record, resets, an error or panic in one direction, races between branches, the deadline against a pending notice |
| Accept loop (`serve` of both binaries) | semaphore, `JoinSet`, watch channel, metrics | accept, reject, join, signal, drain | one session task per connection | limit reached, panics, signal between phases, accept errors |
| Metrics and close reasons | counters; none | `connection_opened`, `connection_closed`, `from_error` | `finish_connection` | classification by error text |
| Configuration and `doctor` | two TOML files, the configuration a process loaded | `from_toml`, `validate`, `doctor`, the start of `serve` and of a session | key files, TLS files, sockets | three places that check overlapping parts of one set-up; bounds |
| Key files | key directory, key files | `keygen` (`write_private_key`), `read_private_key` | identities are read again for each connection, the allow-list once | racing and interrupted keygens; rotation in parts |
| Outer TLS set-up | none | `tls_acceptor`, `tls_connector`, `tls_server_name` | `serve`, `doctor` | - |
| `release/install-atomic.sh` | active binary, `PATH.previous`, temporary files | stage, verify, link, rename | - | death between renames; a trap that does not exit |
| Benchmark (`bench`) | samples, report | `run`, `serve`, `stream_sample`, `write_new_json` | any endpoint | full buffers; rank rounding; partial evidence |
| Other scripts | - | verify, build, acceptance | - | - |

What makes each modelled component correct:

* transport: each end receives a prefix of what the other sent; no nonce is used
  twice; what one end seals the other accepts; an end that failed stays failed;
* handshake: a client shares keys only with the server it pinned and that
  answered it; a server session exists only for an allow-listed client; verdicts
  do not depend on the order of overlapping identities; one frame is judged once;
* relay: each endpoint receives a prefix; an end of stream that hides a loss comes
  only from a relay that fails, or to a destination that has itself finished; a
  finished relay releases its sockets, and its end reaches the other side; a
  response to a half-closed request arrives in full;
* idle timer: a silent session ends in bounded time, however its loop is woken;
  a session is never called idle while either direction forwards;
* accept loop: permits and metrics balance on every path out of a session; after
  a signal `serve` returns, and only when every session is finished;
* framing: whatever the segments, what was framed is read back, and an end inside
  a frame is never taken for an orderly close;
* key files: nothing is overwritten; a key whose public half was printed is on
  disk; half-written keys are refused; keys lie in a private directory only;
* configuration: what `doctor` passes, `serve` and a session accept;
* rotation: at no point of the two runbooks is the client cut off;
* installation: the active path changes only to a verified binary, in one step, and
  after an installation `PATH.previous` is the binary it displaced (short of a power
  loss, and for runs that do not overlap);
* benchmark: the stream test cannot stall by itself, and the latency gate means
  what it says, for every number of samples.

## Modules

| Module | Models | Extends or instantiates |
|---|---|---|
| `RecordChannel` | abstract specification: two ends, in-order prefix delivery, failure is final | - |
| `TransportRecords` | lib.rs 371-463 | `INSTANCE RecordChannel` (refinement mapping `sealed`, `opened`, `some`) |
| `TransportRecordsProofs` | proofs | `TransportRecords` |
| `Handshake`, `MCHandshake` | lib.rs 199-369 | `MCHandshake` adds symmetry |
| `HandshakeProofs` | proofs | `Handshake`, `Recursion` |
| `Relay` | client main.rs 325-530, server main.rs 249-450 | `INSTANCE RecordChannel` (refinement mapping `produced`, `got`, `alive`) |
| `RelayProofs` | proofs | `Relay` |
| `IdleTimer` | the deadline, the activity channel and the `select!` loop of both `relay` functions | - |
| `CloseReason` | `CloseReason::from_error` and the texts it searches | - |
| `Serve` | client main.rs 104-256 and 300-323, server main.rs 101-248, metrics | `CloseReason` |
| `ServeProofs` | proofs | `Serve` |
| `Framing` | lib.rs 140-197, readers of both binaries | - |
| `Recursion` | facts about recursive functions on the naturals, for proofs | - |
| `FramingProofs` | proofs | `Framing`, `Recursion` |
| `Files` | permission checks and `read_private_key` | - |
| `KeyFiles` | `keygen` of both binaries, `write_new_json` | `Files` |
| `Config` | both config.rs, `doctor`, the start of `serve` and of a session, TLS set-up | `Files` |
| `Startup` | changes to a working set-up | `Config` |
| `Deployment`, `MCDeployment` | one server and one client in operation, the rotation runbooks | composes `KeyFiles` and `Config` |
| `DeploymentProofs` | proofs, those about `KeyFiles` first | `Deployment` |
| `Bench` | `run` of the benchmark and its report | - |
| `EchoStream` | `stream_sample` and `serve_connection` | - |
| `InstallAtomic` | release/install-atomic.sh | - |
| `ComponentsProofs` | proofs | `IdleTimer`, `Startup`, `Bench`, `EchoStream`, `InstallAtomic` |
| `MCComponents` | an instance of seven components that share no state | `IdleTimer`, `Framing`, `KeyFiles`, `Startup`, `Bench`, `EchoStream`, `InstallAtomic` |

`PROJECT.json` maps every definition to its lines.  A definition that begins with
the comment "Mutant" is not part of the model: it is a wrong version of the
definition after it, used to show that a property notices the mistake.

### TransportRecords

An end is `some[p]` (the option), two nonces and the histories `sealed[p]` and
`opened[p]`.  A call is one action, because the mutex is held throughout.  Errors
before `locked.take()` leave the option alone (`ReturnEarly`), errors after it
leave it `None` (`ReturnClosed`).  The two size limits and the tag are the code's
numbers, three independent literals.  A plaintext is its length and a ciphertext is
key, nonce and plaintext: the AEAD accepts exactly a ciphertext of the opposite
key with the expected nonce.  The network keeps every ciphertext and delivers any
of them, forged ones and frames that do not decode, to either end.

### Handshake

Handshake objects are named, and so are their messages (an object draws its own
ephemeral key).  Noise IK is symbolic: a responder opens a first message that is
addressed to its static key, and an initiator accepts a reply to its own first
message.  Methods may be called in any order with any frame the network has seen;
calls that return an error before a `take` change nothing and so are stutters.
The loop of `receive_client` over the identities is a recursive function:
`TryIdentity` is one iteration on the loop's local variables, a `return` from it ends
the loop, and `TryIdentities` is the verdict after it.  The `expect` on the last error
is an outcome of its own, "panic", which `OverlapOutcome` excludes.  `tried`,
`outcome` and `judged` remember what an object did with the frame its chance was
spent on.

### Relay

A stream `<<a, b>>` is what `a` wrote and `b` has not read; `end` says how it ends.
The four copy tasks go through `read`, `write` (`part` in the middle of a record)
and `shut`, and finish with a result.  `TaskReturned`, `IdleTimeout` and
`ShutdownRequested` are the branches of `select!`; when the relay has returned,
`Cancel` is the abort taking effect, and until then a task may run on.  A side's
sockets close when its second task is finished (`Drop`); dropping a socket with
unread data resets the connection and may destroy what was sent.  With TLS an end
without `close_notify` is an error, without TLS it looks like an orderly end.  A
chunk is one read, numbered by position.  The constant `Faults` selects what may
go wrong in a run.  When the destination closes, the server's relay aborts the
request direction at once: records of the request that were received and not yet
written are dropped.  A copy task may panic while it works on what it has read,
perhaps with the cipher's lock held (the poisoned lock then refuses everyone).
The relay returns by `?` before its aborts, so the other task runs on.

An endpoint sees an end of stream in two ways that plain TCP does not tell apart:
the copy task shut its output down (`fin`), or the side dropped the socket (`cut`).
`EofIsComplete` and `EofAfterEveryRecord` are about both.  A shutdown is complete.
A dropped socket may lack something, after an idle timeout, an abort, a panic or a
record that did not decrypt, and the endpoint cannot see that.  `KnownLoss` says
what is true of it: the relay beside the endpoint has failed and does not return Ok,
or the endpoint is a destination that ended its own stream first, upon which the
server's relay returns Ok and aborts what is left of the request.

`TunnelIsChannel` says what all of this is to the two endpoints: `RecordChannel`
again, now with the application and the destination as its ends.  What an endpoint
has sent are the chunks it produced, what it has received those it has read, and it
is up while it lives.  So the same abstract specification describes the cipher
below the relays and the tunnel above them.

### IdleTimer

Time is discrete, and `Lag` bounds for how many ticks something that is ready is
not run: a task between its flush and its `try_send`, and a `select!` loop with a
ready branch.  `ages` remembers how long ago records were forwarded, as far back
as the properties look.  `try_send` into the full channel of capacity 1 drops the
notice; a branch other than the activity branch leaves the deadline alone.  If
several branches are ready any of them may run, so the deadline can win against a
pending notice: `TimeoutAfterSilence` says how recent the activity that loses can be
(two hand-overs).  In `Relay` the deadline may simply pass at any moment.

### Serve and CloseReason

A session goes through the phases of `handle_outer` and `run_noise` (server) or
`handle_local`, `run_noise` and `complete_noise_handshake` (client).  `PhaseErrors`
gives the errors of a phase, `Interruptible` the phases that also wait for the
shutdown broadcast.  `finish_connection` is one action with the metrics it
updates; dropping the permit is a later one.  A panic releases the permit and
skips `finish_connection`; an accept error drops the `JoinSet`.  `Phrases` gives
the phrases that the text of an error chain contains.

### Framing

A peer writes a stream: either a framed conversation (one handshake message and
records) or arbitrary bytes.  TCP delivers it in any segments; the readers ask for
what they need next (`Wanted`), take what is there, refuse a length as soon as the
header is complete, and tell an end of stream between records from one inside.
Header sizes, limits and the number of values of a byte are parameters.

### Files and KeyFiles

A file is its type (links are not followed), whether its mode is private, and its
text: a key, a certificate, or `partial`.  `keygen` is one action per system call:
`exists`, the look at the parent directory, `create_dir`, `set_permissions`, `open`
with `create_new`, two halves of `write_all`, `sync_all`, and the printed report.
Commands interleave, are killed at any point, or all end in a power loss that
removes, cuts or keeps each file that was not synced.  Assumed of the file system:
`sync_all` of a new file also makes its directory entry durable.  The code does not
ensure it (`write_private_key` never syncs the parent directory), so what is shown
of keys after a power loss holds on such file systems only.  An operator
removes what interrupted commands left and may repair the mode of the directory.
`write_new_json` of the benchmark is such a command too, without the directory
check.

### Config, Startup and Deployment

A configuration is a record with a field per setting; an optional setting is a set
with at most one element.  `ServerValidate` and `ClientValidate` are the conjunctions
of the checks of `validate`; `ServerDoctor`, `ServerServe`, `ServerSession` and their
client counterparts are those of the commands, over a machine (files, sockets,
trust roots).  `Startup` changes a working set-up `MaxEdits` times, with values on
both sides of every check.  `Deployment` has the configuration files, the
configurations that running processes loaded, and the key files; processes stop
and start at any time.  The runbooks of docs/key-management.md are external
actions, each waiting for what the runbook verifies before it.  The key files of
both hosts are kept in one directory, which no property distinguishes.

### Bench, EchoStream and InstallAtomic

`Bench` counts samples per duration, so that the percentile is a comparison of
counts.  Durations are whole microseconds, as `as_micros()` gives them: it rounds
down before the gate compares, so the times that were measured may exceed the budget
by less than a microsecond.  `EchoStream` moves chunks through three places of bounded capacity.
`InstallAtomic` has an action per command of the script; a failing command exits
through the trap, a signal runs the trap and lets the script go on, and a kill
leaves temporary files under names no later run uses.  The artifact directory may
change at any moment after `verify-artifact.sh` has accepted it, also between the
reading of the digest and the copy.  Two things are not modelled.  The script syncs
nothing, so a power loss after the rename may leave an empty or partial file at the
active path: what is shown is about kills, signals and failing commands.  And it has
no lock: two runs at once for one destination can take each other's binary for the
predecessor, so runs follow one another.

## Runs

| Run | Bounds | Shows |
|---|---|---|
| `transport` | a nonce limit of 2, lengths 0, 16384 and 16385 | prefix, nonces, limits, fail-closed, refinement of `RecordChannel` |
| `handshake` | 2 clients, 2 servers, 2 client keys (1 allowed), 2 server keys, up to 2 identities (3 refused) | agreement, authorisation, overlap, one chance |
| `relay_tls` | 1 chunk each way, buffers of 1, altered records, resets, cuts and idle timeouts, TLS | an end of stream is complete, or the loss is known; a cipher failure stops both directions |
| `relay_plain` | 1 and 2 chunks, vanishing endpoints, altered records, nonce exhaustion and panics, no TLS | prefix delivery; every complete record precedes the end, or the loss is known; refinement of `RecordChannel` end to end |
| `relay_liveness` | 1 chunk each way, shutdown of either side at any moment, no TLS, no panics | a half-closed request gets its whole response; sockets released, ends propagate both ways |
| `serve` | both binaries, 3 connections, 2 permits, panics and accept errors, no TLS | permits, gauge, totals, exit; `serve` returns after a signal |
| `components` | see below | the seven components of `MCComponents` |
| `deployment` | 3 old keys, 2 attempts at the new server key | the rotations never cut the client off |

Why the bounds are enough: the transport needs a record at and one beyond the size
limit, and a nonce limit that is reached.  Two objects on each side are
enough to confuse two sessions, and two identities to have the matching one second
or twice.
In Relay the interesting cases are one chunk in each of the places a chunk can be
(socket buffer, task, record in part, tunnel) when something ends; buffers of one
chunk make writers block.  Three connections and two permits give a full
semaphore, a rejected connection and a permit that is used again.  The phase of
the outer TLS handshake differs from the others only in its errors; the proofs
about `Serve` include it, the run does not.

In `components` a behaviour is one of a single component, chosen by `subject`, and
the variables of the others do not change.  Its bounds:

* idle timer: `Idle` 4 and `Lag` 1, so that an idle period is longer than three
  hand-overs;
* framing: headers of two binary digits, payloads of up to 2, every stream of up
  to 7 bytes and every conversation of up to two records (`MaxRecords`, with payloads
  of one byte value), so that lengths below, at and above the maximum occur, and
  frames end at any byte;
* key files: two keygens for one key and two benchmark runs for one report, with
  any number of kills and power losses;
* start-up: every pair of changes (`MaxEdits` 2): one that breaks a set-up and one
  that might hide it.  Eight and nine identities are single changes;
* benchmark: 1, 20 and 21 samples (the rank is exact at 20 and rounded at the
  others), two durations, streams at and below the 90 % gate and of no length;
* echo stream: 5 chunks through places for one;
* installation: three runs over two releases, from an empty, a damaged and a good
  destination.

What the small instances cannot show of the safety properties is proved.

Deadlock checking is off in every run but `transport` and `deployment`, because the
system may stop: endpoints need not send, callers need not call, and a process
that has exited does nothing.  `relay_liveness` and `serve` check what must happen;
`NeverStalls` is the absence of deadlock of the echo stream.

### Disagreements between documents and code

Four runs are expected to fail; `PROJECT.json` quotes the sentences.

* `relay_half_close`: `docs/protocol.md` announces a full close at end of stream
  and no forwarding of half-closes; the relays forward half-closes and wait for
  the response.
* `relay_decrypt_reason`: when a record does not decrypt, the other direction's
  `ClosedSession` error can be the one that is reported, and its text is
  classified as a handshake failure.
* `serve_close_reasons`: the error of a client outside the allow-list does not
  contain the phrase that `from_error` looks for, and a refused destination
  connection carries no context and is classified as a transport error.  The run
  shows a server on which both have happened and neither was counted.
* `revocation`: `docs/key-management.md` says that removing a key from the allow-list
  prevents future sessions; the running server keeps the list it loaded and has
  no reload, so new sessions are admitted until it restarts.

### Fairness

`Relay`: weak fairness of each copy task (tokio polls every ready task), of the
`select!` loop's task branches, and of endpoints reading what has arrived.
Nothing is assumed of endpoints sending or closing, of timers or of faults.
`Serve`: weak fairness of the end of every phase but `relay` (connects and reads
have timeouts, and the handshake writes are at most 4098 bytes into an empty
socket buffer), of seeing the broadcast, of a finished task ending, and of the
joining loop.  A relay need never end by itself.  `IdleTimer` needs no fairness:
that a silent session ends is a bound on time, and time passes only while nothing
that is ready has waited for `Lag` ticks.

## Proofs

All proofs follow the same plan: an inductive invariant (`IInv`, `FrameInv`,
`PeerInv`, `KeyInv`, `IdleInv`, `BenchInv`, `InstallInv`, `TomlOK`, `EchoInv`,
`DeployInv`), `Init => IInv`, one lemma or step per action for `IInv /\ [Next]_vars
=> IInv'`, and theorems that take a conjunct or a consequence of `IInv`.

* `TransportRecordsProofs`: `TypeCorrect`, `PrefixDelivery`, `NonceUniqueness`,
  `SizeLimitsAgree`, `FailsClosed`, `Refinement`.  Prefix delivery is not inductive:
  it needs that nonces count the histories (`NoncesCountHistory`), that a
  ciphertext on the wire is the plaintext its sender sealed under that nonce
  (`WireMatchesHistory`), and that a terminal result means a closed option.
  Assumed: the nonce limit and the lengths are natural numbers.
* `HandshakeProofs`: `TypeCorrect`, `ClientAgreement`, `SessionAuthorisation`,
  `OverlapVerdict`, `SingleChance`. Agreement needs that a frame on the wire was
  sent by an object that exists, so that its keys no longer change (`WireIsSent`),
  and that each object's history matches its options (`ServerHistory`,
  `ClientHistory`). `OverlapVerdict` is about the loop over the identities, for
  sequences of any length: its recursion equations (`LoopRuns`, `LoopStep`, from
  `Recursion`), and by induction over the iterations what the local variables say of
  the identities tried so far (`LoopMeans`). That `expect` never fails needs that an
  object has at least one identity. Assumed: the allow-list is a set of client keys,
  the identity limit is positive, `NoServer` is not a server.
* `ServeProofs`: `TypeCorrect`, `PermitsAccounted`, `GaugeAccounted`, `TotalsAccounted`,
  `CleanExit`.
  The counters are tied to the sets of sessions by cardinality; a clean exit needs
  that every session that holds a permit is in the `JoinSet` (`HoldersJoinable`).
  Assumed: finitely many connections and a positive limit.
* `FramingProofs`: `FramesCover`, `SentReadBack`. The codec and `FlattenSeq` are
  recursive functions, so what they compute is proved by induction over a set of
  naturals (`SetInduction` of `Recursion`, from the well-foundedness of `<`): the
  recursion equations (`NatRecursion`, `BoundedRecursion`, there too), that a length
  survives `to_be_bytes` and `from_be_bytes` if the header can hold it
  (`LengthsSurvive`), and that flattening adds one frame after the other
  (`FlattenAppend`, `FlattenPrefix`). `FramesCover` is inductive with the types and
  the positions in the stream (`FrameInv`). `SentReadBack` needs the reader's place
  in the conversation: the frames it has returned are the first ones on the wire,
  and the bytes in its hands begin the next (`PeerInv`). Assumed: a maximum fits its
  header, headers are not empty, and payloads are bytes.
* `RelayProofs`: `RelayTypeCorrect`, `RelayPrefix`, `EofComplete`,
  `EofAfterRecords`, `FailuresStopSiblings`, `TunnelRefinesChannel`. A direction is
  a pipeline: source, stream, encrypting task `t`, tunnel, its opener, stream, sink.
  That the sink has a prefix is not inductive; the invariant follows the chunks
  along the pipeline. What can reach the sink continues what it has (`Arrivals`);
  while the opener forwards, it and the tunnel continue that, up to what `t` has
  written (`Opening`); while `t` forwards, its chunk and its input continue that, up
  to what the source has sent (`Sealing`). Each part speaks only while the task
  before it forwards (`Forwards`), because an abort, a panic, an altered record or a
  reset breaks the chain there, and nothing is passed on afterwards. An end of
  stream is passed on only by a task that has seen everything (`Endings`), which
  gives the first half of `EofComplete` and `EofAfterRecords`. The other half, a
  dropped socket, has an invariant of its own (`LossInv`): the task that writes to
  it did not return Ok, an aborted task belongs to a relay that has returned, and a
  relay returns Ok only for a task that has met the end of its input; so the loss is
  known (`DroppedSocket`). An action either moves one direction on (a lemma for each
  place of the pipeline) or makes it worse: tasks end, parties die, streams fade
  (`WorseDirection`). `CipherClosed` gives `FailuresStopSiblings`. The refinement
  takes the actions one by one: producing is a send, an endpoint's read is the
  receipt of the next chunk (by the prefix, before and after the step), a vanishing
  endpoint is a failure, and everything else is invisible. Assumed: a buffer holds
  at least one chunk and the faults are among those modelled; `EofComplete` is for
  outer TLS, `EofAfterRecords` for outer TLS or a path on which no connection is
  cut, as the runs are. Without TLS a cut looks like an orderly end, which is what
  the code accepts.
* `ComponentsProofs`: `InstallRollback` and `InstallAtomicReplace` need that what is
  staged, from its verification on, is the release whose digest was read, or was
  removed (`StagedOK`), and that from the link to the rename both names hold one
  binary (`PreviousOK`). `ServerDoctorIsRight` needs that the additional identities
  are a sequence, so that the number `validate` bounds is the number a session is
  given; `ClientDoctorIsRight` follows from what the three commands check, whatever
  the set-up. `IdleTypeCorrect`, `SilenceEnds` and `TimeoutsAreSilent` are about the
  idle timer. That a timeout is silent needs that everything forwarded since the
  deadline was set is still being announced, by a task about to notify or by a
  notice in the channel (`NothingForgotten`); that silence ends needs that the
  deadline was set shortly after something was forwarded (`DeadlineRecent`, from
  `NotifiesRecent` and `NoticeRecent`) and is served in time (`DeadlineServed`).
  `LatencyGateIsExact` needs that a path that was measured has as many samples as
  were asked for (`BenchInv`), and that the sample at the rank `percentile` computes
  is the least duration that 95 % of the samples do not exceed (`PercentileMeans`,
  by the cardinality of the set of samples). `EchoNeverWaitsForItself` is
  `NeverStalls` with the guards of the tasks in place of `ENABLED`. Assumed: a
  transfer, a capacity and an idle period that are not zero, and finitely many
  durations.
* `DeploymentProofs`, about the key files: `KeyTypeCorrect`, `ReportsStored`,
  `PrivateDirectory`, `WholeKeys`, `NoOverwriting`. They need that a file holds its
  creator's text or part of it (`OwnersMatch`), that a command that has opened its
  file owns it (`WritersOwn`), the order of write, sync and report
  (`StoredInOrder`), and that a keygen about to create a key has seen, or made, a
  private directory (`PrivateParent`). Assumed: each command has a target, earlier
  commands have distinct ones, and no command is named like a text that is not a
  key.
* `DeploymentProofs`: `RotationIsSafe`.  The server's identities and its allow-list go
  through three phases each (`Forms`).  What runs may lag behind its file and is
  never ahead of it (`FilesAhead`); the server takes up what the client will use
  before the client does, and gives up what it used after the client has left it
  (`InStep`); keys in use are on disk (`KeysThere`, with `KeyInv` from the key files, and
  `OwnTargets`: a file is owned by a command that was told to create it).  Assumed: the
  three old keys are different commands, the new path is none of theirs, and no
  path is blank.

Only model-checked: the liveness properties (`ResponseCompletes`, `SocketsReleased`,
`ServerEndReachesClient`, `ClientEndReachesDestination`, `ShutdownTerminates`), which the
proof system does not handle, and `NeverStalls` as it is stated, with `ENABLED`.

## Not modelled

Byte counts and durations in the metrics, `error_stage` and log lines (no decision
reads them); TOML and certificate parsing; `rss_kib` and the wording of the
benchmark's report; the scripts that only run tools and compare their output; the
acceptance script, which drives an external service.  The `lib.rs` of the two
binaries only re-export their configuration.  Noise, TLS and TCP are modelled only
as far as the code can observe them.

## What could follow

`Serve` and `Relay` are not composed: in `Serve` a relay is one phase of a session.  A
composition would show which copy tasks outlive the permit of their session after
a panic or an early return, which `Relay` shows for a single session.

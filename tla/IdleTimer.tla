------------------------------ MODULE IdleTimer ------------------------------
(***************************************************************************)
(* The idle timer of relay in either binary: the two copy tasks that       *)
(* report activity through an mpsc channel of capacity 1, and the select!  *)
(* loop in which a pending notice, the deadline, a finished task and the   *)
(* shutdown broadcast compete.                                             *)
(*                                                                         *)
(* Time is discrete.  A thread may be slow: something that is ready to run *)
(* has run before Lag ticks have passed.  With Lag = 0 the runtime reacts  *)
(* at once.                                                                *)
(***************************************************************************)
EXTENDS Naturals

CONSTANTS
  Idle,  \* timeouts.idle_seconds
  Lag    \* bound: ticks for which a ready task is not polled

ASSUME IdleAssumption == Idle \in Nat \ {0}
ASSUME LagAssumption == Lag \in Nat

\* The request direction (uplink, inbound) and the response direction
\* (downlink, outbound).
Tasks == {"request", "response"}

VARIABLES
  ages,   \* how long ago records were forwarded (and the session started)
  copy,   \* copy[t]: "copying", "notify" (record flushed, try_send not yet
          \* called), "ok", "error"; "joined" once its branch has run
  wait,   \* wait[t]: ticks for which task t has been about to notify
  notice, \* the channel holds a notice
  since,  \* ticks since the deadline was last set to now + Idle
  ready,  \* ticks for which select! has had something to do
  relay   \* "running", or how relay returned

idlevars == <<ages, copy, wait, notice, since, ready, relay>>

\* What the properties look back on; older records are forgotten.
Horizon == Idle + 3 * Lag

IdleInit ==
  /\ ages = {0}
  /\ copy = [t \in Tasks |-> "copying"]
  /\ wait = [t \in Tasks |-> 0]
  /\ notice = FALSE
  /\ since = 0
  /\ ready = 0
  /\ relay = "running"

-----------------------------------------------------------------------------
(* The copy tasks.                                                         *)

\* A record has been written and flushed.
Forward(t) ==
  /\ copy[t] = "copying"
  /\ relay = "running"
  /\ ages' = ages \cup {0}
  /\ copy' = [copy EXCEPT ![t] = "notify"]
  /\ wait' = [wait EXCEPT ![t] = 0]
  /\ UNCHANGED <<notice, since, ready, relay>>

\* Mutant: only the request direction reports activity.
NoticeFromRequest(t) == notice \/ t = "request"
\* try_send: a full channel already holds a notice, and the new one is dropped.
NoticeAfter(t) == TRUE

Notify(t) ==
  /\ copy[t] = "notify"
  /\ copy' = [copy EXCEPT ![t] = "copying"]
  /\ notice' = NoticeAfter(t)
  /\ UNCHANGED <<ages, wait, since, ready, relay>>

\* The input ends or an operation fails.
TaskEnds(t) ==
  /\ copy[t] = "copying"
  /\ \E result \in {"ok", "error"} : copy' = [copy EXCEPT ![t] = result]
  /\ UNCHANGED <<ages, wait, notice, since, ready, relay>>

-----------------------------------------------------------------------------
(* The select! loop: any branch that is ready may be the one that runs.    *)

\* Mutant: the deadline is compared strictly.
ExpiresLate == since > Idle
Expired == since >= Idle

\* A branch of select! other than the shutdown is ready.
SelectReady ==
  \/ notice \/ Expired
  \/ copy["request"] = "ok" \/ copy["response"] = "ok"
  \/ \E t \in Tasks : copy[t] = "error"

\* A branch has run and the loop selects again at once: what else is ready
\* has been waiting for as long as before.
Served == ready' = IF SelectReady' THEN ready ELSE 0

\* Mutant: the sleep is built anew in every iteration of the loop.
RestartedSleep == 0
\* An iteration that takes another branch leaves idle_timer as it is.
KeptSleep == since

\* The request direction is done: its branch is disabled, the loop goes on.
RequestDone ==
  /\ relay = "running"
  /\ copy["request"] = "ok"
  /\ copy' = [copy EXCEPT !["request"] = "joined"]
  /\ since' = KeptSleep
  /\ UNCHANGED <<ages, wait, notice, relay>>
  /\ Served

\* Every other result of a task breaks the loop.
TaskBreaks ==
  /\ relay = "running"
  /\ \/ copy["response"] = "ok" /\ relay' = "ok"
     \/ \E t \in Tasks : copy[t] = "error" /\ relay' = "error"
  /\ UNCHANGED <<ages, copy, wait, notice, since, ready>>

\* activity_rx.recv() returns a notice: the deadline moves to now + Idle.
\* (None, once both tasks have dropped their senders, changes nothing.)
Activity ==
  /\ relay = "running"
  /\ notice
  /\ notice' = FALSE
  /\ since' = 0
  /\ UNCHANGED <<ages, copy, wait, relay>>
  /\ Served

IdleTimeout ==
  /\ relay = "running"
  /\ Expired
  /\ relay' = "idle"
  /\ UNCHANGED <<ages, copy, wait, notice, since, ready>>

Shutdown ==
  /\ relay = "running"
  /\ relay' = "shutdown"
  /\ UNCHANGED <<ages, copy, wait, notice, since, ready>>

-----------------------------------------------------------------------------
\* Time passes while nothing that is ready has waited for Lag ticks.
Tick ==
  /\ relay = "running"
  /\ \A t \in Tasks : copy[t] = "notify" => wait[t] < Lag
  /\ SelectReady => ready < Lag
  /\ ages' = {a + 1 : a \in {b \in ages : b < Horizon}}
  /\ wait' = [t \in Tasks |-> IF copy[t] = "notify" THEN wait[t] + 1 ELSE 0]
  /\ since' = since + 1
  /\ ready' = IF SelectReady THEN ready + 1 ELSE 0
  /\ UNCHANGED <<copy, notice, relay>>

IdleNext ==
  \/ \E t \in Tasks : Forward(t) \/ Notify(t) \/ TaskEnds(t)
  \/ RequestDone \/ TaskBreaks \/ Activity \/ IdleTimeout \/ Shutdown
  \/ Tick

IdleSpec == IdleInit /\ [][IdleNext]_idlevars

-----------------------------------------------------------------------------
IdleTypeOK ==
  /\ ages \in SUBSET (0 .. Horizon)
  /\ copy \in [Tasks -> {"copying", "notify", "ok", "error", "joined"}]
  /\ wait \in [Tasks -> 0 .. Lag]
  /\ notice \in BOOLEAN
  /\ since \in 0 .. Idle + Lag
  /\ ready \in 0 .. Lag
  /\ relay \in {"running", "ok", "error", "idle", "shutdown"}

\* A relay over which nothing has been forwarded for the idle period and
\* the slowness of three hand-overs (the task's notice, the reset, the
\* expiry) has returned: half-closed and one-way sessions do not outlive it.
SilentSessionEnds == relay = "running" => ages # {}

\* relay returns "idle timeout" only over a session that forwarded nothing
\* in either direction from Idle ticks ago on, except in the last moments:
\* a record whose notice is still on its way, or loses the race in select!.
TimeoutAfterSilence ==
  relay = "idle" => \A a \in ages : a <= 2 * Lag \/ a >= Idle
=============================================================================

----------------------------- MODULE ServeProofs -----------------------------
(***************************************************************************)
(* The accounting of permits and metrics, for every finite set of          *)
(* connections and every connection limit.                                 *)
(***************************************************************************)
EXTENDS Serve, FiniteSetTheorems, TLAPS

(***************************************************************************)
(* The counters alone are not inductive: a permit comes back because the   *)
(* session held one, which the sets of sessions say; and an empty JoinSet  *)
(* means that all have finished only because every session that holds a    *)
(* permit is in it.                                                        *)
(***************************************************************************)
HoldersJoinable == Holding \subseteq sessions
ExitedIsEmpty == loop = "exited" => sessions = {}

IInv ==
  /\ TypeOK
  /\ PermitsBalance
  /\ ActiveGauge
  /\ HandshakeTotals
  /\ HoldersJoinable
  /\ ExitedIsEmpty

USE ConnsAssumption, LimitAssumption, OptionsAssumption

\* The sets of sessions are finite and their sizes are numbers.
LEMMA FiniteSessions ==
  ASSUME NEW S \in SUBSET Conns
  PROVE  IsFiniteSet(S) /\ Cardinality(S) \in Nat
BY FS_Subset, FS_CardinalityType

LEMMA AddSession ==
  ASSUME NEW S \in SUBSET Conns, NEW c \in Conns, c \notin S
  PROVE  Cardinality(S \cup {c}) = Cardinality(S) + 1
BY FiniteSessions, FS_AddElement

LEMMA RemoveSession ==
  ASSUME NEW S \in SUBSET Conns, NEW c \in S
  PROVE  Cardinality(S \ {c}) = Cardinality(S) - 1 /\ Cardinality(S) > 0
<1>1. Cardinality(S \ {c}) = Cardinality(S) - 1
  BY FiniteSessions, FS_RemoveElement
<1>2. Cardinality(S \ {c}) \in Nat /\ Cardinality(S) \in Nat
  BY FiniteSessions
<1> QED BY <1>1, <1>2

LEMMA SessionSets ==
  /\ Live \subseteq Conns /\ Holding \subseteq Conns /\ Closed \subseteq Conns
  /\ Lost \subseteq Conns /\ Succeeded \subseteq Conns /\ Failed \subseteq Conns
BY DEF Live, Holding, Closed, Lost, Succeeded, Failed

\* Only the shutdown error is classified as Shutdown by from_error.
LEMMA ShutdownClassified ==
  ASSUME NEW e \in Errors \ {"none"}
  PROVE  from_error(e) = "Shutdown" <=> e = "shutdown requested"
<1>1. "shutdown requested" \in Phrases(e) <=> e = "shutdown requested"
  BY DEF Phrases, Errors, PhaseErrors, Running, ServerPhases, ClientPhases
<1> QED BY <1>1 DEF from_error

-----------------------------------------------------------------------------
LEMMA InitIInv == Init => IInv
<1> SUFFICES ASSUME Init PROVE IInv
  OBVIOUS
<1>1. Live = {} /\ Holding = {} /\ Closed = {} /\ Lost = {}
  BY DEF Init, Live, Holding, Closed, Lost, Running, ServerPhases, ClientPhases
<1>2. Succeeded = {} /\ Failed = {}
  BY <1>1 DEF Succeeded, Failed
<1>3. TypeOK
  <2>1. metrics \in [Counters -> Nat]
    BY DEF Init, Counters
  <2>2. "none" \in Errors
    BY DEF Errors
  <2>3. /\ phase \in [Conns -> Running \cup {"absent", "rejected", "finished", "ended",
                                          "panicked", "aborted"}]
        /\ error \in [Conns -> Errors]
    BY <2>2 DEF Init
  <2>4. handshaken \in [Conns -> BOOLEAN] /\ signalled \in BOOLEAN
    BY DEF Init
  <2>5. /\ permits \in 0 .. Limit /\ sessions \subseteq Conns /\ loop = "accepting"
        /\ role \in Roles
    BY DEF Init
  <2> QED BY <2>1, <2>3, <2>4, <2>5 DEF TypeOK
<1>4. PermitsBalance /\ ActiveGauge /\ HandshakeTotals
  BY <1>1, <1>2, FS_EmptySet
     DEF Init, Counters, PermitsBalance, ActiveGauge, HandshakeTotals
<1>5. HoldersJoinable /\ ExitedIsEmpty
  BY <1>1 DEF Init, HoldersJoinable, ExitedIsEmpty
<1> QED BY <1>3, <1>4, <1>5 DEF IInv

\* A step that leaves every set of sessions and every counter alone.
LEMMA QuietStep ==
  ASSUME IInv, TypeOK', UNCHANGED <<permits, metrics>>,
         Live' = Live, Holding' = Holding, Lost' = Lost,
         Succeeded' = Succeeded, Failed' = Failed
  PROVE  PermitsBalance' /\ ActiveGauge' /\ HandshakeTotals'
BY DEF IInv, PermitsBalance, ActiveGauge, HandshakeTotals

LEMMA AcceptStep ==
  ASSUME IInv, NEW c \in Conns, Accept(c)
  PROVE  IInv'
<1>1. TypeOK'
  <2>1. metrics' \in [Counters -> Nat]
    <3>1. metrics \in [Counters -> Nat]
          /\ metrics' = [metrics EXCEPT !["active"] = @ + 1, !["total"] = @ + 1]
      BY DEF IInv, TypeOK, Accept, connection_opened
    <3> QED BY <3>1 DEF Counters
  <2> QED BY <2>1 DEF IInv, TypeOK, Accept, Running, ServerPhases
<1>2. /\ Live' = Live \cup {c} /\ Holding' = Holding \cup {c}
      /\ c \notin Live /\ c \notin Holding
      /\ Lost' = Lost /\ Closed' = Closed
  BY DEF IInv, TypeOK, Accept, Live, Holding, Lost, Closed, Running, ServerPhases,
         ClientPhases
<1>3. Succeeded' = Succeeded /\ Failed' = Failed
  BY <1>2 DEF Accept, Succeeded, Failed
<1>4. PermitsBalance'
  BY <1>2, AddSession, SessionSets, FiniteSessions
     DEF IInv, TypeOK, Accept, PermitsBalance
<1>5. ActiveGauge'
  BY <1>2, AddSession, SessionSets, FiniteSessions
     DEF IInv, TypeOK, Counters, Accept, connection_opened, ActiveGauge
<1>6. HandshakeTotals'
  BY <1>3 DEF IInv, TypeOK, Counters, Accept, connection_opened, HandshakeTotals
<1>7. HoldersJoinable' /\ ExitedIsEmpty'
  BY <1>2 DEF IInv, Accept, HoldersJoinable, ExitedIsEmpty
<1> QED BY <1>1, <1>4, <1>5, <1>6, <1>7 DEF IInv

LEMMA RejectStep ==
  ASSUME IInv, NEW c \in Conns, Reject(c)
  PROVE  IInv'
<1>1. TypeOK'
  BY DEF IInv, TypeOK, Reject
<1>2. /\ Live' = Live /\ Holding' = Holding /\ Lost' = Lost /\ Closed' = Closed
  BY DEF IInv, TypeOK, Reject, Live, Holding, Lost, Closed, Running, ServerPhases,
         ClientPhases
<1>3. Succeeded' = Succeeded /\ Failed' = Failed
  BY <1>2 DEF Reject, Succeeded, Failed
<1>4. HoldersJoinable' /\ ExitedIsEmpty'
  BY <1>2 DEF IInv, Reject, HoldersJoinable, ExitedIsEmpty
<1> QED BY <1>1, <1>2, <1>3, <1>4, QuietStep DEF IInv, Reject

LEMMA AcceptFailsStep ==
  ASSUME IInv, AcceptFails
  PROVE  IInv'
<1>1. TypeOK'
  BY DEF IInv, TypeOK, AcceptFails
<1>2. /\ Live' = {} /\ Holding' = {} /\ Lost' = Live \cup Lost /\ Live \cap Lost = {}
      /\ Closed' = Closed
  BY DEF IInv, TypeOK, AcceptFails, Live, Holding, Lost, Closed, Running, ServerPhases,
         ClientPhases
<1>3. Succeeded' = Succeeded /\ Failed' = Failed
  BY <1>2 DEF AcceptFails, Succeeded, Failed
<1>4. PermitsBalance'
  BY <1>2, FS_EmptySet DEF AcceptFails, PermitsBalance
<1>5. Cardinality(Live \cup Lost) = Cardinality(Live) + Cardinality(Lost)
  <2>1. IsFiniteSet(Live) /\ IsFiniteSet(Lost) /\ Cardinality(Live \cap Lost) = 0
    BY <1>2, SessionSets, FiniteSessions, FS_EmptySet
  <2>2. Cardinality(Live) \in Nat /\ Cardinality(Lost) \in Nat
    BY SessionSets, FiniteSessions
  <2>3. Cardinality(Live \cup Lost) =
          Cardinality(Live) + Cardinality(Lost) - Cardinality(Live \cap Lost)
    BY <2>1, FS_Union
  <2> QED BY <2>1, <2>2, <2>3
<1>6. ActiveGauge'
  BY <1>2, <1>5, SessionSets, FiniteSessions, FS_EmptySet DEF IInv, AcceptFails, ActiveGauge
<1>7. HandshakeTotals'
  BY <1>3 DEF IInv, AcceptFails, HandshakeTotals
<1>8. HoldersJoinable' /\ ExitedIsEmpty'
  BY <1>2 DEF AcceptFails, HoldersJoinable, ExitedIsEmpty
<1> QED BY <1>1, <1>4, <1>6, <1>7, <1>8 DEF IInv

LEMMA LoopStep ==
  ASSUME IInv, Signal \/ Exit \/ \E c \in Conns : JoinNext(c)
  PROVE  IInv'
<1>1. TypeOK' /\ UNCHANGED <<permits, metrics, phase, error, handshaken>>
  BY DEF IInv, TypeOK, Signal, Exit, JoinNext
<1>2. /\ Live' = Live /\ Holding' = Holding /\ Lost' = Lost
      /\ Succeeded' = Succeeded /\ Failed' = Failed
  BY <1>1 DEF Live, Holding, Lost, Closed, Succeeded, Failed
<1>3. HoldersJoinable'
  BY <1>2 DEF IInv, Signal, Exit, JoinNext, HoldersJoinable, Holding, Running,
              ServerPhases, ClientPhases
<1>4. ExitedIsEmpty'
  BY DEF IInv, Signal, Exit, JoinNext, ExitedIsEmpty
<1> QED BY <1>1, <1>2, <1>3, <1>4, QuietStep DEF IInv

LEMMA AdvanceStep ==
  ASSUME IInv, NEW c \in Conns, Advance(c)
  PROVE  IInv'
<1>1. NextPhase(phase[c]) \in Running
  BY DEF Advance, NextPhase, Running, ServerPhases, ClientPhases
<1>2. TypeOK'
  <2>1. phase' \in [Conns -> Running \cup {"absent", "rejected", "finished", "ended",
                                           "panicked", "aborted"}]
    BY <1>1 DEF IInv, TypeOK, Advance
  <2>2. handshaken' \in [Conns -> BOOLEAN]
    BY DEF IInv, TypeOK, Advance
  <2> QED BY <2>1, <2>2 DEF IInv, TypeOK, Advance
<1>3. /\ Live' = Live /\ Holding' = Holding /\ Lost' = Lost /\ Closed' = Closed
      /\ c \notin Closed
  BY <1>1 DEF IInv, TypeOK, Advance, Live, Holding, Lost, Closed, Running, ServerPhases,
              ClientPhases
<1>4. \A d \in Closed : handshaken'[d] = handshaken[d]
  BY <1>3, SessionSets DEF IInv, TypeOK, Advance
<1>5. Succeeded' = Succeeded /\ Failed' = Failed
  BY <1>3, <1>4 DEF Advance, Succeeded, Failed
<1>6. HoldersJoinable' /\ ExitedIsEmpty'
  BY <1>3 DEF IInv, Advance, HoldersJoinable, ExitedIsEmpty
<1> QED BY <1>2, <1>3, <1>5, <1>6, QuietStep DEF IInv, Advance

LEMMA FinishStep ==
  ASSUME IInv, NEW c \in Conns, phase[c] \in Running, NEW e \in Errors,
         finish_connection(c, e)
  PROVE  IInv'
<1> DEFINE reason == IF e = "none" THEN "PeerClosed" ELSE from_error(e)
<1>1. reason = "Shutdown" <=> e = "shutdown requested"
  BY ShutdownClassified
<1>2. metrics \in [Counters -> Nat] /\ handshaken[c] \in BOOLEAN
  BY DEF IInv, TypeOK
<1>3. /\ Live' = Live \ {c} /\ Closed' = Closed \cup {c}
      /\ c \in Live /\ c \notin Closed
      /\ Holding' = Holding /\ Lost' = Lost
  BY DEF IInv, TypeOK, finish_connection, Live, Holding, Lost, Closed, Running,
         ServerPhases, ClientPhases
<1>4. /\ Succeeded' = IF handshaken[c] THEN Succeeded \cup {c} ELSE Succeeded
      /\ Failed' = IF ~handshaken[c] /\ e # "shutdown requested"
                   THEN Failed \cup {c} ELSE Failed
      /\ c \notin Succeeded /\ c \notin Failed
  <2>1. error'[c] = e /\ \A d \in Closed : error'[d] = error[d]
    BY <1>3, SessionSets DEF IInv, TypeOK, finish_connection
  <2>2. handshaken' = handshaken
    BY DEF finish_connection
  <2> QED BY <1>2, <1>3, <2>1, <2>2 DEF Succeeded, Failed
<1>5. Cardinality(Live') = Cardinality(Live) - 1 /\ Cardinality(Live) \in Nat
      /\ Cardinality(Live) > 0 /\ Cardinality(Lost) \in Nat
  BY <1>3, RemoveSession, SessionSets, FiniteSessions
<1>6. metrics.active > 0 /\ metrics.active \in Nat
  BY <1>2, <1>5 DEF IInv, ActiveGauge, Counters
<1>7. /\ metrics' \in [Counters -> Nat]
      /\ metrics'.active = metrics.active - 1
      /\ metrics'.success = metrics.success + Bit(handshaken[c])
      /\ metrics'.failure = metrics.failure + Bit(~handshaken[c] /\ reason # "Shutdown")
  <2>1. \A b : Bit(b) \in Nat
    BY DEF Bit
  <2>2. metrics' = [metrics EXCEPT
          !["active"] = @ - 1,
          !["success"] = @ + Bit(handshaken[c]),
          !["failure"] = @ + Bit(~handshaken[c] /\ reason # "Shutdown"),
          !["unauthorized"] = @ + Bit(reason = "UnauthorizedClient"),
          !["decrypt"] = @ + Bit(reason = "DecryptFailed"),
          !["destination"] = @ + Bit(reason = "DestinationConnectFailed")]
    BY DEF finish_connection, connection_closed
  <2> HIDE DEF reason
  <2> QED BY <1>2, <1>6, <2>1, <2>2 DEF Counters
<1>8. TypeOK'
  BY <1>7 DEF IInv, TypeOK, finish_connection
<1>9. PermitsBalance'
  BY <1>3 DEF IInv, PermitsBalance, finish_connection
<1>10. ActiveGauge'
  BY <1>3, <1>5, <1>7 DEF IInv, ActiveGauge
<1>11. HandshakeTotals'
  <2>1. Cardinality(Succeeded') = Cardinality(Succeeded) + Bit(handshaken[c])
    <3>1. CASE handshaken[c]
      BY <3>1, <1>4, AddSession, SessionSets DEF Bit
    <3>2. CASE ~handshaken[c]
      <4>1. Bit(handshaken[c]) = 0 /\ Succeeded' = Succeeded
        BY <3>2, <1>4 DEF Bit
      <4> QED BY <4>1, SessionSets, FiniteSessions
    <3> QED BY <3>1, <3>2
  <2>2. Cardinality(Failed') =
          Cardinality(Failed) + Bit(~handshaken[c] /\ reason # "Shutdown")
    <3> HIDE DEF reason
    <3>1. CASE ~handshaken[c] /\ e # "shutdown requested"
      BY <3>1, <1>1, <1>4, AddSession, SessionSets DEF Bit
    <3>2. CASE ~(~handshaken[c] /\ e # "shutdown requested")
      <4>1. Bit(~handshaken[c] /\ reason # "Shutdown") = 0 /\ Failed' = Failed
        BY <3>2, <1>1, <1>4 DEF Bit
      <4> QED BY <4>1, SessionSets, FiniteSessions
    <3> QED BY <3>1, <3>2
  <2> QED BY <2>1, <2>2, <1>7 DEF IInv, HandshakeTotals
<1>12. HoldersJoinable' /\ ExitedIsEmpty'
  BY <1>3 DEF IInv, finish_connection, HoldersJoinable, ExitedIsEmpty
<1> QED BY <1>8, <1>9, <1>10, <1>11, <1>12 DEF IInv

LEMMA ReleaseStep ==
  ASSUME IInv, NEW c \in Conns, TaskEnds(c) \/ Panic(c)
  PROVE  IInv'
<1>1. Holding' = Holding \ {c} /\ c \in Holding /\ Closed' = Closed
  BY DEF IInv, TypeOK, TaskEnds, Panic, Live, Holding, Lost, Closed, Running,
         ServerPhases, ClientPhases
<1>2. Succeeded' = Succeeded /\ Failed' = Failed
  BY <1>1 DEF TaskEnds, Panic, Succeeded, Failed
<1>3. permits' = permits + 1 /\ UNCHANGED <<metrics, loop, sessions>>
  BY DEF TaskEnds, Panic, ReleasePermit
<1>4. Cardinality(Holding') = Cardinality(Holding) - 1 /\ Cardinality(Holding) \in Nat
      /\ Cardinality(Holding) > 0
  BY <1>1, RemoveSession, SessionSets, FiniteSessions
<1>5. PermitsBalance' /\ permits' \in 0 .. Limit
  BY <1>3, <1>4 DEF IInv, TypeOK, PermitsBalance
<1>6. TypeOK'
  BY <1>3, <1>5 DEF IInv, TypeOK, TaskEnds, Panic
<1>7. Cardinality(Live') + Cardinality(Lost') = Cardinality(Live) + Cardinality(Lost)
  <2>1. CASE TaskEnds(c)
    BY <2>1 DEF IInv, TypeOK, TaskEnds, Live, Lost, Running, ServerPhases, ClientPhases
  <2>2. CASE Panic(c)
    <3>1. /\ Live' = Live \ {c} /\ c \in Live
          /\ Lost' = Lost \cup {c} /\ c \notin Lost
      BY <2>2 DEF IInv, TypeOK, Panic, Live, Lost, Running, ServerPhases, ClientPhases
    <3>2. Cardinality(Live') = Cardinality(Live) - 1
      BY <3>1, RemoveSession, SessionSets
    <3>3. Cardinality(Lost') = Cardinality(Lost) + 1
      BY <3>1, AddSession, SessionSets
    <3>4. Cardinality(Live) \in Nat /\ Cardinality(Lost) \in Nat
      BY SessionSets, FiniteSessions
    <3> QED BY <3>2, <3>3, <3>4
  <2> QED BY <2>1, <2>2
<1>8. ActiveGauge' /\ HandshakeTotals'
  BY <1>2, <1>3, <1>7 DEF IInv, ActiveGauge, HandshakeTotals
<1>9. HoldersJoinable' /\ ExitedIsEmpty'
  BY <1>1, <1>3 DEF IInv, HoldersJoinable, ExitedIsEmpty
<1> QED BY <1>5, <1>6, <1>8, <1>9 DEF IInv

LEMMA NextIInv == IInv /\ [Next]_vars => IInv'
<1> SUFFICES ASSUME IInv, [Next]_vars PROVE IInv'
  OBVIOUS
<1>1. CASE UNCHANGED vars
  BY <1>1 DEF vars, IInv, TypeOK, PermitsBalance, ActiveGauge, HandshakeTotals,
              HoldersJoinable, ExitedIsEmpty, Live, Holding, Lost, Closed, Succeeded,
              Failed
<1>2. ASSUME NEW c \in Conns, Session(c)
      PROVE  IInv'
  <2>1. ASSUME Fail(c) PROVE IInv'
    <3>1. \A ph \in Running : PhaseErrors(ph) \subseteq Errors
      BY DEF Errors
    <3> QED BY <2>1, <3>1, FinishStep DEF Fail
  <2>2. ASSUME RelayEnds(c) \/ SeesShutdown(c) PROVE IInv'
    <3>1. "none" \in Errors /\ "shutdown requested" \in Errors
      BY DEF Errors
    <3>2. phase[c] \in Running
      BY <2>2 DEF RelayEnds, SeesShutdown, Interruptible, Running, ServerPhases,
                  ClientPhases
    <3> QED BY <2>2, <3>1, <3>2, FinishStep DEF RelayEnds, SeesShutdown
  <2> QED BY <1>2, <2>1, <2>2, AdvanceStep, ReleaseStep DEF Session
<1>3. CASE Next
  BY <1>2, <1>3, AcceptStep, RejectStep, AcceptFailsStep, LoopStep, ReleaseStep DEF Next
<1> QED BY <1>1, <1>3

-----------------------------------------------------------------------------
\* The state of serve has its types; in particular the semaphore never has
\* more permits than it started with and no counter goes below zero.
THEOREM TypeCorrect == Spec => []TypeOK
<1>1. IInv => TypeOK
  BY DEF IInv
<1> QED BY <1>1, InitIInv, NextIInv, PTL DEF Spec

\* Permits are neither lost nor returned twice, whatever way sessions end.
THEOREM PermitsAccounted == Spec => []PermitsBalance
<1>1. IInv => PermitsBalance
  BY DEF IInv
<1> QED BY <1>1, InitIInv, NextIInv, PTL DEF Spec

\* The gauge counts the sessions being served and those that were lost to a
\* panic or a failed accept.
THEOREM GaugeAccounted == Spec => []ActiveGauge
<1>1. IInv => ActiveGauge
  BY DEF IInv
<1> QED BY <1>1, InitIInv, NextIInv, PTL DEF Spec

\* The handshake totals count every closed session once.
THEOREM TotalsAccounted == Spec => []HandshakeTotals
<1>1. IInv => HandshakeTotals
  BY DEF IInv
<1> QED BY <1>1, InitIInv, NextIInv, PTL DEF Spec

\* serve returns only when no session is left and every permit is back.
THEOREM CleanExit == Spec => []ExitIsClean
<1>1. IInv => ExitIsClean
  <2> SUFFICES ASSUME IInv, loop = "exited" PROVE sessions = {} /\ Holding = {} /\ permits = Limit
    BY DEF ExitIsClean
  <2>1. sessions = {} /\ Holding = {}
    BY DEF IInv, ExitedIsEmpty, HoldersJoinable
  <2> QED BY <2>1, FS_EmptySet DEF IInv, TypeOK, PermitsBalance
<1> QED BY <1>1, InitIInv, NextIInv, PTL DEF Spec
=============================================================================

--------------------------- MODULE ComponentsProofs ---------------------------
(***************************************************************************)
(* Proofs about small components: the installation script, what the doctor *)
(* commands promise, the benchmark's echo stream, the idle timer and the   *)
(* benchmark's latency gate.                                               *)
(***************************************************************************)
EXTENDS IdleTimer, Startup, Bench, EchoStream, InstallAtomic, SequenceTheorems,
        FiniteSetTheorems, WellFoundedInduction, TLAPS

-----------------------------------------------------------------------------
(* install-atomic.sh.                                                      *)

\* What the script is about to install was verified, or the trap removed it.
StagedOK ==
  /\ at \in {"digest", "copy"} => manifest \in Versions \cup {"damaged"}
  /\ at \in {"copy", "verify"} => expected \in Versions \cup {"damaged"}
  /\ at \in {"check", "link", "keep", "replace"} => expected \in Versions
  /\ at \in {"check", "link", "keep", "replace"} => staged \in {"none", expected}

\* What is kept is a link to the active binary, and from there until the
\* replacement both names hold it; without a binary there is nothing to keep.
PreviousOK ==
  /\ at = "keep" => previous_tmp \in {"none", active}
  /\ at = "replace" => previous = active
  /\ at \in {"confirm", "done"} => previous = displaced
  /\ previous \in {"none", displaced, active}
  /\ active = "none" => previous = "none" /\ displaced = "none"

InstallInv == StagedOK /\ PreviousOK

LEMMA InstallInvInit == InstallInit => InstallInv
BY DEF InstallInit, InstallInv, StagedOK, PreviousOK

LEMMA ExitKeeps ==
  ASSUME InstallInv, Exit
  PROVE  InstallInv' /\ active' = active
BY DEF Exit, InstallInv, StagedOK, PreviousOK

LEMMA InstallInvNext == InstallInv /\ [InstallNext]_installvars => InstallInv'
<1> SUFFICES ASSUME InstallInv, [InstallNext]_installvars
             PROVE  InstallInv'
  OBVIOUS
<1> USE DEF InstallInv, StagedOK, PreviousOK
<1>1. ASSUME NEW version \in Versions, Begin(version)
      PROVE  InstallInv'
  BY <1>1 DEF Begin
<1>2. CASE ReplaceArtifact
  BY <1>2 DEF ReplaceArtifact
<1>3. CASE ReadDigest \/ CopyStaged
  BY <1>3, ExitKeeps DEF ReadDigest, CopyStaged
<1>4. CASE VerifyStaged
  BY <1>4, ExitKeeps DEF VerifyStaged, StagedVerified
<1>5. CASE CheckDestination
  BY <1>5, ExitKeeps DEF CheckDestination, KeepsPredecessor
<1>6. CASE LinkPrevious
  BY <1>6 DEF LinkPrevious, LinkActive
<1>7. CASE KeepPrevious
  BY <1>7, ExitKeeps DEF KeepPrevious
<1>8. CASE Replace
  BY <1>8, ExitKeeps DEF Replace
<1>9. CASE Confirm
  BY <1>9, ExitKeeps DEF Confirm
<1>10. CASE TrapSignal
  BY <1>10 DEF TrapSignal
<1>11. CASE KillInstall
  BY <1>11, ExitKeeps DEF KillInstall
<1>12. CASE UNCHANGED installvars
  BY <1>12 DEF installvars
<1> QED BY <1>1, <1>2, <1>3, <1>4, <1>5, <1>6, <1>7, <1>8, <1>9, <1>10, <1>11, <1>12
        DEF InstallNext

LEMMA InstallInvariant == InstallSpec => []InstallInv
BY InstallInvInit, InstallInvNext, PTL DEF InstallSpec

\* For any releases and any number of interrupted runs, PATH.previous is the
\* binary that the installation displaced (the link and the two renames of
\* install-atomic.sh), when runs follow one another.
THEOREM InstallRollback == InstallSpec => []RollbackAvailable
<1>1. InstallInv => RollbackAvailable
  BY DEF InstallInv, PreviousOK, RollbackAvailable
<1> QED BY <1>1, InstallInvariant, PTL

\* The active path only ever changes to a release whose staged copy passed
\* shasum, codesign and lipo, in one step (mv), whatever kills, signals and
\* failing commands interrupt the script and whenever the artifact directory
\* changes under it.  A power loss is outside the model.
THEOREM InstallAtomicReplace == InstallSpec => ReplacedAtomically
<1>1. InstallInv /\ [InstallNext]_installvars =>
        [active' # active => active' = expected /\ active' \in Versions]_installvars
  <2> SUFFICES ASSUME InstallInv, InstallNext, active' # active
               PROVE  active' = expected /\ active' \in Versions
    BY DEF installvars
  <2>1. Exit => active' = active
    BY DEF Exit
  <2>2. Replace
    BY <2>1 DEF InstallNext, Begin, ReplaceArtifact, ReadDigest, CopyStaged, VerifyStaged,
       CheckDestination, LinkPrevious, LinkActive, KeepPrevious, Confirm, TrapSignal,
       KillInstall
  <2>3. at = "replace" /\ staged # "none" /\ active' = staged
    BY <2>1, <2>2 DEF Replace
  <2> QED BY <2>3 DEF InstallInv, StagedOK
<1> QED BY <1>1, InstallInvariant, PTL DEF InstallSpec, ReplacedAtomically

-----------------------------------------------------------------------------
(* What doctor promises.                                                   *)

\* The additional identities of a server's file are a sequence whatever the
\* operator has written there, and its role is never edited.
TomlOK ==
  /\ "role" \in DOMAIN toml
  /\ toml.role = "server" =>
       /\ "additional_private_key_files" \in DOMAIN toml
       /\ toml.additional_private_key_files \in Seq(FileNames)

LEMMA IdentitySettings == Settings.additional_private_key_files \subseteq Seq(FileNames)
<1> DEFINE Several == {SubSeq(Ids, 2, n) : n \in {2, 8, 9}}
<1>1. Ids \in Seq(FileNames) /\ Len(Ids) = 9
  <2>1. Len(Ids) = 9 /\ Ids = [i \in 1 .. 9 |-> Ids[i]]
    BY DEF Ids
  <2>2. \A i \in 1 .. 9 : Ids[i] \in FileNames
    BY <2>1 DEF FileNames
  <2> HIDE DEF Ids, FileNames
  <2> QED BY <2>1, <2>2, IsASeq
<1>2. ASSUME NEW n \in {2, 8, 9}
      PROVE  SubSeq(Ids, 2, n) \in Seq(FileNames)
  <2>1. \A i \in 2 .. n : i \in 1 .. Len(Ids)
    BY <1>1
  <2>2. \A i \in 2 .. n : Ids[i] \in FileNames
    BY <1>1, <2>1, ElementOfSeq
  <2>3. 2 \in Int /\ n \in Int
    OBVIOUS
  <2> QED BY <1>1, <2>2, <2>3, SubSeqProperties
<1>3. Settings.additional_private_key_files = Several \cup {<<"id1">>, <<"blank">>}
  BY DEF Settings
<1>4. {<<"id1">>, <<"blank">>} \subseteq Seq(FileNames)
  <2>1. Ids[1] = "id1" /\ 1 \in 1 .. Len(Ids)
    BY <1>1 DEF Ids
  <2>2. "id1" \in FileNames /\ "blank" \in FileNames
    BY <2>1 DEF FileNames
  <2> QED BY <2>2
<1> QED BY <1>2, <1>3, <1>4

LEMMA TomlInvariant == StartupSpec => []TomlOK
<1>1. StartupInit => TomlOK
  <2> SUFFICES ASSUME StartupInit
               PROVE  TomlOK
    OBVIOUS
  <2>1. Tail(<<"id1">>) = <<>> /\ <<>> \in Seq(FileNames)
    OBVIOUS
  <2>2. PICK tls \in BOOLEAN :
          \/ toml = [ServerToml(<<"id1">>, Clients("laptop", "key")) EXCEPT
                       !.tls_enabled = tls,
                       !.certificate_file = IF tls THEN {"cert"} ELSE {},
                       !.tls_private_key_file = IF tls THEN {"certkey"} ELSE {}]
          \/ toml = [ClientToml("id1", "key") EXCEPT
                       !.tls_enabled = tls,
                       !.server_name = IF tls THEN {"host"} ELSE {}]
    BY Zenon DEF StartupInit
  <2>3. \A a, b, c, d, e :
          LET t == [ServerToml(a, b) EXCEPT !.tls_enabled = c, !.certificate_file = d,
                                            !.tls_private_key_file = e]
          IN /\ {"role", "additional_private_key_files"} \subseteq DOMAIN t
             /\ t.additional_private_key_files = Tail(a)
    BY DEF ServerToml
  <2>4. \A a, b, c, d :
          LET t == [ClientToml(a, b) EXCEPT !.tls_enabled = c, !.server_name = d]
          IN "role" \in DOMAIN t /\ t.role = "client"
    BY DEF ClientToml
  <2>5. CASE toml = [ServerToml(<<"id1">>, Clients("laptop", "key")) EXCEPT
                       !.tls_enabled = tls,
                       !.certificate_file = IF tls THEN {"cert"} ELSE {},
                       !.tls_private_key_file = IF tls THEN {"certkey"} ELSE {}]
    <3>1. /\ {"role", "additional_private_key_files"} \subseteq DOMAIN toml
          /\ toml.additional_private_key_files = Tail(<<"id1">>)
      BY <2>3, <2>5, Zenon
    <3> QED BY <2>1, <3>1 DEF TomlOK
  <2>6. CASE toml = [ClientToml("id1", "key") EXCEPT
                       !.tls_enabled = tls,
                       !.server_name = IF tls THEN {"host"} ELSE {}]
    <3>1. "role" \in DOMAIN toml /\ toml.role = "client"
      BY <2>4, <2>6, Zenon
    <3> QED BY <3>1 DEF TomlOK
  <2> QED BY <2>2, <2>5, <2>6
<1>2. TomlOK /\ [StartupNext]_startupvars => TomlOK'
  <2> SUFFICES ASSUME TomlOK, [StartupNext]_startupvars
               PROVE  TomlOK'
    OBVIOUS
  <2>1. ASSUME NEW field \in DOMAIN toml \ {"role"}, EditToml(field)
        PROVE  TomlOK'
    <3>1. PICK value \in Settings[field] : toml' = [toml EXCEPT ![field] = value]
      BY <2>1 DEF EditToml
    <3>2. DOMAIN toml' = DOMAIN toml /\ toml'["role"] = toml["role"]
      BY <3>1 DEF TomlOK
    <3>3. CASE field = "additional_private_key_files"
      BY <3>1, <3>2, <3>3, IdentitySettings DEF TomlOK
    <3>4. CASE field # "additional_private_key_files"
      BY <3>1, <3>2, <3>4 DEF TomlOK
    <3> QED BY <3>3, <3>4
  <2>2. CASE EditFile \/ EditMachine \/ UNCHANGED startupvars
    BY <2>2 DEF EditFile, EditMachine, startupvars, TomlOK
  <2> QED BY <2>1, <2>2 DEF StartupNext
<1> QED BY <1>1, <1>2, PTL DEF StartupSpec

\* However many settings, files and sockets are changed, a server's doctor
\* that succeeds predicts its serve and the start of a session: the number of
\* identities that responder_handshake_any takes is the one validate admits.
THEOREM ServerDoctorIsRight == StartupSpec => []ServerDoctorPredicts
<1>1. TomlOK => ServerDoctorPredicts
  <2> SUFFICES ASSUME TomlOK, toml.role = "server", ServerDoctor(toml, machine)
               PROVE  /\ ServerServe(toml, machine)
                      /\ ServerSession(ServerFromToml(toml), machine.files)
    BY DEF ServerDoctorPredicts
  <2> DEFINE config == ServerFromToml(toml)
  <2>1. /\ ServerLoads(toml, machine)
        /\ read_server_private_keys(config, machine.files)
        /\ config.tls_enabled => tls_acceptor(config, machine.files)
        /\ AllowListDecodes(config)
        /\ machine.port_free
    BY Zenon DEF ServerDoctor
  <2>2. config.additional_private_key_files \in Seq(FileNames)
    BY DEF TomlOK, ServerFromToml
  <2>3. IdentityCountInBounds(config)
    BY <2>1, Zenon DEF ServerLoads, ServerValidate
  <2> HIDE DEF config
  <2>4. Len(IdentityFiles(config)) = 1 + Len(config.additional_private_key_files)
    BY <2>2, ConcatProperties DEF IdentityFiles
  <2>5. Len(IdentityFiles(config)) \in 1 .. MAX_SERVER_STATIC_IDENTITIES
    BY <2>2, <2>3, <2>4, LenProperties
       DEF IdentityCountInBounds, MAX_SERVER_STATIC_IDENTITIES
  <2>6. ServerServe(toml, machine)
    BY <2>1, Zenon DEF ServerServe, config, read_server_private_keys, read_private_key
  <2>7. ServerSession(config, machine.files)
    BY <2>1, <2>5, Zenon DEF ServerSession, AllowListDecodes
  <2> QED BY <2>6, <2>7 DEF config
<1> QED BY <1>1, TomlInvariant, PTL

\* The same of the client: its doctor goes the way of a session, with TLS
\* where the session uses TLS.
THEOREM ClientDoctorIsRight == StartupSpec => []ClientDoctorPredicts
<1>1. ClientDoctorPredicts
  BY Zenon DEF ClientDoctorPredicts, ClientDoctor, ClientServe, ClientSession,
     verify_remote_noise, read_private_key
<1> QED BY <1>1, PTL

-----------------------------------------------------------------------------
(* The echo stream of the benchmark.                                       *)

\* Chunks are conserved, and the writer closes only after the last of them.
EchoInv ==
  /\ to_write \in Nat /\ outward \in Nat /\ buffer \in Nat /\ homeward \in Nat
  /\ to_read \in Nat
  /\ to_write + outward + buffer + homeward = to_read
  /\ closed => to_write = 0

LEMMA EchoInvariant == EchoSpec => []EchoInv
<1>1. EchoInit => EchoInv
  BY EchoAssumption DEF EchoInit, EchoInv
<1>2. EchoInv /\ [EchoNext]_echovars => EchoInv'
  <2> SUFFICES ASSUME EchoInv, [EchoNext]_echovars
               PROVE  EchoInv'
    OBVIOUS
  <2> USE DEF EchoInv
  <2>1. CASE WriteChunk
    BY <2>1, EchoAssumption DEF WriteChunk
  <2>2. CASE CloseWriter
    BY <2>2 DEF CloseWriter
  <2>3. CASE EchoIn
    BY <2>3, EchoAssumption DEF EchoIn
  <2>4. CASE EchoOut
    BY <2>4, EchoAssumption DEF EchoOut
  <2>5. CASE EchoEnds
    BY <2>5 DEF EchoEnds
  <2>6. CASE ReadChunk
    BY <2>6 DEF ReadChunk
  <2>7. CASE Break \/ UNCHANGED echovars
    BY <2>7 DEF Break, echovars
  <2> QED BY <2>1, <2>2, <2>3, <2>4, <2>5, <2>6, <2>7 DEF EchoNext, EchoMoves
<1> QED BY <1>1, <1>2, PTL DEF EchoSpec

\* Some task of stream_sample or the responder has what its next step waits
\* for.
EchoCanMove ==
  \/ to_write > 0 /\ outward < Capacity
  \/ to_write = 0 /\ ~closed
  \/ outward > 0 /\ buffer < Capacity
  \/ buffer > 0 /\ homeward < Capacity
  \/ ReaderStarted /\ to_read > 0 /\ homeward > 0

\* For every size of the transfer and of the sockets, the tasks of
\* stream_sample and serve_connection never all wait for each other before
\* both of stream_sample's can be joined, and no chunk is lost or made up.
THEOREM EchoNeverWaitsForItself ==
  EchoSpec => [](/\ ~(closed /\ to_read = 0) => EchoCanMove
                 /\ to_write + outward + buffer + homeward = to_read)
<1>1. EchoInv => /\ ~(closed /\ to_read = 0) => EchoCanMove
                 /\ to_write + outward + buffer + homeward = to_read
  BY EchoAssumption DEF EchoInv, EchoCanMove, ReaderStarted
<1> QED BY <1>1, EchoInvariant, PTL

-----------------------------------------------------------------------------
(* The idle timer, for every idle period and every slowness of the runtime. *)

\* The deadline is not passed by more than the select! loop has been late.
DeadlineServed == relay = "running" => since <= Idle + ready

\* A task that is about to notify has just forwarded something, and a notice
\* in the channel tells of something not much older.
NotifiesRecent ==
  \A t \in Tasks : copy[t] = "notify" => \E a \in ages : a <= wait[t]
NoticeRecent == notice => \E a \in ages : a <= Lag + ready

\* Since the deadline was set, or shortly before, something was forwarded.
DeadlineRecent == relay = "running" => \E a \in ages : a <= since + 2 * Lag

\* What was forwarded after the deadline was set is still being announced.
Announced(a) ==
  \/ a >= since
  \/ \E t \in Tasks : copy[t] = "notify" /\ a <= wait[t]
  \/ notice /\ a <= Lag + ready
NothingForgotten == relay = "running" => \A a \in ages : Announced(a)

IdleInv ==
  /\ IdleTypeOK /\ DeadlineServed /\ NotifiesRecent /\ NoticeRecent
  /\ DeadlineRecent /\ NothingForgotten /\ TimeoutAfterSilence

USE IdleAssumption, LagAssumption

-----------------------------------------------------------------------------
LEMMA IdleInitInv == IdleInit => IdleInv
<1> SUFFICES ASSUME IdleInit PROVE IdleInv
  OBVIOUS
<1>1. IdleTypeOK
  <2>1. notice \in BOOLEAN
    BY Zenon DEF IdleInit
  <2>2. ages \in SUBSET (0 .. Horizon) /\ since \in 0 .. Idle + Lag /\ ready \in 0 .. Lag
    BY DEF IdleInit, Horizon
  <2>3. /\ copy \in [Tasks -> {"copying", "notify", "ok", "error", "joined"}]
        /\ wait \in [Tasks -> 0 .. Lag]
        /\ relay \in {"running", "ok", "error", "idle", "shutdown"}
    BY DEF IdleInit
  <2> QED BY <2>1, <2>2, <2>3 DEF IdleTypeOK
<1>2. DeadlineServed /\ NotifiesRecent /\ NoticeRecent /\ DeadlineRecent
  BY DEF IdleInit, DeadlineServed, NotifiesRecent, NoticeRecent, DeadlineRecent
<1>3. NothingForgotten /\ TimeoutAfterSilence
  BY DEF IdleInit, NothingForgotten, Announced, TimeoutAfterSilence
<1> QED BY <1>1, <1>2, <1>3 DEF IdleInv

LEMMA ForwardInv ==
  ASSUME IdleInv, NEW t \in Tasks, Forward(t)
  PROVE  IdleInv'
<1>0. /\ copy[t] = "copying" /\ relay = "running" /\ ages' = ages \cup {0}
      /\ copy' = [copy EXCEPT ![t] = "notify"] /\ wait' = [wait EXCEPT ![t] = 0]
      /\ UNCHANGED <<notice, since, ready, relay>>
  BY DEF Forward
<1>1. IdleTypeOK'
  BY <1>0 DEF IdleInv, IdleTypeOK, Horizon
<1>2. DeadlineServed' /\ NoticeRecent' /\ DeadlineRecent' /\ TimeoutAfterSilence'
  BY <1>0 DEF IdleInv, DeadlineServed, NoticeRecent, DeadlineRecent, TimeoutAfterSilence
<1>3. NotifiesRecent'
  BY <1>0 DEF IdleInv, IdleTypeOK, NotifiesRecent
<1>4. NothingForgotten'
  <2> SUFFICES ASSUME NEW a \in ages' PROVE Announced(a)'
    BY DEF NothingForgotten
  <2>1. CASE a = 0
    BY <1>0, <2>1 DEF IdleInv, IdleTypeOK, Announced
  <2>2. CASE a \in ages
    BY <1>0, <2>2 DEF IdleInv, IdleTypeOK, NothingForgotten, Announced
  <2> QED BY <1>0, <2>1, <2>2
<1> QED BY <1>1, <1>2, <1>3, <1>4 DEF IdleInv

LEMMA NotifyInv ==
  ASSUME IdleInv, NEW t \in Tasks, Notify(t)
  PROVE  IdleInv'
<1>0. /\ copy[t] = "notify" /\ copy' = [copy EXCEPT ![t] = "copying"] /\ notice' = TRUE
      /\ UNCHANGED <<ages, wait, since, ready, relay>>
  BY DEF Notify, NoticeAfter
<1>1. IdleTypeOK'
  BY <1>0 DEF IdleInv, IdleTypeOK
<1>2. DeadlineServed' /\ DeadlineRecent' /\ TimeoutAfterSilence'
  BY <1>0 DEF IdleInv, DeadlineServed, DeadlineRecent, TimeoutAfterSilence
<1>3. NotifiesRecent'
  BY <1>0 DEF IdleInv, IdleTypeOK, NotifiesRecent
<1>4. \A a \in ages : a <= wait[t] => a <= Lag + ready
  BY DEF IdleInv, IdleTypeOK
<1>5. NoticeRecent'
  BY <1>0, <1>4 DEF IdleInv, NoticeRecent, NotifiesRecent
<1>6. NothingForgotten'
  BY <1>0, <1>4 DEF IdleInv, IdleTypeOK, NothingForgotten, Announced
<1> QED BY <1>1, <1>2, <1>3, <1>5, <1>6 DEF IdleInv

LEMMA TaskEndsInv ==
  ASSUME IdleInv, NEW t \in Tasks, TaskEnds(t)
  PROVE  IdleInv'
<1>0. /\ copy[t] = "copying"
      /\ \E result \in {"ok", "error"} : copy' = [copy EXCEPT ![t] = result]
      /\ UNCHANGED <<ages, wait, notice, since, ready, relay>>
  BY DEF TaskEnds
<1>1. IdleTypeOK'
  BY <1>0 DEF IdleInv, IdleTypeOK
<1>2. \A u \in Tasks : (copy'[u] = "notify") = (copy[u] = "notify")
  BY <1>0 DEF IdleInv, IdleTypeOK
<1>3. DeadlineServed' /\ DeadlineRecent' /\ TimeoutAfterSilence' /\ NoticeRecent'
  BY <1>0 DEF IdleInv, DeadlineServed, DeadlineRecent, TimeoutAfterSilence, NoticeRecent
<1>4. NotifiesRecent' /\ NothingForgotten'
  BY <1>0, <1>2 DEF IdleInv, NotifiesRecent, NothingForgotten, Announced
<1> QED BY <1>1, <1>3, <1>4 DEF IdleInv

LEMMA RequestDoneInv ==
  ASSUME IdleInv, RequestDone
  PROVE  IdleInv'
<1>0. /\ relay = "running" /\ copy["request"] = "ok"
      /\ copy' = [copy EXCEPT !["request"] = "joined"] /\ since' = since
      /\ UNCHANGED <<ages, wait, notice, relay>>
  BY DEF RequestDone, KeptSleep
<1>1. /\ notice => ready' = ready
      /\ ~notice => ready' \in {0, ready}
      /\ since >= Idle => ready' = ready
  BY <1>0 DEF RequestDone, Served, SelectReady, Expired
<1>2. IdleTypeOK'
  BY <1>0, <1>1 DEF IdleInv, IdleTypeOK, Tasks
<1>3. \A u \in Tasks : (copy'[u] = "notify") = (copy[u] = "notify")
  BY <1>0 DEF IdleInv, IdleTypeOK, Tasks
<1>4. DeadlineServed' /\ DeadlineRecent' /\ TimeoutAfterSilence' /\ NoticeRecent'
  BY <1>0, <1>1 DEF IdleInv, IdleTypeOK, DeadlineServed, DeadlineRecent,
                    TimeoutAfterSilence, NoticeRecent
<1>5. NotifiesRecent' /\ NothingForgotten'
  BY <1>0, <1>1, <1>3 DEF IdleInv, NotifiesRecent, NothingForgotten, Announced
<1> QED BY <1>2, <1>4, <1>5 DEF IdleInv

\* Every way out of the loop; only the deadline makes it "idle".
LEMMA ReturnInv ==
  ASSUME IdleInv, TaskBreaks \/ IdleTimeout \/ Shutdown
  PROVE  IdleInv'
<1>0. /\ relay = "running" /\ relay' \in {"ok", "error", "idle", "shutdown"}
      /\ relay' = "idle" => since >= Idle
      /\ UNCHANGED <<ages, copy, wait, notice, since, ready>>
  BY DEF TaskBreaks, IdleTimeout, Shutdown, Expired
<1>1. IdleTypeOK'
  BY <1>0 DEF IdleInv, IdleTypeOK
<1>2. DeadlineServed' /\ DeadlineRecent' /\ NothingForgotten'
  BY <1>0 DEF DeadlineServed, DeadlineRecent, NothingForgotten
<1>3. NotifiesRecent' /\ NoticeRecent'
  BY <1>0 DEF IdleInv, NotifiesRecent, NoticeRecent
<1>4. TimeoutAfterSilence'
  <2> SUFFICES ASSUME relay' = "idle", NEW a \in ages
               PROVE  a <= 2 * Lag \/ a >= Idle
    BY <1>0 DEF TimeoutAfterSilence
  <2>1. Announced(a)
    BY <1>0 DEF IdleInv, NothingForgotten
  <2> QED BY <1>0, <2>1 DEF IdleInv, IdleTypeOK, Announced
<1> QED BY <1>1, <1>2, <1>3, <1>4 DEF IdleInv

LEMMA ActivityInv ==
  ASSUME IdleInv, Activity
  PROVE  IdleInv'
<1>0. /\ relay = "running" /\ notice /\ notice' = FALSE /\ since' = 0
      /\ UNCHANGED <<ages, copy, wait, relay>>
  BY DEF Activity
<1>1. ready' \in {0, ready}
  BY DEF Activity, Served
<1>2. IdleTypeOK'
  <2>1. notice' \in BOOLEAN
    BY <1>0, Zenon
  <2>2. since' \in 0 .. Idle + Lag /\ ready' \in 0 .. Lag
    BY <1>0, <1>1 DEF IdleInv, IdleTypeOK
  <2>3. /\ ages' \in SUBSET (0 .. Horizon)' /\ wait' \in [Tasks -> 0 .. Lag]
        /\ copy' \in [Tasks -> {"copying", "notify", "ok", "error", "joined"}]
        /\ relay' \in {"running", "ok", "error", "idle", "shutdown"}
    BY <1>0 DEF IdleInv, IdleTypeOK, Horizon
  <2> QED BY <2>1, <2>2, <2>3 DEF IdleTypeOK
<1>3. DeadlineServed' /\ NotifiesRecent' /\ NoticeRecent' /\ TimeoutAfterSilence'
  <2>0. since' = 0 /\ ready' \in Nat
    BY <1>0, <1>1 DEF IdleInv, IdleTypeOK
  <2>1. \A r \in Nat : 0 <= Idle + r
    OBVIOUS
  <2>2. DeadlineServed'
    BY <2>0, <2>1, Zenon DEF DeadlineServed
  <2>3. NotifiesRecent' /\ TimeoutAfterSilence'
    BY <1>0 DEF IdleInv, NotifiesRecent, TimeoutAfterSilence
  <2>4. NoticeRecent'
    BY <1>0 DEF NoticeRecent
  <2> QED BY <2>2, <2>3, <2>4
<1>4. DeadlineRecent'
  BY <1>0 DEF IdleInv, IdleTypeOK, NoticeRecent, DeadlineRecent
<1>5. NothingForgotten'
  BY <1>0 DEF IdleInv, IdleTypeOK, NothingForgotten, Announced
<1> QED BY <1>2, <1>3, <1>4, <1>5 DEF IdleInv

-----------------------------------------------------------------------------
LEMMA TickInv ==
  ASSUME IdleInv, Tick
  PROVE  IdleInv'
<1>0. /\ relay = "running"
      /\ \A t \in Tasks : copy[t] = "notify" => wait[t] < Lag
      /\ SelectReady => ready < Lag
      /\ ages' = {a + 1 : a \in {b \in ages : b < Horizon}}
      /\ wait' = [t \in Tasks |-> IF copy[t] = "notify" THEN wait[t] + 1 ELSE 0]
      /\ since' = since + 1
      /\ ready' = IF SelectReady THEN ready + 1 ELSE 0
      /\ UNCHANGED <<copy, notice, relay>>
  BY DEF Tick
<1>1. /\ notice => ready < Lag /\ ready' = ready + 1
      /\ since >= Idle => ready < Lag /\ ready' = ready + 1
      /\ ready' \in Nat
  BY <1>0 DEF SelectReady, Expired, IdleInv, IdleTypeOK
<1>2. since \in Nat /\ ready \in 0 .. Lag /\ wait \in [Tasks -> 0 .. Lag]
      /\ ages \in SUBSET (0 .. Horizon) /\ Horizon = Idle + 3 * Lag
  BY DEF IdleInv, IdleTypeOK, Horizon
<1>3. since <= Idle + ready
  BY <1>0 DEF IdleInv, DeadlineServed
<1>4. since' <= Idle + ready' /\ since' <= Idle + Lag /\ ready' <= Lag
  BY <1>0, <1>1, <1>2, <1>3
<1>5. IdleTypeOK'
  BY <1>0, <1>1, <1>2, <1>4 DEF IdleInv, IdleTypeOK
\* What is recent enough to matter is not forgotten by the step.
<1>6. \A a \in ages : a < Horizon => a + 1 \in ages'
  BY <1>0
<1>7. DeadlineServed' /\ TimeoutAfterSilence'
  BY <1>0, <1>4 DEF DeadlineServed, TimeoutAfterSilence
<1>8. NotifiesRecent'
  <2> SUFFICES ASSUME NEW t \in Tasks, copy[t] = "notify"
               PROVE  \E a \in ages' : a <= wait'[t]
    BY <1>0 DEF NotifiesRecent
  <2>1. PICK a \in ages : a <= wait[t]
    BY DEF IdleInv, NotifiesRecent
  <2>2. a < Horizon /\ a + 1 <= wait'[t]
    BY <1>0, <1>2, <2>1
  <2> QED BY <1>6, <2>2
<1>9. NoticeRecent'
  <2> SUFFICES ASSUME notice PROVE \E a \in ages' : a <= Lag + ready'
    BY <1>0 DEF NoticeRecent
  <2>1. PICK a \in ages : a <= Lag + ready
    BY DEF IdleInv, NoticeRecent
  <2>2. a < Horizon /\ a + 1 <= Lag + ready'
    BY <1>1, <1>2, <2>1
  <2> QED BY <1>6, <2>2
<1>10. DeadlineRecent'
  <2>1. PICK a \in ages : a <= since + 2 * Lag
    BY <1>0 DEF IdleInv, DeadlineRecent
  <2>2. a < Horizon /\ a + 1 <= since' + 2 * Lag
    BY <1>0, <1>1, <1>2, <1>3, <2>1
  <2> QED BY <1>6, <2>2 DEF DeadlineRecent
<1>11. NothingForgotten'
  <2> SUFFICES ASSUME NEW b \in ages' PROVE Announced(b)'
    BY DEF NothingForgotten
  <2>1. PICK a \in ages : b = a + 1
    BY <1>0
  <2>2. Announced(a) /\ a \in Nat
    BY <1>0, <1>2 DEF IdleInv, NothingForgotten
  <2>3. CASE a >= since
    BY <1>0, <1>2, <2>1, <2>2, <2>3 DEF Announced
  <2>4. CASE \E t \in Tasks : copy[t] = "notify" /\ a <= wait[t]
    <3>1. PICK t \in Tasks : copy[t] = "notify" /\ a <= wait[t]
      BY <2>4
    <3>2. copy'[t] = "notify" /\ b <= wait'[t]
      BY <1>0, <1>2, <2>1, <2>2, <3>1
    <3> QED BY <3>2 DEF Announced
  <2>5. CASE notice /\ a <= Lag + ready
    BY <1>0, <1>1, <1>2, <2>1, <2>2, <2>5 DEF Announced
  <2> QED BY <2>2, <2>3, <2>4, <2>5 DEF Announced
<1> QED BY <1>5, <1>7, <1>8, <1>9, <1>10, <1>11 DEF IdleInv

LEMMA IdleNextInv == IdleInv /\ [IdleNext]_idlevars => IdleInv'
<1> SUFFICES ASSUME IdleInv, [IdleNext]_idlevars PROVE IdleInv'
  OBVIOUS
<1>1. CASE UNCHANGED idlevars
  BY <1>1 DEF idlevars, IdleInv, IdleTypeOK, DeadlineServed, NotifiesRecent, NoticeRecent,
              DeadlineRecent, NothingForgotten, Announced, TimeoutAfterSilence
<1> QED BY <1>1, ForwardInv, NotifyInv, TaskEndsInv, RequestDoneInv, ReturnInv,
           ActivityInv, TickInv DEF IdleNext

-----------------------------------------------------------------------------
\* The deadline is served at most Lag ticks late.
THEOREM IdleTypeCorrect == IdleSpec => []IdleTypeOK
<1>1. IdleInv => IdleTypeOK
  BY DEF IdleInv
<1> QED BY <1>1, IdleInitInv, IdleNextInv, PTL DEF IdleSpec

\* relay never outlives a silence of Idle ticks and three hand-overs.
THEOREM SilenceEnds == IdleSpec => []SilentSessionEnds
<1>1. IdleInv => SilentSessionEnds
  BY DEF IdleInv, DeadlineRecent, SilentSessionEnds
<1> QED BY <1>1, IdleInitInv, IdleNextInv, PTL DEF IdleSpec

\* An idle timeout is never the answer to a session that was active, unless
\* in its very last moments.
THEOREM TimeoutsAreSilent == IdleSpec => []TimeoutAfterSilence
<1>1. IdleInv => TimeoutAfterSilence
  BY DEF IdleInv
<1> QED BY <1>1, IdleInitInv, IdleNextInv, PTL DEF IdleSpec

-----------------------------------------------------------------------------
(* The benchmark's latency gate.                                           *)

LEMMA LeastExists ==
  ASSUME NEW T \in SUBSET Nat, T # {}
  PROVE  \E x \in T : \A y \in T : x <= y
<1> DEFINE R == OpToRel(<, Nat)
<1>1. \E x \in T : \A y \in T : ~(<<y, x>> \in R)
  <2>1. IsWellFoundedOn(R, Nat)
    BY NatLessThanWellFounded
  <2> HIDE DEF R
  <2> QED BY <2>1, WFMin
<1>2. PICK x \in T : \A y \in T : ~(<<y, x>> \in R)
  BY <1>1
<1>3. \A y \in T : ~(y < x)
  BY <1>2 DEF OpToRel
<1> QED BY <1>3

LEMMA MinIsLeast ==
  ASSUME NEW T \in SUBSET Nat, T # {}
  PROVE  Min(T) \in T /\ \A y \in T : Min(T) <= y
BY LeastExists DEF Min

LEMMA GreatestExists ==
  ASSUME NEW T \in SUBSET Nat, T # {}, NEW x \in Nat, \A y \in T : y <= x
  PROVE  \E m \in T : \A y \in T : y <= m
<1> DEFINE U == {x - y : y \in T}
<1>1. U \in SUBSET Nat /\ U # {}
  OBVIOUS
<1> HIDE DEF U
<1>2. PICK u \in U : \A v \in U : u <= v
  BY <1>1, LeastExists
<1>3. PICK m \in T : u = x - m
  BY DEF U
<1>4. \A y \in T : x - y \in U
  BY DEF U
<1>5. \A y \in T : y \in Nat /\ x - m <= x - y
  BY <1>2, <1>3, <1>4
<1>6. m \in Nat
  OBVIOUS
<1>7. \A y \in T : y <= m
  BY <1>5, <1>6
<1> QED BY <1>7

\* A finite set of naturals is bounded: a minimal one that is not would be so
\* without any of its elements.
LEMMA BoundExists ==
  ASSUME NEW S \in SUBSET Nat, IsFiniteSet(S)
  PROVE  \E b \in Nat : \A d \in S : d <= b
<1> DEFINE Bounded(T) == \E b \in Nat : \A d \in T : d <= b
           Unbounded == {T \in SUBSET S : ~Bounded(T)}
           R == StrictSubsetOrdering(S)
<1> SUFFICES ASSUME ~Bounded(S) PROVE FALSE
  OBVIOUS
<1>1. IsWellFoundedOn(R, SUBSET S)
  BY FS_StrictSubsetOrderingWellFounded, FS_FiniteSubsetsOfFinite
<1>2. Unbounded \subseteq SUBSET S /\ Unbounded # {}
  OBVIOUS
<1>3. \E T \in Unbounded : \A U \in Unbounded : ~(<<U, T>> \in R)
  <2> HIDE DEF R, Unbounded
  <2> QED BY <1>1, <1>2, WFMin
<1>4. PICK T \in Unbounded : \A U \in Unbounded : ~(<<U, T>> \in R)
  BY <1>3
<1>5. T # {}
  BY 0 \in Nat
<1>6. PICK x \in T : TRUE
  BY <1>5
<1>7. T \ {x} \in SUBSET S /\ T \in SUBSET S /\ x \in Nat
  BY <1>6
<1>8. <<T \ {x}, T>> \in R
  <2>1. IsFiniteSet(T) /\ IsFiniteSet(T \ {x})
    BY <1>7, FS_Subset
  <2> QED BY <1>6, <1>7, <2>1 DEF StrictSubsetOrdering, FiniteSubsetsOf
<1>9. Bounded(T \ {x})
  BY <1>4, <1>7, <1>8
<1>10. PICK b \in Nat : \A d \in T \ {x} : d <= b
  BY <1>9
<1>11. PICK m \in Nat : b <= m /\ x <= m
  BY <1>7, b <= b + x /\ x <= b + x /\ b + x \in Nat
<1>12. \A d \in T : d <= m
  BY <1>7, <1>10, <1>11
<1> QED BY <1>12

-----------------------------------------------------------------------------
\* Rounding up: the rank is the least number that is 95 % of n.
LEMMA RankMeans ==
  ASSUME NEW n \in Nat, NEW a \in Nat
  PROVE  a >= rank_95(n) <=> 100 * a >= 95 * n
<1> DEFINE q == (95 * n + 99) \div 100
<1>1. q \in Int /\ 100 * q <= 95 * n + 99 /\ 95 * n + 99 < 100 * q + 100
  OBVIOUS
<1> HIDE DEF q
<1>2. a >= q <=> 100 * a >= 95 * n
  BY <1>1
<1> QED BY <1>2 DEF rank_95, q

LEMMA SamplesFinite ==
  ASSUME samples \in Nat, NEW c
  PROVE  /\ IsFiniteSet(Samples(c)) /\ Count(c) \in Nat
         /\ \A d \in Nat : AtMost(c, d) \in Nat /\ AtMost(c, d) <= Count(c)
<1>1. IsFiniteSet(1 .. samples)
  BY FS_Interval
<1>2. IsFiniteSet(Durations \X (1 .. samples))
  BY <1>1, FS_Product, BenchAssumption
<1>3. Samples(c) \in SUBSET (Durations \X (1 .. samples))
  BY DEF Samples
<1>4. IsFiniteSet(Samples(c))
  BY <1>2, <1>3, FS_Subset
<1>5. ASSUME NEW d \in Nat
      PROVE  AtMost(c, d) \in Nat /\ AtMost(c, d) <= Count(c)
  <2> DEFINE T == {s \in Samples(c) : s[1] <= d}
  <2>1. T \in SUBSET Samples(c)
    OBVIOUS
  <2> HIDE DEF T
  <2>2. IsFiniteSet(T) /\ Cardinality(T) <= Cardinality(Samples(c))
    BY <1>4, <2>1, FS_Subset
  <2>3. Cardinality(T) \in Nat
    BY <2>2, FS_CardinalityType
  <2> QED BY <2>2, <2>3 DEF AtMost, Count, T
<1>6. Count(c) \in Nat
  BY <1>4, FS_CardinalityType DEF Count
<1> QED BY <1>4, <1>5, <1>6

LEMMA AtMostGrows ==
  ASSUME samples \in Nat, NEW c, NEW d \in Nat, NEW e \in Nat, d <= e
  PROVE  AtMost(c, d) <= AtMost(c, e)
<1> DEFINE T(x) == {s \in Samples(c) : s[1] <= x}
<1>1. IsFiniteSet(Samples(c))
  BY SamplesFinite
<1>2. T(e) \in SUBSET Samples(c)
  OBVIOUS
<1>3. T(d) \in SUBSET T(e)
  <2>1. \A s \in Samples(c) : s[1] \in Nat
    BY BenchAssumption DEF Samples
  <2> QED BY <2>1
<1> HIDE DEF T
<1>4. IsFiniteSet(T(e))
  BY <1>1, <1>2, FS_Subset
<1>5. Cardinality(T(d)) <= Cardinality(T(e))
  BY <1>3, <1>4, FS_Subset
<1> QED BY <1>5 DEF AtMost, T

\* The percentile is the least duration that 95 % of the samples met, and
\* 95 % met any duration from there on and none before.
LEMMA PercentileMeans ==
  ASSUME samples \in Nat \ {0}, NEW c, Count(c) = samples
  PROVE  /\ percentile_95(c) \in Durations
         /\ \A x \in Nat : 100 * AtMost(c, x) >= 95 * samples <=> percentile_95(c) <= x
<1> DEFINE Reached == {d \in Durations : AtMost(c, d) >= rank_95(Count(c))}
           Met(x) == 100 * AtMost(c, x) >= 95 * samples
           m == percentile_95(c)
<1>1. \A x \in Nat : AtMost(c, x) \in Nat /\ AtMost(c, x) <= samples
  BY SamplesFinite
<1>2. \A x \in Nat : AtMost(c, x) >= rank_95(samples) <=> Met(x)
  BY <1>1, RankMeans
<1>3. Reached = {d \in Durations : Met(d)}
  BY <1>2, BenchAssumption
<1>4. ASSUME NEW x \in Nat, Met(x)
      PROVE  \E d \in Durations : d <= x /\ Met(d)
  <2> DEFINE T == {d \in Durations : d <= x}
             S(y) == {s \in Samples(c) : s[1] <= y}
  <2>1. T # {}
    <3> SUFFICES ASSUME T = {} PROVE FALSE
      OBVIOUS
    <3>1. S(x) = {}
      BY DEF Samples
    <3>2. AtMost(c, x) = 0
      BY <3>1, FS_EmptySet DEF AtMost
    <3> QED BY <1>4, <3>2
  <2>2. T \in SUBSET Nat /\ \A y \in T : y <= x
    BY BenchAssumption
  <2>3. PICK d \in T : \A y \in T : y <= d
    <3> HIDE DEF T
    <3> QED BY <2>1, <2>2, GreatestExists
  <2>4. S(d) = S(x)
    <3>1. d \in Nat /\ d <= x
      BY <2>2
    <3>2. ASSUME NEW s \in Samples(c)
          PROVE  s[1] <= d <=> s[1] <= x
      <4>1. s[1] \in Durations /\ s[1] \in Nat
        BY BenchAssumption DEF Samples
      <4> QED BY <2>3, <3>1, <4>1
    <3> QED BY <3>2
  <2>5. AtMost(c, d) = AtMost(c, x)
    BY <2>4 DEF AtMost
  <2> QED BY <1>4, <2>3, <2>5
<1>5. Reached # {}
  <2>1. PICK b \in Nat : \A d \in Durations : d <= b
    <3>1. CASE Durations = {}
      BY <3>1
    <3>2. CASE Durations # {}
      BY BenchAssumption, BoundExists
    <3> QED BY <3>1, <3>2
  <2>2. {s \in Samples(c) : s[1] <= b} = Samples(c)
    BY <2>1 DEF Samples
  <2>3. AtMost(c, b) = samples
    BY <2>2 DEF AtMost, Count
  <2>4. Met(b)
    BY <2>3
  <2> QED BY <1>3, <1>4, <2>4
<1>6. Reached \in SUBSET Nat
  BY BenchAssumption
<1> HIDE DEF Reached
<1>7. Min(Reached) \in Reached /\ \A y \in Reached : Min(Reached) <= y
  BY <1>5, <1>6, MinIsLeast
<1>8. m = Min(Reached)
  BY DEF percentile_95, Reached
<1> HIDE DEF m
<1>9. m \in Durations /\ m \in Nat /\ Met(m) /\ \A d \in Durations : Met(d) => m <= d
  BY <1>3, <1>6, <1>7, <1>8
<1>10. ASSUME NEW x \in Nat
       PROVE  Met(x) <=> m <= x
  <2>1. ASSUME Met(x)
        PROVE  m <= x
    <3>1. PICK d \in Durations : d <= x /\ Met(d)
      BY <1>4, <2>1
    <3>2. m <= d /\ d \in Nat
      BY <1>9, <3>1, BenchAssumption
    <3> QED BY <1>9, <3>1, <3>2
  <2>2. ASSUME m <= x
        PROVE  Met(x)
    <3>1. AtMost(c, m) <= AtMost(c, x)
      BY <1>9, <2>2, AtMostGrows
    <3> QED BY <1>1, <1>9, <3>1
  <2> QED BY <2>1, <2>2
<1> QED BY <1>9, <1>10 DEF m

\* The path being measured has had as many samples as there were iterations,
\* a path that has been measured as many as were asked for.
BenchInv ==
  /\ samples \in Nat \ {0} /\ iteration \in 0 .. samples
  /\ path \in Ends \cup {"report", "written", "failed"}
  /\ first_byte \in [Ends -> [Durations -> Nat]]
  /\ path = "direct" => iteration = Count(first_byte["direct"])
  /\ path = "tunnel" => iteration = Count(first_byte["tunnel"])
  /\ path \in Ends => \A d \in Durations : first_byte[path][d] <= iteration
  /\ path = "direct" => first_byte["tunnel"] = [d \in Durations |-> 0]
  /\ path \in {"tunnel", "report"} => Count(first_byte["direct"]) = samples
  /\ path = "report" => Count(first_byte["tunnel"]) = samples
  /\ path # "written" => gates = {}
  /\ LatencyGateMeans95Percent

LEMMA NoSamples ==
  ASSUME samples \in Nat
  PROVE  Count([d \in Durations |-> 0]) = 0
<1>1. Samples([d \in Durations |-> 0]) = {}
  BY DEF Samples
<1> QED BY <1>1, FS_EmptySet DEF Count

\* One more sample of a duration is one more sample.
LEMMA OneMoreSample ==
  ASSUME samples \in Nat, NEW c \in [Durations -> Nat], NEW d \in Durations, c[d] < samples
  PROVE  Count([c EXCEPT ![d] = @ + 1]) = Count(c) + 1
<1> DEFINE e == [c EXCEPT ![d] = @ + 1]
           new == <<d, c[d] + 1>>
<1>1. e \in [Durations -> Nat] /\ e[d] = c[d] + 1 /\ \A x \in Durations \ {d} : e[x] = c[x]
  OBVIOUS
<1>2. c[d] + 1 \in 1 .. samples
  OBVIOUS
<1> HIDE DEF e
<1>3. \A s \in Durations \X (1 .. samples) : s[2] <= e[s[1]] <=> s[2] <= c[s[1]] \/ s = new
  <2> SUFFICES ASSUME NEW x \in Durations, NEW k \in 1 .. samples
               PROVE  k <= e[x] <=> k <= c[x] \/ (x = d /\ k = c[d] + 1)
    OBVIOUS
  <2> QED BY <1>1
<1>4. new \in Durations \X (1 .. samples) /\ ~(new[2] <= c[new[1]])
  BY <1>2
<1> HIDE DEF new
<1>5. Samples(e) = Samples(c) \cup {new} /\ new \notin Samples(c)
  BY <1>3, <1>4 DEF Samples
<1>6. IsFiniteSet(Samples(c))
  BY SamplesFinite
<1>7. Cardinality(Samples(c) \cup {new}) = Cardinality(Samples(c)) + 1
  BY <1>5, <1>6, FS_AddElement
<1> QED BY <1>5, <1>7 DEF Count, e

LEMMA BenchInvInit == BenchInit => BenchInv
<1> SUFFICES ASSUME BenchInit PROVE BenchInv
  OBVIOUS
<1>1. samples \in Nat \ {0} /\ path = "direct" /\ iteration = 0 /\ gates = {}
      /\ first_byte = [p \in Ends |-> [d \in Durations |-> 0]]
  BY BenchAssumption DEF BenchInit
<1>2. first_byte \in [Ends -> [Durations -> Nat]]
      /\ first_byte["direct"] = [d \in Durations |-> 0]
      /\ first_byte["tunnel"] = [d \in Durations |-> 0]
  BY <1>1 DEF Ends
<1>3. Count(first_byte["direct"]) = 0
  BY <1>1, <1>2, NoSamples
<1>4. \A d \in Durations : first_byte[path][d] <= iteration
  BY <1>1, <1>2
<1> QED BY <1>1, <1>2, <1>3, <1>4 DEF BenchInv, LatencyGateMeans95Percent, Ends

\* A Count and an AtMost depend on the number of samples, which no step changes.
LEMMA CountsUnchanged ==
  ASSUME samples' = samples, first_byte' = first_byte
  PROVE  /\ Count(first_byte["direct"])' = Count(first_byte["direct"])
         /\ Count(first_byte["tunnel"])' = Count(first_byte["tunnel"])
         /\ gates' = gates => LatencyGateMeans95Percent' = LatencyGateMeans95Percent
BY DEF Count, AtMost, Samples, LatencyGateMeans95Percent

LEMMA NewCount ==
  ASSUME samples' = samples, NEW p, NEW c, first_byte'[p] = c
  PROVE  Count(first_byte[p])' = Count(c)
BY DEF Count, Samples

LEMMA BenchFailsInv == BenchInv /\ path # "written" /\ BenchFails => BenchInv'
BY CountsUnchanged DEF BenchInv, BenchFails, Ends, LatencyGateMeans95Percent

LEMMA CollectInv == BenchInv /\ CollectSample => BenchInv'
<1> SUFFICES ASSUME BenchInv, CollectSample PROVE BenchInv'
  OBVIOUS
<1>1. CASE BenchFails
  BY <1>1, BenchFailsInv DEF CollectSample, Ends
<1>2. CASE ~BenchFails
  <2>1. PICK d \in Durations : first_byte' = [first_byte EXCEPT ![path][d] = @ + 1]
    BY <1>2 DEF CollectSample
  <2>2. /\ path \in Ends /\ iteration < samples /\ iteration' = iteration + 1
        /\ UNCHANGED <<samples, memory, path, elapsed, gates>>
    BY <1>2 DEF CollectSample
  <2> DEFINE c == first_byte[path]
             e == [c EXCEPT ![d] = @ + 1]
  <2>3. c \in [Durations -> Nat] /\ c[d] <= iteration /\ Count(c) = iteration
        /\ \A x \in Durations : c[x] <= iteration
    BY <2>2 DEF BenchInv, Ends
  <2>4. samples \in Nat /\ iteration \in Nat /\ c[d] < samples
    BY <2>2, <2>3 DEF BenchInv
  <2>5. Count(e) = iteration + 1
    BY <2>3, <2>4, OneMoreSample
  <2>6. first_byte'[path] = e /\ \A p \in Ends \ {path} : first_byte'[p] = first_byte[p]
    BY <2>1, <2>2 DEF BenchInv
  <2>7. first_byte' \in [Ends -> [Durations -> Nat]]
    BY <2>1, <2>2 DEF BenchInv
  <2>8. \A x \in Durations : e[x] <= iteration + 1
    BY <2>3, <2>4
  <2> HIDE DEF e
  <2>9. Count(first_byte[path])' = iteration + 1
    BY <2>2, <2>5, <2>6, NewCount
  <2>10. \A p \in Ends \ {path} : Count(first_byte[p])' = Count(first_byte[p])
    BY <2>2, <2>6, NewCount
  <2>11. iteration' \in 0 .. samples
    BY <2>2, <2>4
  <2>12. gates' = {}
    BY <2>2 DEF BenchInv, Ends
  <2>13. \A x \in Durations : first_byte'[path'][x] <= iteration'
    BY <2>2, <2>6, <2>8
  <2> HIDE DEF c
  <2>14. CASE path = "direct"
    <3>1. /\ Count(first_byte["direct"])' = iteration'
          /\ first_byte'["tunnel"] = [x \in Durations |-> 0]
      BY <2>2, <2>6, <2>9, <2>14 DEF BenchInv, Ends
    <3> QED BY <2>2, <2>7, <2>11, <2>12, <2>13, <2>14, <3>1
            DEF BenchInv, LatencyGateMeans95Percent, Ends
  <2>15. CASE path = "tunnel"
    <3>1. /\ Count(first_byte["tunnel"])' = iteration'
          /\ Count(first_byte["direct"])' = samples
      BY <2>2, <2>9, <2>10, <2>15 DEF BenchInv, Ends
    <3> QED BY <2>2, <2>7, <2>11, <2>12, <2>13, <2>15, <3>1
            DEF BenchInv, LatencyGateMeans95Percent, Ends
  <2> QED BY <2>2, <2>14, <2>15 DEF Ends
<1> QED BY <1>1, <1>2

LEMMA StreamInv == BenchInv /\ MeasureStream => BenchInv'
<1> SUFFICES ASSUME BenchInv, MeasureStream PROVE BenchInv'
  OBVIOUS
<1>1. CASE BenchFails
  BY <1>1, BenchFailsInv DEF MeasureStream, Ends
<1>2. CASE ~BenchFails
  <2>1. /\ path \in Ends /\ iteration = samples /\ iteration' = 0
        /\ path' = IF path = "direct" THEN "tunnel" ELSE "report"
        /\ UNCHANGED <<samples, memory, first_byte, gates>>
    BY <1>2 DEF MeasureStream
  <2>2. /\ Count(first_byte["direct"])' = Count(first_byte["direct"])
        /\ Count(first_byte["tunnel"])' = Count(first_byte["tunnel"])
        /\ gates' = {} /\ samples \in Nat
    BY <2>1, CountsUnchanged DEF BenchInv, Ends
  <2>3. CASE path = "direct"
    <3>1. path' = "tunnel" /\ Count(first_byte["direct"])' = samples
          /\ first_byte'["tunnel"] = [d \in Durations |-> 0]
      BY <2>1, <2>2, <2>3 DEF BenchInv
    <3>2. Count(first_byte["tunnel"])' = 0
      BY <2>1, <2>2, <3>1, NoSamples
    <3>3. \A d \in Durations : first_byte'["tunnel"][d] <= 0
      BY <3>1
    <3> QED BY <2>1, <2>2, <3>1, <3>2, <3>3 DEF BenchInv, LatencyGateMeans95Percent, Ends
  <2>4. CASE path = "tunnel"
    <3>1. path' = "report" /\ Count(first_byte["direct"])' = samples
          /\ Count(first_byte["tunnel"])' = samples
      BY <2>1, <2>2, <2>4 DEF BenchInv
    <3> QED BY <2>1, <2>2, <3>1 DEF BenchInv, LatencyGateMeans95Percent, Ends
  <2> QED BY <2>1, <2>3, <2>4 DEF Ends
<1> QED BY <1>1, <1>2

LEMMA ReportInv == BenchInv /\ WriteReport => BenchInv'
<1> SUFFICES ASSUME BenchInv, WriteReport PROVE BenchInv'
  OBVIOUS
<1>1. CASE BenchFails
  BY <1>1, BenchFailsInv DEF WriteReport
<1>2. CASE ~BenchFails
  <2> DEFINE direct == first_byte["direct"]
             tunnel == first_byte["tunnel"]
             pd == percentile_95(direct)
             pt == percentile_95(tunnel)
             Fast(limit) == 100 * AtMost(direct, limit) >= 95 * samples =>
                              100 * AtMost(tunnel, limit + Budget) >= 95 * samples
  <2>1. /\ path = "report" /\ path' = "written"
        /\ UNCHANGED <<samples, memory, iteration, first_byte, elapsed>>
        /\ \A g \in gates' : g.latency = (compare_p95_us(pd, pt) <= Budget)
    BY <1>2 DEF WriteReport
  <2>2. samples \in Nat \ {0} /\ Count(direct) = samples /\ Count(tunnel) = samples
    BY <2>1 DEF BenchInv
  <2>3. /\ pd \in Durations /\ pt \in Durations /\ pd \in Nat /\ pt \in Nat
        /\ \A x \in Nat : 100 * AtMost(direct, x) >= 95 * samples <=> pd <= x
        /\ \A x \in Nat : 100 * AtMost(tunnel, x) >= 95 * samples <=> pt <= x
    BY <2>2, PercentileMeans, BenchAssumption
  <2>4. Budget \in Nat /\ Durations \subseteq Nat
    BY BenchAssumption
  <2> HIDE DEF pd, pt
  <2>5. compare_p95_us(pd, pt) <= Budget <=> pt <= pd + Budget
    BY <2>3, <2>4 DEF compare_p95_us
  <2>6. \A limit \in Durations : limit \in Nat /\ limit + Budget \in Nat
    BY <2>4
  <2>7. \A limit \in Durations : Fast(limit) <=> (pd <= limit => pt <= limit + Budget)
    BY <2>3, <2>6
  <2> HIDE DEF Fast
  <2>8. (\A limit \in Durations : Fast(limit)) <=> pt <= pd + Budget
    <3>1. (\A limit \in Durations : Fast(limit)) => pt <= pd + Budget
      <4>1. Fast(pd) => pt <= pd + Budget
        BY <2>3, <2>7
      <4> QED BY <2>3, <4>1
    <3>2. pt <= pd + Budget => \A limit \in Durations : Fast(limit)
      <4>1. \A limit \in Durations : pt <= pd + Budget => (pd <= limit => pt <= limit + Budget)
        BY <2>3, <2>4
      <4> QED BY <2>7, <4>1
    <3> QED BY <3>1, <3>2
  <2>9. \A g \in gates' : g.latency <=> \A limit \in Durations : Fast(limit)
    BY <2>1, <2>5, <2>8
  <2>10. LatencyGateMeans95Percent'
    BY <2>1, <2>9 DEF LatencyGateMeans95Percent, Fast, AtMost, Samples
  <2> QED BY <2>1, <2>10 DEF BenchInv, Ends
<1> QED BY <1>1, <1>2

\* collect_samples, percentile_95 and compare_p95_us: for every number of
\* samples and whatever their durations in whole microseconds, the latency
\* gate of the report says what the release criterion says.
THEOREM LatencyGateIsExact == BenchSpec => []LatencyGateMeans95Percent
<1>1. BenchInv /\ UNCHANGED benchvars => BenchInv'
  <2> SUFFICES ASSUME BenchInv, UNCHANGED benchvars PROVE BenchInv'
    OBVIOUS
  <2>1. UNCHANGED <<samples, path, iteration, first_byte, gates>>
    BY DEF benchvars
  <2> QED BY <2>1, CountsUnchanged DEF BenchInv
<1>2. BenchInv /\ [BenchNext]_benchvars => BenchInv'
  BY <1>1, CollectInv, StreamInv, ReportInv DEF BenchNext
<1>3. BenchInv => LatencyGateMeans95Percent
  BY DEF BenchInv
<1> QED BY <1>2, <1>3, BenchInvInit, PTL DEF BenchSpec
=============================================================================

--------------------------- MODULE DeploymentProofs ---------------------------
(***************************************************************************)
(* Proofs about KeyFiles: for any number of commands, files and power      *)
(* losses, no file is overwritten, what was reported is on disk, keys lie  *)
(* in a private directory, and only whole keys can be read.                *)
(*                                                                         *)
(* Proofs about Deployment, which need them: the key rotations of          *)
(* docs/key-management.md keep the client connected, for any number of     *)
(* keygens, kills, power losses and restarts.                              *)
(***************************************************************************)
EXTENDS Deployment, SequenceTheorems, TLAPS

-----------------------------------------------------------------------------
(* Key files.                                                              *)

\* A file belongs to the command that created it, and holds nothing else.
OwnersMatch ==
  \A p \in Paths :
    /\ file[p] = NoFile <=> owner[p] = "none"
    /\ file[p] # NoFile =>
         \/ file[p] = File("private", "partial")
         \/ file[p] = File("private", owner[p])

\* A command that has opened its file owns it until it has ended.
WritersOwn ==
  \A c \in Commands :
    pc[c] \in {"write", "rest", "sync", "report", "done"} => owner[Target[c]] = c

\* A command that is about to sync has written its file, and one that is
\* about to report, or has reported, has synced it.
StoredInOrder ==
  \A c \in Commands :
    /\ pc[c] \in {"sync", "report", "done"} => file[Target[c]] = File("private", c)
    /\ pc[c] \in {"report", "done"} => Target[c] \in synced

\* The key directory is private once a key is about to be created in it.
PrivateParent ==
  /\ \A c \in Commands : pc[c] = "create" /\ Target[c] \in KeyPaths => parent = "private"
  /\ \A p \in KeyPaths : file[p] # NoFile => parent = "private"
  /\ \A c \in Commands : pc[c] = "chmod" => parent # "absent" /\ Target[c] \in KeyPaths
  /\ \A c \in Commands : pc[c] = "mkdir" => Target[c] \in KeyPaths

KeyInv == KeyTypeOK /\ OwnersMatch /\ WritersOwn /\ StoredInOrder /\ PrivateParent

USE PathsAssumption, CommandsAssumption

-----------------------------------------------------------------------------
\* What the predicates on files say of the two kinds of file there are.
LEMMA FileFacts ==
  /\ ~exists(NoFile)
  /\ \A m, t : exists(File(m, t)) /\ File(m, t) # NoFile /\ File(m, t).text = t
  /\ \A t, u : File("private", t) = File("private", u) => t = u
BY DEF exists, NoFile, File

\* A file that exists is not NoFile, and the other way round.
LEMMA ExistsIff ==
  ASSUME KeyTypeOK, NEW p \in Paths
  PROVE  exists(file[p]) <=> file[p] # NoFile
<1>1. file[p] = NoFile \/ \E t : file[p] = File("private", t)
  BY DEF KeyTypeOK
<1>2. CASE file[p] = NoFile
  BY <1>2, FileFacts
<1>3. CASE \E t : file[p] = File("private", t)
  <2>1. PICK t : file[p] = File("private", t)
    BY <1>3
  <2>2. exists(file[p])
    BY <2>1 DEF exists, File
  <2>3. file[p] # NoFile
    BY <2>1 DEF File, NoFile
  <2> QED BY <2>2, <2>3
<1> QED BY <1>1, <1>2, <1>3

LEMMA KeyInitInv == KeyInit => KeyInv
<1> SUFFICES ASSUME KeyInit PROVE KeyInv
  OBVIOUS
<1> DEFINE Creator(p) == {c \in Earlier : Target[c] = p}
<1>1. \A p \in Paths : Creator(p) # {} => (CHOOSE c \in Creator(p) : TRUE) \in Creator(p)
  OBVIOUS
<1>2. \A c \in Earlier : (CHOOSE d \in Creator(Target[c]) : TRUE) = c
  BY <1>1
<1>3. \A p \in Paths :
        /\ Creator(p) = {} => file[p] = NoFile /\ owner[p] = "none" /\ p \notin synced
        /\ Creator(p) # {} => \E c \in Earlier :
             Target[c] = p /\ file[p] = File("private", c) /\ owner[p] = c /\ p \in synced
  BY <1>1 DEF KeyInit
<1>4. \A c \in Earlier : file[Target[c]] = File("private", c) /\ owner[Target[c]] = c
                         /\ Target[c] \in synced
  BY <1>2 DEF KeyInit
<1>5. \A c \in Commands : pc[c] = IF c \in Earlier THEN "done" ELSE "start"
  BY DEF KeyInit
<1>6. KeyTypeOK
  <2> DEFINE Contents == {NoFile} \cup {File("private", t) : t \in Commands \cup {"partial"}}
  <2>1. file \in [Paths -> Contents]
    <3>1. \A p \in Paths : file[p] \in Contents
      BY <1>3
    <3>2. file = [p \in Paths |-> file[p]]
      BY DEF KeyInit
    <3> QED BY <3>1, <3>2
  <2>2. owner \in [Paths -> Commands \cup {"none"}]
    BY <1>3 DEF KeyInit
  <2> QED BY <2>1, <2>2 DEF KeyTypeOK, KeyInit, Running
<1>7. OwnersMatch
  <2> SUFFICES ASSUME NEW p \in Paths
               PROVE  /\ file[p] = NoFile <=> owner[p] = "none"
                      /\ file[p] # NoFile => file[p] = File("private", owner[p])
    BY DEF OwnersMatch
  <2>1. CASE Creator(p) = {}
    BY <1>3, <2>1
  <2>2. CASE Creator(p) # {}
    <3>1. PICK c \in Earlier : file[p] = File("private", c) /\ owner[p] = c
      BY <1>3, <2>2
    <3>2. c # "none"
      OBVIOUS
    <3> QED BY <3>1, <3>2, FileFacts
  <2> QED BY <2>1, <2>2
<1>8. WritersOwn /\ StoredInOrder
  BY <1>4, <1>5 DEF WritersOwn, StoredInOrder
<1>9. PrivateParent
  BY <1>3, <1>5 DEF PrivateParent, KeyInit, KeyPaths
<1> QED BY <1>6, <1>7, <1>8, <1>9 DEF KeyInv

-----------------------------------------------------------------------------
\* A step that leaves the files alone and moves one command on.
LEMMA GotoType ==
  ASSUME KeyTypeOK, NEW c \in Commands,
         NEW next \in Running \cup {"refused", "killed", "done", "retired"},
         Goto(c, next), UNCHANGED <<parent, file, owner, synced>>
  PROVE  KeyTypeOK'
BY DEF KeyTypeOK, Goto

\* A command that gives up, or is killed, upsets nothing.
LEMMA AbandonInv ==
  ASSUME KeyInv, NEW c \in Commands, NEW next \in {"refused", "killed", "parent", "mkdir"},
         next = "mkdir" => Target[c] \in KeyPaths,
         Goto(c, next), UNCHANGED <<parent, file, owner, synced>>
  PROVE  KeyInv'
<1>1. KeyTypeOK'
  BY GotoType DEF KeyInv, Running
<1>2. pc' = [pc EXCEPT ![c] = next] /\ pc \in [Commands -> Running \cup
                                        {"refused", "killed", "done", "retired"}]
  BY DEF Goto, KeyInv, KeyTypeOK
<1>3. OwnersMatch'
  BY DEF KeyInv, OwnersMatch
<1>4. WritersOwn' /\ StoredInOrder'
  BY <1>2 DEF KeyInv, WritersOwn, StoredInOrder
<1>5. PrivateParent'
  BY <1>2 DEF KeyInv, PrivateParent
<1> QED BY <1>1, <1>3, <1>4, <1>5 DEF KeyInv

LEMMA PrepareInv ==
  ASSUME KeyInv, NEW c \in Commands,
         CheckExists(c) \/ PrepareParent(c) \/ MakeParent(c) \/ RestrictParent(c)
  PROVE  KeyInv'
<1>0. pc \in [Commands -> Running \cup {"refused", "killed", "done", "retired"}]
  BY DEF KeyInv, KeyTypeOK
<1>1. CASE Refuse(c)
  BY <1>1, AbandonInv DEF Refuse
<1>2. CASE CheckExists(c) /\ ~Refuse(c)
  BY <1>2, AbandonInv DEF CheckExists
<1>3. CASE PrepareParent(c) /\ ~Refuse(c)
  <2>1. CASE Goto(c, "mkdir") /\ Target[c] \in KeyPaths /\ UNCHANGED <<parent, file, owner, synced>>
    BY <2>1, AbandonInv
  <2>2. CASE /\ Target[c] \in Evidence \/ (parent # "absent" /\ ParentAccepted(parent))
             /\ Goto(c, "create") /\ UNCHANGED <<parent, file, owner, synced>>
    <3>1. Target[c] \in KeyPaths => parent = "private"
      BY <2>2 DEF KeyPaths, ParentAccepted, enforce_private_parent_permissions
    <3>2. KeyTypeOK'
      BY <2>2, GotoType DEF KeyInv, Running
    <3>3. OwnersMatch'
      BY <2>2 DEF KeyInv, OwnersMatch
    <3>4. WritersOwn' /\ StoredInOrder'
      BY <1>0, <2>2 DEF KeyInv, WritersOwn, StoredInOrder, Goto
    <3>5. PrivateParent'
      BY <1>0, <2>2, <3>1 DEF KeyInv, PrivateParent, Goto
    <3> QED BY <3>2, <3>3, <3>4, <3>5 DEF KeyInv
  <2> QED BY <1>3, <2>1, <2>2 DEF PrepareParent
<1>4. CASE (MakeParent(c) /\ ~Refuse(c)) \/ RestrictParent(c)
  <2>1. UNCHANGED <<file, owner, synced>> /\ parent' \in {"shared", "private"}
        /\ (parent # "absent" => parent' = "private")
    BY <1>4 DEF MakeParent, RestrictParent
  <2>2. pc' = [pc EXCEPT ![c] = "chmod"] \/ (pc' = [pc EXCEPT ![c] = "create"]
                                             /\ parent' = "private")
    BY <1>4 DEF MakeParent, RestrictParent, Goto
  <2>3. Target[c] \in KeyPaths
    BY <1>4 DEF MakeParent, RestrictParent, KeyInv, PrivateParent
  <2>4. KeyTypeOK'
    BY <1>0, <2>1, <2>2 DEF KeyInv, KeyTypeOK, Running
  <2>5. OwnersMatch'
    BY <2>1 DEF KeyInv, OwnersMatch
  <2>6. WritersOwn' /\ StoredInOrder'
    BY <1>0, <2>1, <2>2 DEF KeyInv, WritersOwn, StoredInOrder
  <2>7. PrivateParent'
    BY <1>0, <2>1, <2>2, <2>3 DEF KeyInv, PrivateParent
  <2> QED BY <2>4, <2>5, <2>6, <2>7 DEF KeyInv
<1> QED BY <1>1, <1>2, <1>3, <1>4

LEMMA CreateInv ==
  ASSUME KeyInv, NEW c \in Commands, Create(c)
  PROVE  KeyInv'
<1> DEFINE p == Target[c]
<1>0. p \in Paths /\ pc[c] = "create" /\ c # "none"
  BY DEF Create
<1>1. CASE Refuse(c)
  BY <1>1, AbandonInv DEF Refuse
<1>2. CASE ~Refuse(c)
  <2>1. /\ ~exists(file[p])
        /\ file' = [file EXCEPT ![p] = File("private", "partial")]
        /\ owner' = [owner EXCEPT ![p] = c]
        /\ synced' = synced \ {p}
        /\ pc' = [pc EXCEPT ![c] = "write"]
        /\ UNCHANGED parent
    BY <1>2 DEF Create, OpenNew, Goto
  <2>2. owner[p] = "none"
    BY <2>1, <1>0, ExistsIff DEF KeyInv, OwnersMatch
  <2>3. KeyTypeOK'
    BY <1>0, <2>1 DEF KeyInv, KeyTypeOK, Running
  <2>4. OwnersMatch'
    BY <1>0, <2>1, FileFacts DEF KeyInv, KeyTypeOK, OwnersMatch
  \* Nobody else stands by the file that was not there.
  <2>5. \A d \in Commands :
          pc[d] \in {"write", "rest", "sync", "report", "done"} => Target[d] # p
    BY <2>2 DEF KeyInv, WritersOwn
  <2>6. WritersOwn'
    BY <1>0, <2>1, <2>5 DEF KeyInv, KeyTypeOK, WritersOwn
  <2>7. StoredInOrder'
    BY <1>0, <2>1, <2>5 DEF KeyInv, KeyTypeOK, StoredInOrder
  <2>8. PrivateParent'
    BY <1>0, <2>1 DEF KeyInv, KeyTypeOK, PrivateParent, KeyPaths
  <2> QED BY <2>3, <2>4, <2>6, <2>7, <2>8 DEF KeyInv
<1> QED BY <1>1, <1>2

LEMMA WriteInv ==
  ASSUME KeyInv, NEW c \in Commands, Write(c) \/ sync_all(c) \/ Report(c)
  PROVE  KeyInv'
<1> DEFINE p == Target[c]
<1>0. p \in Paths /\ c # "none" /\ pc[c] \in {"write", "rest", "sync", "report"}
  BY DEF Write, sync_all, Report
<1>1. owner[p] = c
  BY <1>0 DEF KeyInv, WritersOwn
<1>2. file[p] # NoFile
  BY <1>0, <1>1 DEF KeyInv, OwnersMatch
<1>3. UNCHANGED <<parent, owner>>
  BY DEF Write, sync_all, Report
\* A file is touched by its owner alone.
<1>4. \A d \in Commands :
        pc[d] \in {"write", "rest", "sync", "report", "done"} /\ d # c => Target[d] # p
  BY <1>1 DEF KeyInv, WritersOwn
<1>5. CASE Write(c)
  <2>1. /\ file' = [file EXCEPT ![p] = IF pc[c] = "rest" THEN File("private", c) ELSE @]
        /\ pc' = [pc EXCEPT ![c] = IF pc[c] = "write" THEN "rest" ELSE "sync"]
        /\ synced' = synced /\ pc[c] \in {"write", "rest"}
    BY <1>5, <1>1 DEF Write, Goto
  <2>2. KeyTypeOK'
    BY <1>0, <1>3, <2>1 DEF KeyInv, KeyTypeOK, Running
  <2>3. OwnersMatch'
    BY <1>0, <1>1, <1>2, <1>3, <2>1, FileFacts DEF KeyInv, KeyTypeOK, OwnersMatch
  <2>4. WritersOwn'
    BY <1>1, <1>3, <2>1 DEF KeyInv, KeyTypeOK, WritersOwn
  <2>5. StoredInOrder'
    BY <1>0, <1>4, <2>1 DEF KeyInv, KeyTypeOK, StoredInOrder
  <2>6. PrivateParent'
    BY <1>0, <1>2, <1>3, <2>1 DEF KeyInv, KeyTypeOK, PrivateParent, KeyPaths
  <2> QED BY <2>2, <2>3, <2>4, <2>5, <2>6 DEF KeyInv
<1>6. CASE sync_all(c)
  <2>1. /\ synced' = synced \cup {p}
        /\ pc' = [pc EXCEPT ![c] = "report"]
        /\ file' = file /\ pc[c] = "sync"
    BY <1>6, <1>1 DEF sync_all, SyncFile, Goto
  <2>2. KeyTypeOK' /\ OwnersMatch' /\ WritersOwn'
    BY <1>0, <1>1, <1>3, <2>1 DEF KeyInv, KeyTypeOK, OwnersMatch, WritersOwn, Running
  <2>3. StoredInOrder' /\ PrivateParent'
    BY <1>0, <1>3, <2>1 DEF KeyInv, KeyTypeOK, StoredInOrder, PrivateParent
  <2> QED BY <2>2, <2>3 DEF KeyInv
<1>7. CASE Report(c)
  <2>1. pc' = [pc EXCEPT ![c] = "done"] /\ UNCHANGED <<file, synced>> /\ pc[c] = "report"
    BY <1>7 DEF Report, Goto
  <2>2. KeyTypeOK' /\ OwnersMatch' /\ WritersOwn'
    BY <1>0, <1>1, <1>3, <2>1 DEF KeyInv, KeyTypeOK, OwnersMatch, WritersOwn, Running
  <2>3. StoredInOrder' /\ PrivateParent'
    BY <1>0, <1>3, <2>1 DEF KeyInv, KeyTypeOK, StoredInOrder, PrivateParent
  <2> QED BY <2>2, <2>3 DEF KeyInv
<1> QED BY <1>5, <1>6, <1>7

LEMMA PowerLossInv ==
  ASSUME KeyInv, PowerLoss
  PROVE  KeyInv'
<1> DEFINE Risky == {p \in Paths : exists(file[p]) /\ p \notin synced}
<1>1. PICK lost \in SUBSET Risky, cut \in SUBSET Risky :
        /\ file' = [p \in Paths |-> IF p \in lost THEN NoFile
                                    ELSE IF p \in cut THEN File("private", "partial")
                                    ELSE file[p]]
        /\ owner' = [p \in Paths |-> IF p \in lost THEN "none" ELSE owner[p]]
  BY DEF PowerLoss
<1>2. /\ pc' = [c \in Commands |-> IF pc[c] \in Running THEN "killed" ELSE pc[c]]
      /\ UNCHANGED <<parent, synced>>
  BY DEF PowerLoss
<1>3. \A p \in Risky : file[p] # NoFile /\ owner[p] # "none" /\ p \notin synced
  BY ExistsIff DEF KeyInv, OwnersMatch
<1>4. KeyTypeOK'
  BY <1>1, <1>2 DEF KeyInv, KeyTypeOK
<1>5. OwnersMatch'
  <2> SUFFICES ASSUME NEW p \in Paths
               PROVE  /\ file'[p] = NoFile <=> owner'[p] = "none"
                      /\ file'[p] # NoFile =>
                           \/ file'[p] = File("private", "partial")
                           \/ file'[p] = File("private", owner'[p])
    BY DEF OwnersMatch
  <2>1. CASE p \in lost
    BY <1>1, <2>1
  <2>2. CASE p \in cut /\ p \notin lost
    <3>1. file'[p] = File("private", "partial") /\ owner'[p] = owner[p]
      BY <1>1, <2>2
    <3> QED BY <1>3, <2>2, <3>1, FileFacts
  <2>3. CASE p \notin cut /\ p \notin lost
    BY <1>1, <2>3 DEF KeyInv, OwnersMatch
  <2> QED BY <2>1, <2>2, <2>3
\* What is done is synced, and what is synced is not at risk.
<1>6. \A c \in Commands : pc'[c] \in {"write", "rest", "sync", "report", "done"} =>
        pc[c] = "done" /\ Target[c] \notin Risky
  BY <1>2 DEF Running, KeyInv, StoredInOrder
<1>7. WritersOwn' /\ StoredInOrder'
  BY <1>1, <1>2, <1>6 DEF KeyInv, WritersOwn, StoredInOrder
<1>8. PrivateParent'
  BY <1>1, <1>2, <1>3 DEF KeyInv, PrivateParent, Running, KeyPaths
<1> QED BY <1>4, <1>5, <1>7, <1>8 DEF KeyInv

LEMMA RemoveInv ==
  ASSUME KeyInv, NEW p \in Paths, RemoveFile(p)
  PROVE  KeyInv'
<1>1. /\ file' = [file EXCEPT ![p] = NoFile]
      /\ owner' = [owner EXCEPT ![p] = "none"]
      /\ synced' = synced \ {p} /\ parent' = parent
      /\ pc' = [c \in Commands |-> IF c = owner[p] /\ pc[c] = "done" THEN "retired"
                                   ELSE pc[c]]
  BY DEF RemoveFile
<1>2. KeyTypeOK'
  BY <1>1 DEF KeyInv, KeyTypeOK
<1>3. OwnersMatch'
  BY <1>1 DEF KeyInv, KeyTypeOK, OwnersMatch
\* Whoever still stands by a file stands by another one.
<1>4. \A c \in Commands : pc'[c] \in {"write", "rest", "sync", "report", "done"} =>
        pc'[c] = pc[c] /\ Target[c] # p
  BY <1>1 DEF RemoveFile, KeyInv, WritersOwn, Running
<1>5. WritersOwn' /\ StoredInOrder'
  BY <1>1, <1>4 DEF KeyInv, KeyTypeOK, WritersOwn, StoredInOrder
<1>6. PrivateParent'
  BY <1>1 DEF KeyInv, KeyTypeOK, PrivateParent, KeyPaths
<1> QED BY <1>2, <1>3, <1>5, <1>6 DEF KeyInv

LEMMA RepairInv ==
  ASSUME KeyInv, RepairParent
  PROVE  KeyInv'
BY DEF RepairParent, KeyInv, KeyTypeOK, OwnersMatch, WritersOwn, StoredInOrder, PrivateParent

LEMMA KeyNextInv == KeyInv /\ [KeyNext]_keyvars => KeyInv'
<1> SUFFICES ASSUME KeyInv, [KeyNext]_keyvars PROVE KeyInv'
  OBVIOUS
<1>1. ASSUME NEW c \in Commands, Command(c) PROVE KeyInv'
  BY <1>1, PrepareInv, CreateInv, WriteInv DEF Command
<1>2. ASSUME NEW c \in Commands, Kill(c) PROVE KeyInv'
  BY <1>2, AbandonInv DEF Kill
<1>3. ASSUME NEW p \in Paths, RemoveDebris(p) PROVE KeyInv'
  BY <1>3, RemoveInv DEF RemoveDebris
<1>4. CASE UNCHANGED keyvars
  BY <1>4 DEF keyvars, KeyInv, KeyTypeOK, OwnersMatch, WritersOwn, StoredInOrder,
              PrivateParent
<1> QED BY <1>1, <1>2, <1>3, <1>4, PowerLossInv, RepairInv DEF KeyNext

-----------------------------------------------------------------------------
\* The state of the files and commands keeps its type.
THEOREM KeyTypeCorrect == KeySpec => []KeyTypeOK
<1>1. KeyInv => KeyTypeOK
  BY DEF KeyInv
<1> QED BY <1>1, KeyInitInv, KeyNextInv, PTL DEF KeySpec

\* A key that keygen reported, or evidence the benchmark reported, is on
\* disk, whatever commands, kills and power losses came since (given that
\* sync_all makes a new file's directory entry durable).
THEOREM ReportsStored == KeySpec => []ReportedIsStored
<1>1. KeyInv => ReportedIsStored
  BY DEF KeyInv, StoredInOrder, ReportedIsStored
<1> QED BY <1>1, KeyInitInv, KeyNextInv, PTL DEF KeySpec

\* prepare_private_key_parent: key material lies in private directories only.
THEOREM PrivateDirectory == KeySpec => []KeysInPrivateDirectory
<1>1. KeyInv => KeysInPrivateDirectory
  BY ExistsIff DEF KeyInv, PrivateParent, KeysInPrivateDirectory, KeyPaths
<1> QED BY <1>1, KeyInitInv, KeyNextInv, PTL DEF KeySpec

\* read_private_key takes whole keys only.
THEOREM WholeKeys == KeySpec => []OnlyWholeKeysRead
<1>1. KeyInv => OnlyWholeKeysRead
  <2> SUFFICES ASSUME KeyInv, NEW p \in KeyPaths, read_private_key(file[p])
               PROVE  file[p].text = owner[p]
    BY DEF OnlyWholeKeysRead
  <2>1. file[p].text \notin NotKeys
    BY DEF read_private_key, decodes
  <2>2. file[p] # NoFile /\ file[p] # File("private", "partial")
    BY <2>1, FileFacts DEF NotKeys, NoFile
  <2> QED BY <2>2, FileFacts DEF KeyInv, OwnersMatch, KeyPaths
<1> QED BY <1>1, KeyInitInv, KeyNextInv, PTL DEF KeySpec

\* No command takes over a file that another one created.
THEOREM NoOverwriting == KeySpec => NeverOverwritten
<1> DEFINE Kept == \A p \in Paths : owner[p] # "none" /\ owner'[p] # "none"
                                      => owner'[p] = owner[p]
<1>1. KeyInv /\ [KeyNext]_keyvars => Kept
  <2> SUFFICES ASSUME KeyInv, [KeyNext]_keyvars PROVE Kept
    OBVIOUS
  <2>1. ASSUME NEW c \in Commands, Create(c) PROVE Kept
    <3>1. CASE Refuse(c)
      BY <3>1 DEF Refuse
    <3>2. CASE ~Refuse(c)
      <4>1. ~exists(file[Target[c]]) /\ owner' = [owner EXCEPT ![Target[c]] = c]
        BY <2>1, <3>2 DEF Create, OpenNew
      <4>2. owner[Target[c]] = "none"
        BY <4>1, ExistsIff DEF KeyInv, OwnersMatch
      <4> QED BY <4>1, <4>2 DEF KeyInv, KeyTypeOK
    <3> QED BY <3>1, <3>2
  <2>2. ASSUME NEW c \in Commands, Command(c), ~Create(c) PROVE UNCHANGED owner
    BY <2>2 DEF Command, CheckExists, PrepareParent, MakeParent, RestrictParent, Write,
                sync_all, Report, Refuse
  <2>3. ASSUME NEW c \in Commands, Kill(c) PROVE UNCHANGED owner
    BY <2>3 DEF Kill
  <2>4. ASSUME NEW p \in Paths, RemoveDebris(p) PROVE Kept
    BY <2>4 DEF RemoveDebris, RemoveFile, KeyInv, KeyTypeOK
  <2>5. ASSUME PowerLoss PROVE Kept
    BY <2>5 DEF PowerLoss
  <2>6. ASSUME RepairParent \/ UNCHANGED keyvars PROVE UNCHANGED owner
    BY <2>6 DEF RepairParent, keyvars
  <2> QED BY <2>1, <2>2, <2>3, <2>4, <2>5, <2>6 DEF KeyNext
<1>2. KeyInv /\ [KeyNext]_keyvars => [Kept]_keyvars
  BY <1>1
<1> QED BY <1>2, KeyInitInv, KeyNextInv, PTL DEF KeySpec, NeverOverwritten

-----------------------------------------------------------------------------
(* The rotations.                                                          *)

\* The three states of a server's identities and of its allow-list in the
\* course of the two rotations.
Ids1 == <<Target[OldServer]>>
Ids2 == <<Target[OldServer], NewPath>>
Ids3 == <<NewPath>>
IdPhases == {Ids1, Ids2, Ids3}

Keys1 == <<OldClient>>
Keys2 == <<OldClient, NewClient>>
Keys3 == <<NewClient>>
KeyPhases == {Keys1, Keys2, Keys3}

ServerFile(ids, keys) == ServerToml(ids, Allow(keys))

\* What runs and what a restart would load.
Servers == server \cup {ServerFromToml(server_toml)}
Clients == client \cup {ClientFromToml(client_toml)}

AtMostOne(set) == \A x, y \in set : x = y

\* The files and what runs have one of the forms that the runbooks produce.
Forms ==
  /\ AtMostOne(server) /\ AtMostOne(client)
  /\ \E ids \in IdPhases, keys \in KeyPhases : server_toml = ServerFile(ids, keys)
  /\ \A s \in server : \E ids \in IdPhases, keys \in KeyPhases :
       s = ServerFromToml(ServerFile(ids, keys))
  /\ \E path \in {Target[OldClient], Target[NewClient]}, pin \in {OldServer} \cup Reported :
       client_toml = ClientToml(path, pin)
  /\ \A c \in client :
       \E path \in {Target[OldClient], Target[NewClient]}, pin \in {OldServer} \cup Reported :
         c = ClientFromToml(ClientToml(path, pin))

\* A running process may lag behind its file, and is never ahead of it.
FilesAhead ==
  /\ \A s \in server :
       /\ IdentityFiles(s) # Ids1 => IdentityFiles(server_toml) # Ids1
       /\ IdentityFiles(s) = Ids3 => IdentityFiles(server_toml) = Ids3
       /\ s.authorized_clients # Allow(Keys1) => server_toml.authorized_clients # Allow(Keys1)
       /\ s.authorized_clients = Allow(Keys3) => server_toml.authorized_clients = Allow(Keys3)
  /\ \A c \in client :
       /\ c.server_public_key # OldServer => client_toml.server_public_key # OldServer
       /\ c.private_key_file = Target[NewClient] =>
            client_toml.private_key_file = Target[NewClient]

\* The server takes up what the client will use before the client uses it,
\* and gives up what the client used after the client has left it.
InStep ==
  \A s \in Servers, c \in Clients :
    /\ c.server_public_key # OldServer => IdentityFiles(s) # Ids1
    /\ IdentityFiles(s) = Ids3 => c.server_public_key # OldServer
    /\ c.private_key_file = Target[NewClient] => s.authorized_clients # Allow(Keys1)
    /\ s.authorized_clients = Allow(Keys3) => c.private_key_file = Target[NewClient]

\* A key in use is on disk.
KeysThere ==
  /\ \A s \in Servers :
       /\ IdentityFiles(s) # Ids1 => Reported # {}
       /\ IdentityFiles(s) # Ids3 => pc[OldServer] = "done"
       /\ s.authorized_clients # Allow(Keys3) => pc[OldClient] = "done"
  /\ pc[NewClient] = "done"

\* A file is owned by a command that was told to create it.
OwnTargets ==
  \A p \in Paths : owner[p] # "none" => Target[owner[p]] = p

\* The processes and their files, and with the keys the whole invariant.
DeployPart == Forms /\ FilesAhead /\ InStep /\ KeysThere
DeployInv == KeyInv /\ OwnTargets /\ DeployPart

USE PathsAssumption, CommandsAssumption, DeploymentAssumption

-----------------------------------------------------------------------------
(* The forms of a configuration.                                           *)

LEMMA Names ==
  /\ {OldServer, OldClient, NewClient} \subseteq Commands
  /\ {NewPath, Target[OldServer], Target[OldClient], Target[NewClient]} \subseteq Paths
  /\ Target[OldServer] # Target[OldClient] /\ Target[OldServer] # Target[NewClient]
  /\ Target[OldClient] # Target[NewClient]
  /\ NewPath \notin {Target[OldServer], Target[OldClient], Target[NewClient]}
  /\ OldServer \notin Reported /\ Reported \subseteq Commands
  /\ \A p \in Paths : ~IsBlank(p)
  /\ \A c \in Commands : decodes(c) /\ ~IsBlank(c)
BY DEF Reported, IsBlank, decodes, NotKeys

LEMMA PhasesDiffer ==
  /\ Ids1 # Ids2 /\ Ids1 # Ids3 /\ Ids2 # Ids3
  /\ Keys1 # Keys2 /\ Keys1 # Keys3 /\ Keys2 # Keys3
  /\ Len(Ids1) = 1 /\ Len(Ids2) = 2 /\ Len(Ids3) = 1
  /\ Len(Keys1) = 1 /\ Len(Keys2) = 2 /\ Len(Keys3) = 1
BY Names DEF Ids1, Ids2, Ids3, Keys1, Keys2, Keys3

\* The allow-list of a phase admits the keys of the phase.
LEMMA AllowView ==
  /\ Allow(Keys1) # Allow(Keys2) /\ Allow(Keys1) # Allow(Keys3)
  /\ Allow(Keys2) # Allow(Keys3)
  /\ \A keys \in KeyPhases :
       /\ Len(Allow(keys)) = Len(keys) /\ Len(keys) \in 1 .. 2
       /\ \A i \in 1 .. Len(keys) :
            Allow(keys)[i].public_key = keys[i] /\ Allow(keys)[i].name = "laptop"
            /\ keys[i] \in {OldClient, NewClient}
<1>1. \A keys \in KeyPhases : Len(keys) \in 1 .. 2 /\ \A i \in 1 .. Len(keys) :
         keys[i] \in {OldClient, NewClient}
  BY DEF KeyPhases, Keys1, Keys2, Keys3
<1>2. \A keys \in KeyPhases :
        /\ Len(Allow(keys)) = Len(keys)
        /\ \A i \in 1 .. Len(keys) :
             Allow(keys)[i].public_key = keys[i] /\ Allow(keys)[i].name = "laptop"
  BY <1>1 DEF Allow
<1>3. Allow(Keys1) # Allow(Keys2) /\ Allow(Keys2) # Allow(Keys3)
  BY <1>2, PhasesDiffer DEF KeyPhases
<1>4. Allow(Keys1)[1].public_key = OldClient /\ Allow(Keys3)[1].public_key = NewClient
  <2>1. Keys1 \in KeyPhases /\ Keys3 \in KeyPhases
    BY DEF KeyPhases
  <2>2. Keys1[1] = OldClient /\ Keys3[1] = NewClient
    BY DEF Keys1, Keys3
  <2>3. 1 \in 1 .. Len(Keys1) /\ 1 \in 1 .. Len(Keys3)
    BY PhasesDiffer
  <2> QED BY <1>2, <2>1, <2>2, <2>3
<1> QED BY <1>1, <1>2, <1>3, <1>4, Names

\* The fields of a client's configuration file.
LEMMA ClientView ==
  ASSUME NEW a, NEW b
  PROVE  /\ ClientToml(a, b).private_key_file = a
         /\ ClientToml(a, b).server_public_key = b
         /\ ClientFromToml(ClientToml(a, b)).private_key_file = a
         /\ ClientFromToml(ClientToml(a, b)).server_public_key = b
BY DEF ClientToml, ClientFromToml, Default

\* The identities of a phase are the ones from_toml loads.
LEMMA PhaseIdentities ==
  ASSUME NEW ids \in IdPhases
  PROVE  /\ <<Head(ids)>> \o Tail(ids) = ids
         /\ Len(Tail(ids)) \in 0 .. 1 /\ Len(ids) \in 1 .. 2
         /\ \A i \in 1 .. Len(ids) : ids[i] \in {Target[OldServer], NewPath}
         /\ \A i, j \in 1 .. Len(ids) : ids[i] = ids[j] => i = j
<1>1. CASE ids = Ids1
  BY <1>1 DEF Ids1
<1>2. CASE ids = Ids2
  <2>1. /\ Head(ids) = Target[OldServer] /\ Tail(ids) = <<NewPath>> /\ Len(ids) = 2
        /\ ids[1] = Target[OldServer] /\ ids[2] = NewPath
    BY <1>2 DEF Ids2
  <2>2. <<Head(ids)>> \o Tail(ids) = ids
    <3> DEFINE a == Target[OldServer]
    <3>1. /\ <<a>> \in Seq({a, NewPath})
          /\ Append(<<a>>, NewPath) = <<a, NewPath>>
      <4>1. \A x, y : <<x>> \in Seq({x, y})
        OBVIOUS
      <4>2. ASSUME NEW x, NEW y
            PROVE  Append(<<x>>, y) = <<x, y>>
        <5> DEFINE u == Append(<<x>>, y)
                   v == <<x, y>>
        <5>1. u \in Seq({x, y}) /\ v \in Seq({x, y})
          BY AppendProperties
        <5>2. /\ Len(u) = 2 /\ Len(v) = 2
              /\ u[1] = x /\ u[2] = y /\ v[1] = x /\ v[2] = y
          OBVIOUS
        <5> HIDE DEF u, v
        <5>3. Len(u) = Len(v) /\ \A i \in 1 .. Len(u) : u[i] = v[i]
          BY ONLY <5>2
        <5>4. u = v
          BY ONLY <5>1, <5>3, SeqEqual
        <5> QED BY <5>4 DEF u, v
      <4> QED BY <4>1, <4>2, Zenon
    <3>2. Append(<<a>>, NewPath) = <<a>> \o <<NewPath>>
      BY <3>1, AppendIsConcat
    <3> QED BY <1>2, <2>1, <3>1, <3>2, Zenon DEF Ids2
  <2>3. Len(Tail(ids)) = 1
    BY <2>1
  <2> QED BY <2>1, <2>2, <2>3, Names
<1>3. CASE ids = Ids3
  BY <1>3 DEF Ids3
<1> QED BY <1>1, <1>2, <1>3 DEF IdPhases

LEMMA ServerView ==
  ASSUME NEW ids \in IdPhases, NEW keys \in KeyPhases
  PROVE  /\ IdentityFiles(ServerFile(ids, keys)) = ids
         /\ IdentityFiles(ServerFromToml(ServerFile(ids, keys))) = ids
         /\ ServerFile(ids, keys).authorized_clients = Allow(keys)
         /\ ServerFromToml(ServerFile(ids, keys)).authorized_clients = Allow(keys)
         /\ ServerFromToml(ServerFile(ids, keys)).tls_enabled = FALSE
         /\ ServerValidate(ServerFromToml(ServerFile(ids, keys)))
<1> DEFINE t == ServerFile(ids, keys)
           s == ServerFromToml(t)
<1>1. /\ t.private_key_file = Head(ids) /\ s.private_key_file = Head(ids)
      /\ t.additional_private_key_files = Tail(ids)
      /\ s.additional_private_key_files = Tail(ids)
      /\ t.authorized_clients = Allow(keys) /\ s.authorized_clients = Allow(keys)
      /\ s.destination = "loopback" /\ s.tls_enabled = FALSE
      /\ s.max_connections = 32 /\ s.max_plaintext_record_bytes = 16384
      /\ s.destination_connect_seconds = 10 /\ s.handshake_seconds = 10
      /\ s.idle_seconds = 600
  BY DEF ServerFile, ServerToml, ServerFromToml, Default, PlaintextRecordBytes
<1> HIDE DEF t, s
<1>2. IdentityFiles(t) = ids /\ IdentityFiles(s) = ids
  <2>1. <<Head(ids)>> \o Tail(ids) = ids
    BY PhaseIdentities
  <2> QED BY ONLY <1>1, <2>1 DEF IdentityFiles
<1>3. ServerValidate(s)
  <2>1. \A i \in 1 .. Len(IdentityFiles(s)) : ~IsBlank(IdentityFiles(s)[i])
    <3>1. \A i \in 1 .. Len(ids) : ids[i] \in {Target[OldServer], NewPath}
      BY PhaseIdentities
    <3>2. ~IsBlank(Target[OldServer]) /\ ~IsBlank(NewPath)
      BY Names
    <3> QED BY ONLY <1>2, <3>1, <3>2
  <2>2. Distinct(IdentityFiles(s))
    BY <1>2, PhaseIdentities DEF Distinct
  <2>3. IdentityCountInBounds(s)
    <3>1. Len(Tail(ids)) \in 0 .. 1
      BY PhaseIdentities
    <3>2. Len(s.additional_private_key_files) \in 0 .. 1
      <4>1. s.additional_private_key_files = Tail(ids)
        BY ONLY <1>1
      <4> QED BY ONLY <3>1, <4>1
    <3>3. \A n \in 0 .. 1 : 1 + n <= 8
      OBVIOUS
    <3> QED BY ONLY <3>2, <3>3, Zenon DEF IdentityCountInBounds, MAX_SERVER_STATIC_IDENTITIES
  <2>4. s.authorized_clients # <<>>
    <3>1. Len(Allow(keys)) \in 1 .. 2
      BY AllowView
    <3>2. Len(<<>>) = 0
      OBVIOUS
    <3>3. Allow(keys) # <<>>
      BY ONLY <3>1, <3>2
    <3> QED BY ONLY <1>1, <3>3
  <2>5. \A i \in 1 .. Len(s.authorized_clients) :
          ~IsBlank(s.authorized_clients[i].name)
          /\ ~IsBlank(s.authorized_clients[i].public_key)
    BY <1>1, AllowView, Names DEF IsBlank
  <2> QED BY <1>1, <2>1, <2>2, <2>3, <2>4, <2>5
          DEF ServerValidate, MAX_CONCURRENT_CONNECTIONS, PlaintextRecordBytes
<1> QED BY <1>1, <1>2, <1>3 DEF t, s

\* What a phase's server admits.
LEMMA AdmittedKeys ==
  ASSUME NEW s, NEW keys \in KeyPhases, s.authorized_clients = Allow(keys)
  PROVE  /\ OldClient \in authorized_keys(s) <=> keys # Keys3
         /\ NewClient \in authorized_keys(s) <=> keys # Keys1
         /\ authorized_keys(s) = {OldClient} <=> keys = Keys1
         /\ authorized_keys(s) = {NewClient} <=> keys = Keys3
<1>1. authorized_keys(s) = {keys[i] : i \in 1 .. Len(keys)}
  BY AllowView DEF authorized_keys
<1>2. CASE keys = Keys1
  <2>1. authorized_keys(s) = {OldClient}
    BY <1>1, <1>2 DEF Keys1
  <2> QED BY <1>2, <2>1, Names, PhasesDiffer
<1>3. CASE keys = Keys2
  <2>1. authorized_keys(s) = {OldClient, NewClient}
    BY <1>1, <1>3 DEF Keys2
  <2> QED BY <1>3, <2>1, Names, PhasesDiffer
<1>4. CASE keys = Keys3
  <2>1. authorized_keys(s) = {NewClient}
    BY <1>1, <1>4 DEF Keys3
  <2> QED BY <1>4, <2>1, Names, PhasesDiffer
<1> QED BY <1>2, <1>3, <1>4 DEF KeyPhases

\* The parts of a configuration that the invariant speaks of.
LEMMA StateView ==
  ASSUME Forms
  PROVE  /\ \A s \in Servers \cup {server_toml} :
              /\ IdentityFiles(s) \in IdPhases
              /\ \E keys \in KeyPhases : s.authorized_clients = Allow(keys)
         /\ IdentityFiles(ServerFromToml(server_toml)) = IdentityFiles(server_toml)
         /\ ServerFromToml(server_toml).authorized_clients = server_toml.authorized_clients
         /\ \A c \in Clients \cup {client_toml} :
              /\ c.private_key_file \in {Target[OldClient], Target[NewClient]}
              /\ c.server_public_key \in {OldServer} \cup Reported
         /\ ClientFromToml(client_toml).private_key_file = client_toml.private_key_file
         /\ ClientFromToml(client_toml).server_public_key = client_toml.server_public_key
<1> DEFINE Roots == {Target[OldClient], Target[NewClient]}
           Pins == {OldServer} \cup Reported
<1>3. PICK ids \in IdPhases, keys \in KeyPhases : server_toml = ServerFile(ids, keys)
  BY Zenon DEF Forms
<1>4. PICK path \in Roots, pin \in Pins : client_toml = ClientToml(path, pin)
  BY Zenon DEF Forms
<1>5. /\ IdentityFiles(server_toml) = ids /\ IdentityFiles(ServerFromToml(server_toml)) = ids
      /\ server_toml.authorized_clients = Allow(keys)
      /\ ServerFromToml(server_toml).authorized_clients = Allow(keys)
  BY <1>3, ServerView, ZenonT(30)
<1>6. /\ client_toml.private_key_file = path /\ client_toml.server_public_key = pin
      /\ ClientFromToml(client_toml).private_key_file = path
      /\ ClientFromToml(client_toml).server_public_key = pin
  BY <1>4, ClientView
<1>7. ASSUME NEW s \in server
      PROVE  /\ IdentityFiles(s) \in IdPhases
             /\ \E k \in KeyPhases : s.authorized_clients = Allow(k)
  <2>1. PICK i \in IdPhases, k \in KeyPhases : s = ServerFromToml(ServerFile(i, k))
    BY Zenon DEF Forms
  <2> QED BY <2>1, ServerView, ZenonT(30)
<1>8. ASSUME NEW c \in client
      PROVE  c.private_key_file \in Roots /\ c.server_public_key \in Pins
  <2>1. PICK a \in Roots, b \in Pins : c = ClientFromToml(ClientToml(a, b))
    BY Zenon DEF Forms
  <2>2. c.private_key_file = a /\ c.server_public_key = b
    BY <2>1, ClientView
  <2> QED BY <2>2
<1> QED BY <1>5, <1>6, <1>7, <1>8, Zenon DEF Servers, Clients

-----------------------------------------------------------------------------
(* Steps of the processes: what runs stays, ends, or is loaded again.      *)

LEMMA ProcessStep ==
  ASSUME DeployPart, UNCHANGED <<server_toml, client_toml>>,
         server' \subseteq Servers, AtMostOne(server'),
         client' \subseteq Clients, AtMostOne(client'),
         \A c \in Commands : pc[c] = "done" => pc'[c] = "done"
  PROVE  DeployPart'
<1>1. Reported \subseteq Reported'
  BY DEF Reported
<1>2. Servers' \subseteq Servers /\ Clients' \subseteq Clients
  BY DEF Servers, Clients
<1>3. Forms'
  <2>1. \E ids \in IdPhases, keys \in KeyPhases : server_toml' = ServerFile(ids, keys)
    BY DEF DeployPart, Forms
  <2>2. \A s \in Servers : \E ids \in IdPhases, keys \in KeyPhases :
          s = ServerFromToml(ServerFile(ids, keys))
    BY Zenon DEF DeployPart, Forms, Servers
  <2>3. \E path \in {Target[OldClient], Target[NewClient]}, pin \in {OldServer} \cup Reported :
          client_toml' = ClientToml(path, pin)
    BY DEF DeployPart, Forms
  <2>4. \A c \in Clients :
          \E path \in {Target[OldClient], Target[NewClient]}, pin \in {OldServer} \cup Reported :
            c = ClientFromToml(ClientToml(path, pin))
    BY Zenon DEF DeployPart, Forms, Clients
  <2>5. {OldServer} \cup Reported \subseteq {OldServer} \cup Reported'
    BY <1>1
  <2>6. \E path \in {Target[OldClient], Target[NewClient]}, pin \in {OldServer} \cup Reported' :
          client_toml' = ClientToml(path, pin)
    BY <2>3, <2>5, Zenon
  <2>7. \A s \in server' : \E ids \in IdPhases, keys \in KeyPhases :
          s = ServerFromToml(ServerFile(ids, keys))
    BY <2>2, Zenon
  <2>8. \A c \in client' :
          \E path \in {Target[OldClient], Target[NewClient]}, pin \in {OldServer} \cup Reported' :
            c = ClientFromToml(ClientToml(path, pin))
    BY <2>4, <2>5, Zenon
  <2>9. AtMostOne(server)' /\ AtMostOne(client)'
    BY DEF AtMostOne
  <2> QED BY <2>1, <2>6, <2>7, <2>8, <2>9, Zenon DEF Forms
<1>4. FilesAhead'
  <2>1. \A s \in server' : s \in server \/ s = ServerFromToml(server_toml)
    BY DEF Servers
  <2>2. \A c \in client' : c \in client \/ c = ClientFromToml(client_toml)
    BY DEF Clients
  <2>3. Forms
    BY DEF DeployPart
  <2> QED BY <2>1, <2>2, <2>3, StateView DEF DeployPart, FilesAhead
<1>5. InStep'
  BY <1>2 DEF DeployPart, InStep
<1>6. KeysThere'
  BY <1>1, <1>2, Names DEF DeployPart, KeysThere
<1> QED BY <1>3, <1>4, <1>5, <1>6 DEF DeployPart

-----------------------------------------------------------------------------
(* Steps of the runbooks: a file is edited, one phase further.             *)

LEMMA ServerEdit ==
  ASSUME DeployPart, UNCHANGED <<keyvars, client_toml, server, client>>,
         NEW ids \in IdPhases, NEW keys \in KeyPhases,
         server_toml' = ServerFile(ids, keys),
         IdentityFiles(server_toml) # Ids1 => ids # Ids1,
         IdentityFiles(server_toml) = Ids3 => ids = Ids3,
         server_toml.authorized_clients # Allow(Keys1) => Allow(keys) # Allow(Keys1),
         server_toml.authorized_clients = Allow(Keys3) => Allow(keys) = Allow(Keys3),
         ids = Ids3 => \A c \in Clients : c.server_public_key # OldServer,
         Allow(keys) = Allow(Keys3) =>
           \A c \in Clients : c.private_key_file = Target[NewClient],
         ids # Ids1 => Reported # {}
  PROVE  DeployPart'
<1> DEFINE S == ServerFromToml(server_toml')
<1>1. /\ IdentityFiles(server_toml') = ids /\ IdentityFiles(S) = ids
      /\ server_toml'.authorized_clients = Allow(keys) /\ S.authorized_clients = Allow(keys)
  BY ServerView, ZenonT(30)
<1> HIDE DEF S
<1>2. Servers' = server \cup {S} /\ Clients' = Clients /\ Reported' = Reported /\ pc' = pc
  BY DEF Servers, Clients, S, Reported, keyvars
<1>3. Forms'
  BY <1>2, Zenon DEF DeployPart, Forms, AtMostOne
<1>4. FilesAhead'
  BY <1>1 DEF DeployPart, FilesAhead
<1>5. /\ IdentityFiles(ServerFromToml(server_toml)) = IdentityFiles(server_toml)
      /\ ServerFromToml(server_toml).authorized_clients = server_toml.authorized_clients
      /\ ServerFromToml(server_toml) \in Servers
  BY StateView DEF DeployPart, Servers
<1>6. InStep'
  <2> SUFFICES ASSUME NEW s \in Servers', NEW c \in Clients
               PROVE  /\ c.server_public_key # OldServer => IdentityFiles(s) # Ids1
                      /\ IdentityFiles(s) = Ids3 => c.server_public_key # OldServer
                      /\ c.private_key_file = Target[NewClient] =>
                           s.authorized_clients # Allow(Keys1)
                      /\ s.authorized_clients = Allow(Keys3) =>
                           c.private_key_file = Target[NewClient]
    BY <1>2 DEF InStep
  <2>1. CASE s \in server
    BY <2>1 DEF DeployPart, InStep, Servers
  <2>2. CASE s = S
    BY <1>1, <1>5, <2>2 DEF DeployPart, InStep
  <2> QED BY <1>2, <2>1, <2>2
<1>7. KeysThere'
  <2> SUFFICES ASSUME NEW s \in Servers'
               PROVE  /\ IdentityFiles(s) # Ids1 => Reported # {}
                      /\ IdentityFiles(s) # Ids3 => pc[OldServer] = "done"
                      /\ s.authorized_clients # Allow(Keys3) => pc[OldClient] = "done"
    BY <1>2 DEF DeployPart, KeysThere
  <2>1. CASE s \in server
    BY <2>1 DEF DeployPart, KeysThere, Servers
  <2>2. CASE s = S
    BY <1>1, <1>5, <2>2 DEF DeployPart, KeysThere
  <2> QED BY <1>2, <2>1, <2>2
<1> QED BY <1>3, <1>4, <1>6, <1>7 DEF DeployPart

LEMMA ClientEdit ==
  ASSUME DeployPart, UNCHANGED <<keyvars, server_toml, server, client>>,
         NEW path \in {Target[OldClient], Target[NewClient]},
         NEW pin \in {OldServer} \cup Reported,
         client_toml' = ClientToml(path, pin),
         client_toml.server_public_key # OldServer => pin # OldServer,
         client_toml.private_key_file = Target[NewClient] => path = Target[NewClient],
         pin # OldServer => \A s \in Servers : IdentityFiles(s) # Ids1,
         path = Target[NewClient] => \A s \in Servers : s.authorized_clients # Allow(Keys1)
  PROVE  DeployPart'
<1> DEFINE C == ClientFromToml(client_toml')
<1>1. /\ client_toml'.private_key_file = path /\ client_toml'.server_public_key = pin
      /\ C.private_key_file = path /\ C.server_public_key = pin
  <2>1. client_toml' = ClientToml(path, pin)
    OBVIOUS
  <2> QED BY ONLY <2>1, ClientView, ZenonT(30) DEF C
<1> HIDE DEF C
<1>2. Clients' = client \cup {C} /\ Servers' = Servers /\ Reported' = Reported /\ pc' = pc
  BY DEF Servers, Clients, C, Reported, keyvars
<1>3. Forms'
  BY <1>2, Zenon DEF DeployPart, Forms, AtMostOne
<1>4. FilesAhead'
  BY <1>1 DEF DeployPart, FilesAhead
<1>5. /\ ClientFromToml(client_toml).private_key_file = client_toml.private_key_file
      /\ ClientFromToml(client_toml).server_public_key = client_toml.server_public_key
      /\ ClientFromToml(client_toml) \in Clients
  BY StateView DEF DeployPart, Clients
<1>6. InStep'
  <2> SUFFICES ASSUME NEW s \in Servers, NEW c \in Clients'
               PROVE  /\ c.server_public_key # OldServer => IdentityFiles(s) # Ids1
                      /\ IdentityFiles(s) = Ids3 => c.server_public_key # OldServer
                      /\ c.private_key_file = Target[NewClient] =>
                           s.authorized_clients # Allow(Keys1)
                      /\ s.authorized_clients = Allow(Keys3) =>
                           c.private_key_file = Target[NewClient]
    BY <1>2 DEF InStep
  <2>1. CASE c \in client
    BY <2>1 DEF DeployPart, InStep, Clients
  <2>2. CASE c = C
    BY <1>1, <1>5, <2>2 DEF DeployPart, InStep
  <2> QED BY <1>2, <2>1, <2>2
<1>7. KeysThere'
  BY <1>2 DEF DeployPart, KeysThere
<1> QED BY <1>3, <1>4, <1>6, <1>7 DEF DeployPart

ServerFields == {"role", "destination", "authorized_clients", "private_key_file",
   "additional_private_key_files", "max_connections",
   "max_plaintext_record_bytes", "tls_enabled", "certificate_file",
   "tls_private_key_file", "destination_connect_seconds",
   "handshake_seconds", "idle_seconds"}
ClientFields == {"role", "listen", "remote", "private_key_file", "server_public_key",
   "tls_enabled", "server_name", "additional_ca_file", "max_connections",
   "connect_seconds", "handshake_seconds", "idle_seconds"}

\* The edits of the runbooks lead from one form to the next.
LEMMA AddedForm ==
  ASSUME NEW b
  PROVE  [ServerToml(Ids1, b) EXCEPT !.additional_private_key_files = <<NewPath>>]
           = ServerToml(Ids2, b)
<1> DEFINE x == [ServerToml(Ids1, b) EXCEPT !.additional_private_key_files = <<NewPath>>]
           y == ServerToml(Ids2, b)
           D == ServerFields
<1>0. /\ Head(Ids1) = Target[OldServer] /\ Tail(Ids1) = <<>>
      /\ Head(Ids2) = Target[OldServer] /\ Tail(Ids2) = <<NewPath>>
      /\ Head(Ids3) = NewPath /\ Tail(Ids3) = <<>>
  BY DEF Ids1, Ids2, Ids3
<1>1. DOMAIN x = D /\ DOMAIN y = D
  BY DEF ServerToml, ServerFields
<1>2. x = [f \in D |-> x[f]] /\ y = [f \in D |-> y[f]]
  BY <1>1 DEF ServerToml, ServerFields
<1>3. \A f \in D : x[f] = y[f]
  <2>1. /\ x.role = y.role /\ x.destination = y.destination
        /\ x.authorized_clients = y.authorized_clients
        /\ x.private_key_file = y.private_key_file
        /\ x.additional_private_key_files = y.additional_private_key_files
        /\ x.max_connections = y.max_connections
        /\ x.max_plaintext_record_bytes = y.max_plaintext_record_bytes
        /\ x.tls_enabled = y.tls_enabled
        /\ x.certificate_file = y.certificate_file
        /\ x.tls_private_key_file = y.tls_private_key_file
        /\ x.destination_connect_seconds = y.destination_connect_seconds
        /\ x.handshake_seconds = y.handshake_seconds
        /\ x.idle_seconds = y.idle_seconds
    BY <1>0 DEF ServerToml
  <2> QED BY <2>1 DEF ServerFields
<1> HIDE DEF x, y
<1>4. x = y
  BY ONLY <1>2, <1>3
<1> QED BY <1>4 DEF x, y

LEMMA RetiredForm ==
  ASSUME NEW b
  PROVE  [ServerToml(Ids2, b) EXCEPT !.private_key_file = NewPath,
                                      !.additional_private_key_files = <<>>]
           = ServerToml(Ids3, b)
<1> DEFINE x == [ServerToml(Ids2, b) EXCEPT !.private_key_file = NewPath,
                                      !.additional_private_key_files = <<>>]
           y == ServerToml(Ids3, b)
           D == ServerFields
<1>0. /\ Head(Ids1) = Target[OldServer] /\ Tail(Ids1) = <<>>
      /\ Head(Ids2) = Target[OldServer] /\ Tail(Ids2) = <<NewPath>>
      /\ Head(Ids3) = NewPath /\ Tail(Ids3) = <<>>
  BY DEF Ids1, Ids2, Ids3
<1>1. DOMAIN x = D /\ DOMAIN y = D
  BY DEF ServerToml, ServerFields
<1>2. x = [f \in D |-> x[f]] /\ y = [f \in D |-> y[f]]
  BY <1>1 DEF ServerToml, ServerFields
<1>3. \A f \in D : x[f] = y[f]
  <2>1. /\ x.role = y.role /\ x.destination = y.destination
        /\ x.authorized_clients = y.authorized_clients
        /\ x.private_key_file = y.private_key_file
        /\ x.additional_private_key_files = y.additional_private_key_files
        /\ x.max_connections = y.max_connections
        /\ x.max_plaintext_record_bytes = y.max_plaintext_record_bytes
        /\ x.tls_enabled = y.tls_enabled
        /\ x.certificate_file = y.certificate_file
        /\ x.tls_private_key_file = y.tls_private_key_file
        /\ x.destination_connect_seconds = y.destination_connect_seconds
        /\ x.handshake_seconds = y.handshake_seconds
        /\ x.idle_seconds = y.idle_seconds
    BY <1>0 DEF ServerToml
  <2> QED BY <2>1 DEF ServerFields
<1> HIDE DEF x, y
<1>4. x = y
  BY ONLY <1>2, <1>3
<1> QED BY <1>4 DEF x, y

LEMMA AllowedForm ==
  ASSUME NEW a, NEW b, NEW k
  PROVE  [ServerToml(a, b) EXCEPT !.authorized_clients = k]
           = ServerToml(a, k)
<1> DEFINE x == [ServerToml(a, b) EXCEPT !.authorized_clients = k]
           y == ServerToml(a, k)
           D == ServerFields
<1>1. DOMAIN x = D /\ DOMAIN y = D
  BY DEF ServerToml, ServerFields
<1>2. x = [f \in D |-> x[f]] /\ y = [f \in D |-> y[f]]
  BY <1>1 DEF ServerToml, ServerFields
<1>3. \A f \in D : x[f] = y[f]
  <2>1. /\ x.role = y.role /\ x.destination = y.destination
        /\ x.authorized_clients = y.authorized_clients
        /\ x.private_key_file = y.private_key_file
        /\ x.additional_private_key_files = y.additional_private_key_files
        /\ x.max_connections = y.max_connections
        /\ x.max_plaintext_record_bytes = y.max_plaintext_record_bytes
        /\ x.tls_enabled = y.tls_enabled
        /\ x.certificate_file = y.certificate_file
        /\ x.tls_private_key_file = y.tls_private_key_file
        /\ x.destination_connect_seconds = y.destination_connect_seconds
        /\ x.handshake_seconds = y.handshake_seconds
        /\ x.idle_seconds = y.idle_seconds
    BY DEF ServerToml
  <2> QED BY <2>1 DEF ServerFields
<1> HIDE DEF x, y
<1>4. x = y
  BY ONLY <1>2, <1>3
<1> QED BY <1>4 DEF x, y

LEMMA PinnedForm ==
  ASSUME NEW a, NEW b, NEW k
  PROVE  [ClientToml(a, b) EXCEPT !.server_public_key = k]
           = ClientToml(a, k)
<1> DEFINE x == [ClientToml(a, b) EXCEPT !.server_public_key = k]
           y == ClientToml(a, k)
           D == ClientFields
<1>1. DOMAIN x = D /\ DOMAIN y = D
  BY DEF ClientToml, ClientFields
<1>2. x = [f \in D |-> x[f]] /\ y = [f \in D |-> y[f]]
  BY <1>1 DEF ClientToml, ClientFields
<1>3. \A f \in D : x[f] = y[f]
  <2>1. /\ x.role = y.role /\ x.listen = y.listen /\ x.remote = y.remote
        /\ x.private_key_file = y.private_key_file
        /\ x.server_public_key = y.server_public_key
        /\ x.tls_enabled = y.tls_enabled /\ x.server_name = y.server_name
        /\ x.additional_ca_file = y.additional_ca_file
        /\ x.max_connections = y.max_connections
        /\ x.connect_seconds = y.connect_seconds
        /\ x.handshake_seconds = y.handshake_seconds
        /\ x.idle_seconds = y.idle_seconds
    BY DEF ClientToml
  <2> QED BY <2>1 DEF ClientFields
<1> HIDE DEF x, y
<1>4. x = y
  BY ONLY <1>2, <1>3
<1> QED BY <1>4 DEF x, y

LEMMA RekeyedForm ==
  ASSUME NEW a, NEW b, NEW k
  PROVE  [ClientToml(a, b) EXCEPT !.private_key_file = k]
           = ClientToml(k, b)
<1> DEFINE x == [ClientToml(a, b) EXCEPT !.private_key_file = k]
           y == ClientToml(k, b)
           D == ClientFields
<1>1. DOMAIN x = D /\ DOMAIN y = D
  BY DEF ClientToml, ClientFields
<1>2. x = [f \in D |-> x[f]] /\ y = [f \in D |-> y[f]]
  BY <1>1 DEF ClientToml, ClientFields
<1>3. \A f \in D : x[f] = y[f]
  <2>1. /\ x.role = y.role /\ x.listen = y.listen /\ x.remote = y.remote
        /\ x.private_key_file = y.private_key_file
        /\ x.server_public_key = y.server_public_key
        /\ x.tls_enabled = y.tls_enabled /\ x.server_name = y.server_name
        /\ x.additional_ca_file = y.additional_ca_file
        /\ x.max_connections = y.max_connections
        /\ x.connect_seconds = y.connect_seconds
        /\ x.handshake_seconds = y.handshake_seconds
        /\ x.idle_seconds = y.idle_seconds
    BY DEF ClientToml
  <2> QED BY <2>1 DEF ClientFields
<1> HIDE DEF x, y
<1>4. x = y
  BY ONLY <1>2, <1>3
<1> QED BY <1>4 DEF x, y

\* The one server that runs has an identity; so has its file, at least.
LEMMA RunningServer ==
  ASSUME DeployPart, NEW s \in server
  PROVE  /\ IdentityFiles(s) # Ids1 => \A t \in Servers : IdentityFiles(t) # Ids1
         /\ IdentityFiles(s) = Ids3 => \A t \in Servers : IdentityFiles(t) = Ids3
         /\ s.authorized_clients # Allow(Keys1) =>
              \A t \in Servers : t.authorized_clients # Allow(Keys1)
         /\ s.authorized_clients = Allow(Keys3) =>
              \A t \in Servers : t.authorized_clients = Allow(Keys3)
<1>1. /\ IdentityFiles(ServerFromToml(server_toml)) = IdentityFiles(server_toml)
      /\ ServerFromToml(server_toml).authorized_clients = server_toml.authorized_clients
  BY StateView DEF DeployPart
<1>2. \A t \in Servers : t = s \/ t = ServerFromToml(server_toml)
  BY DEF Servers, DeployPart, Forms, AtMostOne
<1> QED BY <1>1, <1>2 DEF DeployPart, FilesAhead

LEMMA RunningClient ==
  ASSUME DeployPart, NEW c \in client
  PROVE  /\ c.server_public_key # OldServer =>
              \A d \in Clients : d.server_public_key # OldServer
         /\ c.private_key_file = Target[NewClient] =>
              \A d \in Clients : d.private_key_file = Target[NewClient]
<1>1. /\ ClientFromToml(client_toml).private_key_file = client_toml.private_key_file
      /\ ClientFromToml(client_toml).server_public_key = client_toml.server_public_key
  BY StateView DEF DeployPart
<1>2. \A d \in Clients : d = c \/ d = ClientFromToml(client_toml)
  BY DEF Clients, DeployPart, Forms, AtMostOne
<1> QED BY <1>1, <1>2 DEF DeployPart, FilesAhead

\* A file of the server has exactly one form.
LEMMA ServerFileForm ==
  ASSUME DeployPart
  PROVE  \E ids \in IdPhases, keys \in KeyPhases :
           /\ server_toml = ServerToml(ids, Allow(keys))
           /\ IdentityFiles(server_toml) = ids
           /\ server_toml.authorized_clients = Allow(keys)
<1>1. PICK ids \in IdPhases, keys \in KeyPhases : server_toml = ServerFile(ids, keys)
  BY Zenon DEF DeployPart, Forms
<1>2. IdentityFiles(server_toml) = ids /\ server_toml.authorized_clients = Allow(keys)
  BY <1>1, ServerView
<1>3. server_toml = ServerToml(ids, Allow(keys))
  BY <1>1 DEF ServerFile
<1> QED BY <1>2, <1>3, Zenon

\* The server's file admits the old client until no client uses its key.
LEMMA FileKeys ==
  ASSUME DeployPart
  PROVE  server_toml.authorized_clients = Allow(Keys3) =>
           \A c \in Clients : c.private_key_file = Target[NewClient]
<1>1. /\ ServerFromToml(server_toml).authorized_clients = server_toml.authorized_clients
      /\ ServerFromToml(server_toml) \in Servers
  BY StateView DEF DeployPart, Servers
<1> QED BY <1>1 DEF DeployPart, InStep

LEMMA AddIdentityStep ==
  ASSUME DeployPart, AddIdentity
  PROVE  DeployPart'
<1>1. PICK ids \in IdPhases, keys \in KeyPhases :
        /\ server_toml = ServerToml(ids, Allow(keys))
        /\ IdentityFiles(server_toml) = ids
        /\ server_toml.authorized_clients = Allow(keys)
  BY ServerFileForm, ZenonT(30)
<1>2. /\ Reported # {} /\ ids = Ids1
      /\ server_toml' = [server_toml EXCEPT !.additional_private_key_files = <<NewPath>>]
      /\ UNCHANGED <<keyvars, client_toml, server, client>>
  BY <1>1 DEF AddIdentity, Ids1
<1>3. server_toml' = ServerFile(Ids2, keys)
  BY <1>1, <1>2, AddedForm DEF ServerFile
<1>4. Ids2 \in IdPhases /\ Ids2 # Ids1 /\ Ids2 # Ids3 /\ Ids1 # Ids3
  BY PhasesDiffer DEF IdPhases
<1>5. server_toml.authorized_clients # Allow(Keys1) => Allow(keys) # Allow(Keys1)
  BY <1>1
<1>6. server_toml.authorized_clients = Allow(Keys3) => Allow(keys) = Allow(Keys3)
  BY <1>1
<1>7. Allow(keys) = Allow(Keys3) => \A c \in Clients : c.private_key_file = Target[NewClient]
  BY <1>1, FileKeys
<1>8. IdentityFiles(server_toml) = Ids1
  BY <1>1, <1>2
<1> QED BY <1>2, <1>3, <1>4, <1>5, <1>6, <1>7, <1>8, ServerEdit

LEMMA RetireIdentityStep ==
  ASSUME DeployPart, RetireIdentity
  PROVE  DeployPart'
<1>1. PICK ids \in IdPhases, keys \in KeyPhases :
        /\ server_toml = ServerToml(ids, Allow(keys))
        /\ IdentityFiles(server_toml) = ids
        /\ server_toml.authorized_clients = Allow(keys)
  BY ServerFileForm, ZenonT(30)
<1>2. /\ Len(ids) = 2
      /\ server_toml' = [server_toml EXCEPT !.private_key_file = NewPath,
                                            !.additional_private_key_files = <<>>]
      /\ UNCHANGED <<keyvars, client_toml, server, client>>
  BY <1>1 DEF RetireIdentity
<1>3. ids = Ids2
  BY <1>2, PhasesDiffer DEF IdPhases
<1>4. server_toml' = ServerFile(Ids3, keys)
  BY <1>1, <1>2, <1>3, RetiredForm DEF ServerFile
<1>5. Ids3 \in IdPhases /\ Ids3 # Ids1
  BY PhasesDiffer DEF IdPhases
<1>6. PICK c \in client : c.server_public_key \in Reported
  BY DEF RetireIdentity, ClientRuns
<1>7. Reported # {} /\ \A d \in Clients : d.server_public_key # OldServer
  BY <1>6, RunningClient, Names
<1>8. server_toml.authorized_clients # Allow(Keys1) => Allow(keys) # Allow(Keys1)
  BY <1>1
<1>9. server_toml.authorized_clients = Allow(Keys3) => Allow(keys) = Allow(Keys3)
  BY <1>1
<1>10. Allow(keys) = Allow(Keys3) => \A d \in Clients : d.private_key_file = Target[NewClient]
  BY <1>1, FileKeys
<1> QED BY <1>2, <1>4, <1>5, <1>7, <1>8, <1>9, <1>10, ServerEdit

LEMMA AllowNewClientStep ==
  ASSUME DeployPart, AllowNewClient
  PROVE  DeployPart'
<1>1. PICK ids \in IdPhases, keys \in KeyPhases :
        /\ server_toml = ServerToml(ids, Allow(keys))
        /\ IdentityFiles(server_toml) = ids
        /\ server_toml.authorized_clients = Allow(keys)
  BY ServerFileForm, ZenonT(30)
<1>2. /\ authorized_keys(server_toml) = {OldClient}
      /\ server_toml' = [server_toml EXCEPT !.authorized_clients = Allow(Keys2)]
      /\ UNCHANGED <<keyvars, client_toml, server, client>>
  BY DEF AllowNewClient, Keys2
<1>3. keys = Keys1
  BY <1>1, <1>2, AdmittedKeys
<1>4. server_toml' = ServerFile(ids, Keys2)
  BY <1>1, <1>2, AllowedForm DEF ServerFile
<1>5. Keys2 \in KeyPhases
  BY DEF KeyPhases
<1>6. Allow(Keys2) # Allow(Keys1) /\ Allow(Keys2) # Allow(Keys3) /\ Allow(Keys1) # Allow(Keys3)
  BY AllowView
<1>7. /\ ids = Ids3 => \A c \in Clients : c.server_public_key # OldServer
      /\ ids # Ids1 => Reported # {}
  <2>1. IdentityFiles(ServerFromToml(server_toml)) = ids
        /\ ServerFromToml(server_toml) \in Servers
    BY <1>1, StateView DEF DeployPart, Servers
  <2> QED BY <2>1 DEF DeployPart, InStep, KeysThere
<1> QED BY <1>1, <1>2, <1>3, <1>4, <1>5, <1>6, <1>7, ServerEdit

LEMMA RevokeOldClientStep ==
  ASSUME DeployPart, RevokeOldClient
  PROVE  DeployPart'
<1>1. PICK ids \in IdPhases, keys \in KeyPhases :
        /\ server_toml = ServerToml(ids, Allow(keys))
        /\ IdentityFiles(server_toml) = ids
        /\ server_toml.authorized_clients = Allow(keys)
  BY ServerFileForm, ZenonT(30)
<1>2. /\ server_toml' = [server_toml EXCEPT !.authorized_clients = Allow(Keys3)]
      /\ UNCHANGED <<keyvars, client_toml, server, client>>
  BY DEF RevokeOldClient, Keys3
<1>3. server_toml' = ServerFile(ids, Keys3)
  BY <1>1, <1>2, AllowedForm DEF ServerFile
<1>4. Keys3 \in KeyPhases
  BY DEF KeyPhases
<1>5. PICK c \in client : c.private_key_file = Target[NewClient]
  BY DEF RevokeOldClient, ClientRuns
<1>6. \A d \in Clients : d.private_key_file = Target[NewClient]
  BY <1>5, RunningClient
<1>7. /\ ids = Ids3 => \A d \in Clients : d.server_public_key # OldServer
      /\ ids # Ids1 => Reported # {}
  <2>1. IdentityFiles(ServerFromToml(server_toml)) = ids
        /\ ServerFromToml(server_toml) \in Servers
    BY <1>1, StateView DEF DeployPart, Servers
  <2> QED BY <2>1 DEF DeployPart, InStep, KeysThere
<1>8. Allow(Keys3) # Allow(Keys1)
  BY AllowView
<1> QED BY <1>1, <1>2, <1>3, <1>4, <1>6, <1>7, <1>8, ServerEdit

LEMMA ClientFileForm ==
  ASSUME DeployPart
  PROVE  \E path \in {Target[OldClient], Target[NewClient]}, pin \in {OldServer} \cup Reported :
           /\ client_toml = ClientToml(path, pin)
           /\ client_toml.private_key_file = path
           /\ client_toml.server_public_key = pin
           /\ pin # OldServer => \A s \in Servers : IdentityFiles(s) # Ids1
           /\ path = Target[NewClient] =>
                \A s \in Servers : s.authorized_clients # Allow(Keys1)
<1>1. PICK path \in {Target[OldClient], Target[NewClient]}, pin \in {OldServer} \cup Reported :
        client_toml = ClientToml(path, pin)
  BY Zenon DEF DeployPart, Forms
<1>2. client_toml.private_key_file = path /\ client_toml.server_public_key = pin
  BY <1>1, ClientView
<1>3. /\ ClientFromToml(client_toml).private_key_file = path
      /\ ClientFromToml(client_toml).server_public_key = pin
      /\ ClientFromToml(client_toml) \in Clients
  BY <1>2, StateView DEF DeployPart, Clients
<1>4. /\ pin # OldServer => \A s \in Servers : IdentityFiles(s) # Ids1
      /\ path = Target[NewClient] => \A s \in Servers : s.authorized_clients # Allow(Keys1)
  BY <1>3 DEF DeployPart, InStep
<1> QED BY <1>1, <1>2, <1>4, Zenon

LEMMA PinNewIdentityStep ==
  ASSUME DeployPart, PinNewIdentity
  PROVE  DeployPart'
<1>1. PICK path \in {Target[OldClient], Target[NewClient]}, pin \in {OldServer} \cup Reported :
        /\ client_toml = ClientToml(path, pin)
        /\ client_toml.private_key_file = path
        /\ client_toml.server_public_key = pin
        /\ path = Target[NewClient] => \A s \in Servers : s.authorized_clients # Allow(Keys1)
  BY ClientFileForm, ZenonT(30)
<1>2. UNCHANGED <<keyvars, server_toml, server, client>>
  BY DEF PinNewIdentity
<1>3. PICK b \in Reported : client_toml' = [client_toml EXCEPT !.server_public_key = b]
  BY DEF PinNewIdentity
<1>4. client_toml' = ClientToml(path, b)
  BY <1>1, <1>3, PinnedForm
<1>5. PICK s \in server : Len(IdentityFiles(s)) = 2
  BY DEF PinNewIdentity, ServerRuns
<1>6. \A t \in Servers : IdentityFiles(t) # Ids1
  BY <1>5, RunningServer, PhasesDiffer
<1>7. b \in {OldServer} \cup Reported /\ b # OldServer
  BY <1>3, Names
<1> QED BY <1>1, <1>2, <1>4, <1>6, <1>7, ClientEdit

LEMMA UseNewClientStep ==
  ASSUME DeployPart, UseNewClient
  PROVE  DeployPart'
<1>1. PICK path \in {Target[OldClient], Target[NewClient]}, pin \in {OldServer} \cup Reported :
        /\ client_toml = ClientToml(path, pin)
        /\ client_toml.private_key_file = path
        /\ client_toml.server_public_key = pin
        /\ pin # OldServer => \A s \in Servers : IdentityFiles(s) # Ids1
  BY ClientFileForm, ZenonT(30)
<1>2. UNCHANGED <<keyvars, server_toml, server, client>>
  BY DEF UseNewClient
<1>3. client_toml' = ClientToml(Target[NewClient], pin)
  BY <1>1, RekeyedForm DEF UseNewClient
<1>4. PICK s \in server : NewClient \in authorized_keys(s)
  BY DEF UseNewClient, ServerRuns
<1>5. s.authorized_clients # Allow(Keys1)
  <2>1. PICK keys \in KeyPhases : s.authorized_clients = Allow(keys)
    BY StateView DEF DeployPart, Servers
  <2>2. keys # Keys1
    BY <1>4, <2>1, AdmittedKeys
  <2> QED BY <2>1, <2>2, AllowView DEF KeyPhases
<1>6. \A t \in Servers : t.authorized_clients # Allow(Keys1)
  BY <1>5, RunningServer
<1> QED BY <1>1, <1>2, <1>3, <1>6, ClientEdit

-----------------------------------------------------------------------------
(* Steps of the key files.                                                 *)

LEMMA KeygenStep ==
  ASSUME KeyInv, OwnTargets,
         (\E c \in Commands : Command(c) \/ Kill(c)) \/ RemoveDebris(NewPath)
  PROVE  KeyInv' /\ OwnTargets' /\ \A c \in Commands : pc[c] = "done" => pc'[c] = "done"
<1>0. KeyInv'
  <2>1. KeyNext
    BY Names DEF KeyNext
  <2> QED BY <2>1, KeyNextInv
<1> USE DEF KeyInv, KeyTypeOK
<1>1. ASSUME NEW c \in Commands, Command(c) \/ Kill(c)
      PROVE  OwnTargets' /\ \A d \in Commands : pc[d] = "done" => pc'[d] = "done"
  <2>1. pc[c] # "done"
    BY <1>1 DEF Command, Kill, CheckExists, PrepareParent, MakeParent, RestrictParent,
       Create, Write, sync_all, Report, Running
  <2>2. \E next : pc' = [pc EXCEPT ![c] = next]
    BY <1>1, Zenon DEF Command, Kill, CheckExists, PrepareParent, MakeParent,
       RestrictParent, Create, Write, sync_all, Report, Refuse, Goto
  <2>3. owner' = owner \/ owner' = [owner EXCEPT ![Target[c]] = c]
    BY <1>1, Zenon DEF Command, Kill, CheckExists, PrepareParent, MakeParent,
       RestrictParent, Create, Write, sync_all, Report, Refuse
  <2>4. OwnTargets'
    BY <2>3 DEF OwnTargets
  <2> QED BY <2>1, <2>2, <2>4
<1>2. ASSUME RemoveDebris(NewPath)
      PROVE  OwnTargets' /\ \A d \in Commands : pc[d] = "done" => pc'[d] = "done"
  <2>1. /\ owner' = [owner EXCEPT ![NewPath] = "none"]
        /\ pc' = [c \in Commands |-> IF c = owner[NewPath] /\ pc[c] = "done"
                                      THEN "retired" ELSE pc[c]]
        /\ pc[owner[NewPath]] = "killed"
    BY <1>2 DEF RemoveDebris, RemoveFile
  <2>2. OwnTargets'
    BY <2>1, Names DEF OwnTargets
  <2>3. \A d \in Commands : pc[d] = "done" => pc'[d] = "done"
    BY <2>1
  <2> QED BY <2>2, <2>3
<1>3. OwnTargets' /\ \A c \in Commands : pc[c] = "done" => pc'[c] = "done"
  BY <1>1, <1>2
<1> HIDE DEF KeyInv, KeyTypeOK
<1> QED BY <1>0, <1>3

LEMMA PowerLossStep ==
  ASSUME KeyInv, OwnTargets, PowerLoss
  PROVE  KeyInv' /\ OwnTargets' /\ \A c \in Commands : pc[c] = "done" => pc'[c] = "done"
<1>1. KeyInv'
  BY PowerLossInv
<1>2. /\ pc' = [c \in Commands |-> IF pc[c] \in Running THEN "killed" ELSE pc[c]]
      /\ \E lost : owner' = [p \in Paths |-> IF p \in lost THEN "none" ELSE owner[p]]
  BY DEF PowerLoss
<1>3. OwnTargets'
  BY <1>2 DEF OwnTargets
<1>4. \A c \in Commands : pc[c] = "done" => pc'[c] = "done"
  BY <1>2 DEF Running
<1> QED BY <1>1, <1>3, <1>4

\* Deleting a retired key takes no other report back.
LEMMA RemoveStep ==
  ASSUME KeyInv, OwnTargets, NEW p \in Paths, RemoveFile(p)
  PROVE  /\ KeyInv' /\ OwnTargets'
         /\ \A c \in Commands : pc[c] = "done" /\ Target[c] # p => pc'[c] = "done"
<1>1. KeyInv'
  BY RemoveInv
<1>2. /\ owner' = [owner EXCEPT ![p] = "none"]
      /\ pc' = [c \in Commands |-> IF c = owner[p] /\ pc[c] = "done" THEN "retired"
                                    ELSE pc[c]]
  BY DEF RemoveFile
<1>3. OwnTargets'
  BY <1>2 DEF OwnTargets, KeyInv, KeyTypeOK
<1>4. \A c \in Commands : pc[c] = "done" /\ Target[c] # p => pc'[c] = "done"
  BY <1>2 DEF OwnTargets, KeyInv, KeyTypeOK
<1> QED BY <1>1, <1>3, <1>4

LEMMA RemovalPart ==
  ASSUME DeployPart, UNCHANGED deployvars, NEW k \in {OldServer, OldClient},
         \A c \in Commands : pc[c] = "done" /\ Target[c] # Target[k] => pc'[c] = "done",
         k = OldServer => \A s \in Servers : IdentityFiles(s) = Ids3,
         k = OldClient => \A s \in Servers : s.authorized_clients = Allow(Keys3)
  PROVE  DeployPart'
<1>1. Reported \subseteq Reported'
  BY Names DEF Reported
<1>2. Servers' = Servers /\ Clients' = Clients
  BY DEF Servers, Clients, deployvars
<1>3. Forms'
  <2>1. {OldServer} \cup Reported \subseteq {OldServer} \cup Reported'
    BY <1>1
  <2>2. UNCHANGED <<server_toml, client_toml, server, client>>
    BY DEF deployvars
  <2>3. \E path \in {Target[OldClient], Target[NewClient]}, pin \in {OldServer} \cup Reported' :
          client_toml' = ClientToml(path, pin)
    BY <2>1, <2>2 DEF DeployPart, Forms
  <2>4. \A c \in client' :
          \E path \in {Target[OldClient], Target[NewClient]}, pin \in {OldServer} \cup Reported' :
            c = ClientFromToml(ClientToml(path, pin))
    BY <2>1, <2>2 DEF DeployPart, Forms
  <2>5. /\ AtMostOne(server') /\ AtMostOne(client')
        /\ \E ids \in IdPhases, keys \in KeyPhases : server_toml' = ServerFile(ids, keys)
        /\ \A s \in server' : \E ids \in IdPhases, keys \in KeyPhases :
             s = ServerFromToml(ServerFile(ids, keys))
    BY <2>2 DEF DeployPart, Forms
  <2> QED BY <2>3, <2>4, <2>5, Zenon DEF Forms, AtMostOne
<1>4. FilesAhead'
  BY DEF DeployPart, FilesAhead, deployvars
<1>5. InStep'
  BY <1>2 DEF DeployPart, InStep
<1>6. KeysThere'
  BY <1>1, <1>2, Names DEF DeployPart, KeysThere
<1> QED BY <1>3, <1>4, <1>5, <1>6 DEF DeployPart

-----------------------------------------------------------------------------
LEMMA DeployInvInit == DeployInit => DeployInv
<1> SUFFICES ASSUME DeployInit
             PROVE  DeployInv
  OBVIOUS
<1>1. KeyInv
  BY KeyInitInv DEF DeployInit
<1>2. OwnTargets /\ \A c \in Earlier : pc[c] = "done"
  <2> DEFINE Creator(p) == {c \in Earlier : Target[c] = p}
  <2>1. \A p \in Paths : Creator(p) # {} => (CHOOSE c \in Creator(p) : TRUE) \in Creator(p)
    OBVIOUS
  <2>2. /\ owner = [p \in Paths |-> IF Creator(p) = {} THEN "none"
                                     ELSE CHOOSE c \in Creator(p) : TRUE]
        /\ pc = [c \in Commands |-> IF c \in Earlier THEN "done" ELSE "start"]
    BY DEF DeployInit, KeyInit
  <2> QED BY <2>1, <2>2 DEF OwnTargets
<1>3. /\ server_toml = ServerFile(Ids1, Keys1)
      /\ client_toml = ClientToml(Target[OldClient], OldServer)
      /\ server = {} /\ client = {}
  BY DEF DeployInit, ServerFile, Ids1, Keys1
<1>4. Ids1 \in IdPhases /\ Keys1 \in KeyPhases
  BY DEF IdPhases, KeyPhases
<1>5. Forms
  BY <1>3, <1>4, Zenon DEF Forms, AtMostOne
<1>6. /\ IdentityFiles(ServerFromToml(server_toml)) = Ids1
      /\ ServerFromToml(server_toml).authorized_clients = Allow(Keys1)
      /\ ClientFromToml(client_toml).private_key_file = Target[OldClient]
      /\ ClientFromToml(client_toml).server_public_key = OldServer
  <2>1. /\ IdentityFiles(ServerFromToml(server_toml)) = Ids1
        /\ ServerFromToml(server_toml).authorized_clients = Allow(Keys1)
    BY <1>3, <1>4, ServerView, ZenonT(30)
  <2>2. /\ ClientFromToml(client_toml).private_key_file = Target[OldClient]
        /\ ClientFromToml(client_toml).server_public_key = OldServer
    BY <1>3, ClientView
  <2> QED BY <2>1, <2>2
<1>7. Servers = {ServerFromToml(server_toml)} /\ Clients = {ClientFromToml(client_toml)}
  BY <1>3 DEF Servers, Clients
<1>8. FilesAhead
  BY <1>3 DEF FilesAhead
<1>9. InStep
  BY <1>6, <1>7, Names, PhasesDiffer, AllowView DEF InStep
<1>10. KeysThere
  BY <1>2, <1>6, <1>7 DEF KeysThere
<1> QED BY <1>1, <1>2, <1>5, <1>8, <1>9, <1>10 DEF DeployInv, DeployPart

LEMMA DeployInvNext == DeployInv /\ [DeployNext]_allvars => DeployInv'
<1> SUFFICES ASSUME DeployInv, [DeployNext]_allvars
             PROVE  DeployInv'
  OBVIOUS
<1>0. KeyInv /\ OwnTargets /\ DeployPart /\ AtMostOne(server) /\ AtMostOne(client)
  BY DEF DeployInv, DeployPart, Forms
\* The keys stay as they are.
<1>1. ASSUME UNCHANGED keyvars
      PROVE  KeyInv' /\ OwnTargets' /\ \A c \in Commands : pc[c] = "done" => pc'[c] = "done"
  <2>1. KeyInv'
    BY <1>0, <1>1, KeyNextInv
  <2> QED BY <1>0, <1>1, <2>1 DEF keyvars, OwnTargets
<1>2. CASE StartServer \/ StopServer
  <2>1. /\ UNCHANGED <<keyvars, server_toml, client_toml, client>>
        /\ server' = {} \/ server' = {ServerFromToml(server_toml)}
    BY <1>2 DEF StartServer, StopServer
  <2>2. server' \subseteq Servers /\ AtMostOne(server') /\ client' \subseteq Clients
        /\ AtMostOne(client')
    BY <1>0, <2>1 DEF Servers, Clients, AtMostOne
  <2> QED BY <1>0, <1>1, <2>1, <2>2, ProcessStep DEF DeployInv
<1>3. CASE StartClient \/ StopClient
  <2>1. /\ UNCHANGED <<keyvars, server_toml, client_toml, server>>
        /\ client' = {} \/ client' = {ClientFromToml(client_toml)}
    BY <1>3 DEF StartClient, StopClient
  <2>2. server' \subseteq Servers /\ AtMostOne(server') /\ client' \subseteq Clients
        /\ AtMostOne(client')
    BY <1>0, <2>1 DEF Servers, Clients, AtMostOne
  <2> QED BY <1>0, <1>1, <2>1, <2>2, ProcessStep DEF DeployInv
<1>4. CASE Keygen
  <2>1. UNCHANGED <<server_toml, client_toml, server, client>>
    BY <1>4 DEF Keygen, deployvars
  <2>2. server' \subseteq Servers /\ AtMostOne(server') /\ client' \subseteq Clients
        /\ AtMostOne(client')
    BY <1>0, <2>1 DEF Servers, Clients, AtMostOne
  <2>3. KeyInv' /\ OwnTargets' /\ \A c \in Commands : pc[c] = "done" => pc'[c] = "done"
    BY <1>0, <1>4, KeygenStep DEF Keygen
  <2> QED BY <1>0, <2>1, <2>2, <2>3, ProcessStep DEF DeployInv
<1>5. CASE ServerPowerLoss
  <2>1. UNCHANGED <<server_toml, client_toml, client>> /\ server' = {}
    BY <1>5 DEF ServerPowerLoss
  <2>2. server' \subseteq Servers /\ AtMostOne(server') /\ client' \subseteq Clients
        /\ AtMostOne(client')
    BY <1>0, <2>1 DEF Servers, Clients, AtMostOne
  <2>3. KeyInv' /\ OwnTargets' /\ \A c \in Commands : pc[c] = "done" => pc'[c] = "done"
    BY <1>0, <1>5, PowerLossStep DEF ServerPowerLoss
  <2> QED BY <1>0, <2>1, <2>2, <2>3, ProcessStep DEF DeployInv
<1>6. CASE AddIdentity
  BY <1>0, <1>1, <1>6, AddIdentityStep DEF AddIdentity, DeployInv
<1>7. CASE PinNewIdentity
  BY <1>0, <1>1, <1>7, PinNewIdentityStep DEF PinNewIdentity, DeployInv
<1>8. CASE RetireIdentity
  BY <1>0, <1>1, <1>8, RetireIdentityStep DEF RetireIdentity, DeployInv
<1>9. CASE AllowNewClient
  BY <1>0, <1>1, <1>9, AllowNewClientStep DEF AllowNewClient, DeployInv
<1>10. CASE UseNewClient
  BY <1>0, <1>1, <1>10, UseNewClientStep DEF UseNewClient, DeployInv
<1>11. CASE RevokeOldClient
  BY <1>0, <1>1, <1>11, RevokeOldClientStep DEF RevokeOldClient, DeployInv
<1>12. CASE RemoveOldIdentity
  <2>1. PICK s \in server : IdentityFiles(s) = Ids3
    BY <1>12 DEF RemoveOldIdentity, ServerRuns, Ids3
  <2>2. \A t \in Servers : IdentityFiles(t) = Ids3
    BY <1>0, <2>1, RunningServer
  <2>3. UNCHANGED deployvars /\ RemoveFile(Target[OldServer])
    BY <1>12 DEF RemoveOldIdentity
  <2>4. /\ KeyInv' /\ OwnTargets'
        /\ \A c \in Commands :
             pc[c] = "done" /\ Target[c] # Target[OldServer] => pc'[c] = "done"
    BY <1>0, <2>3, RemoveStep, Names
  <2>5. OldServer # OldClient
    OBVIOUS
  <2>6. DeployPart'
    BY <1>0, <2>2, <2>3, <2>4, <2>5, RemovalPart
  <2> QED BY <2>4, <2>6 DEF DeployInv
<1>13. CASE RemoveOldClient
  <2>1. PICK s \in server : authorized_keys(s) = {NewClient}
    BY <1>13 DEF RemoveOldClient, ServerRuns
  <2>2. s.authorized_clients = Allow(Keys3)
    <3>1. PICK keys \in KeyPhases : s.authorized_clients = Allow(keys)
      BY <1>0, StateView DEF DeployPart, Servers
    <3> QED BY <2>1, <3>1, AdmittedKeys
  <2>3. \A t \in Servers : t.authorized_clients = Allow(Keys3)
    BY <1>0, <2>2, RunningServer
  <2>4. UNCHANGED deployvars /\ RemoveFile(Target[OldClient])
    BY <1>13 DEF RemoveOldClient
  <2>5. /\ KeyInv' /\ OwnTargets'
        /\ \A c \in Commands :
             pc[c] = "done" /\ Target[c] # Target[OldClient] => pc'[c] = "done"
    BY <1>0, <2>4, RemoveStep, Names
  <2>6. DeployPart'
    BY <1>0, <2>3, <2>4, <2>5, RemovalPart
  <2> QED BY <2>5, <2>6 DEF DeployInv
<1>14. CASE UNCHANGED allvars
  <2>1. UNCHANGED keyvars /\ UNCHANGED <<server_toml, client_toml, server, client>>
    BY <1>14 DEF allvars, deployvars
  <2>2. server' \subseteq Servers /\ AtMostOne(server') /\ client' \subseteq Clients
        /\ AtMostOne(client')
    BY <1>0, <2>1 DEF Servers, Clients, AtMostOne
  <2> QED BY <1>0, <1>1, <2>1, <2>2, ProcessStep DEF DeployInv
<1> QED BY <1>2, <1>3, <1>4, <1>5, <1>6, <1>7, <1>8, <1>9, <1>10, <1>11, <1>12, <1>13,
           <1>14 DEF DeployNext

\* A key whose keygen reported success is there to be read.
LEMMA ReportedKey ==
  ASSUME KeyInv, NEW c \in Commands, pc[c] = "done"
  PROVE  /\ read_private_key(file[Target[c]])
         /\ enforce_sensitive_permissions(file[Target[c]])
         /\ file[Target[c]].text = c
<1>1. file[Target[c]] = File("private", c)
  BY DEF KeyInv, StoredInOrder
<1>2. decodes(c)
  BY Names
<1> QED BY <1>1, <1>2 DEF File, read_private_key, enforce_sensitive_permissions

\* The identities of a server that runs, or would be started, can be read.
LEMMA IdentitiesThere ==
  ASSUME DeployInv, NEW s \in Servers
  PROVE  /\ \A i \in 1 .. Len(IdentityFiles(s)) :
              /\ read_private_key(file[IdentityFiles(s)[i]])
              /\ enforce_sensitive_permissions(file[IdentityFiles(s)[i]])
         /\ IdentityFiles(s) # Ids3 => OldServer \in session_identities(s, file)
         /\ \A b \in Reported :
              IdentityFiles(s) # Ids1 => b \in session_identities(s, file)
<1> DEFINE ids == IdentityFiles(s)
<1>0. KeyInv /\ DeployPart /\ ids \in IdPhases
  BY StateView DEF DeployInv, DeployPart
<1>1. /\ ids # Ids1 => Reported # {}
      /\ ids # Ids3 => pc[OldServer] = "done"
  BY <1>0 DEF DeployPart, KeysThere
<1>2. \A b \in Reported : b \in Commands /\ pc[b] = "done" /\ Target[b] = NewPath
  BY DEF Reported
<1>3. \A b \in Reported : /\ read_private_key(file[NewPath])
                          /\ enforce_sensitive_permissions(file[NewPath])
                          /\ file[NewPath].text = b
  BY <1>0, <1>2, ReportedKey
<1>4. ids # Ids3 => /\ read_private_key(file[Target[OldServer]])
                    /\ enforce_sensitive_permissions(file[Target[OldServer]])
                    /\ file[Target[OldServer]].text = OldServer
  BY <1>0, <1>1, ReportedKey, Names
<1>5. session_identities(s, file) = {file[ids[i]].text : i \in 1 .. Len(ids)}
  BY DEF session_identities
<1> HIDE DEF ids
<1>6. CASE ids = Ids1
  <2>1. Len(ids) = 1 /\ ids[1] = Target[OldServer]
    BY <1>6 DEF Ids1
  <2>2. \A i \in 1 .. Len(ids) : ids[i] = Target[OldServer]
    BY <2>1
  <2>3. OldServer \in session_identities(s, file)
    BY <1>4, <1>5, <1>6, <2>1, PhasesDiffer
  <2> QED BY <1>4, <1>6, <2>2, <2>3, PhasesDiffer DEF ids
<1>7. CASE ids = Ids2
  <2>1. Len(ids) = 2 /\ ids[1] = Target[OldServer] /\ ids[2] = NewPath
    BY <1>7 DEF Ids2
  <2>2. \A i \in 1 .. Len(ids) : ids[i] \in {Target[OldServer], NewPath}
    BY <2>1
  <2>3. OldServer \in session_identities(s, file)
    BY <1>4, <1>5, <1>7, <2>1, PhasesDiffer
  <2>4. \A b \in Reported : b \in session_identities(s, file)
    BY <1>3, <1>5, <2>1
  <2>5. PICK b \in Reported : TRUE
    BY <1>1, <1>7, PhasesDiffer
  <2>6. \A i \in 1 .. Len(ids) : /\ read_private_key(file[ids[i]])
                                 /\ enforce_sensitive_permissions(file[ids[i]])
    BY <1>3, <1>4, <1>7, <2>2, <2>5, PhasesDiffer
  <2> QED BY <2>3, <2>4, <2>6 DEF ids
<1>8. CASE ids = Ids3
  <2>1. Len(ids) = 1 /\ ids[1] = NewPath
    BY <1>8 DEF Ids3
  <2>2. \A i \in 1 .. Len(ids) : ids[i] = NewPath
    BY <2>1
  <2>3. \A b \in Reported : b \in session_identities(s, file)
    BY <1>3, <1>5, <2>1
  <2>4. PICK b \in Reported : TRUE
    BY <1>1, <1>8, PhasesDiffer
  <2>5. \A i \in 1 .. Len(ids) : /\ read_private_key(file[ids[i]])
                                 /\ enforce_sensitive_permissions(file[ids[i]])
    BY <1>3, <2>2, <2>4
  <2> QED BY <1>8, <2>3, <2>5 DEF ids
<1> QED BY <1>0, <1>6, <1>7, <1>8 DEF IdPhases

\* A client that runs, or would be started, finds its key, and the servers
\* admit it.
LEMMA ClientKeyThere ==
  ASSUME DeployInv, NEW s \in Servers, NEW c \in Clients
  PROVE  /\ read_private_key(file[c.private_key_file])
         /\ enforce_sensitive_permissions(file[c.private_key_file])
         /\ file[c.private_key_file].text \in authorized_keys(s)
<1>0. KeyInv /\ DeployPart
  BY DEF DeployInv
<1>1. PICK keys \in KeyPhases : s.authorized_clients = Allow(keys)
  BY <1>0, StateView DEF DeployPart
<1>2. /\ OldClient \in authorized_keys(s) <=> keys # Keys3
      /\ NewClient \in authorized_keys(s) <=> keys # Keys1
  BY <1>1, AdmittedKeys
<1>3. /\ c.private_key_file = Target[NewClient] => s.authorized_clients # Allow(Keys1)
      /\ s.authorized_clients = Allow(Keys3) => c.private_key_file = Target[NewClient]
      /\ s.authorized_clients # Allow(Keys3) => pc[OldClient] = "done"
      /\ pc[NewClient] = "done"
  BY <1>0 DEF DeployPart, InStep, KeysThere
<1>4. CASE c.private_key_file = Target[NewClient]
  BY <1>0, <1>1, <1>2, <1>3, <1>4, ReportedKey, Names
<1>5. CASE c.private_key_file # Target[NewClient]
  <2>1. c.private_key_file = Target[OldClient]
    BY <1>0, <1>5, StateView DEF DeployPart
  <2>2. keys # Keys3 /\ pc[OldClient] = "done"
    BY <1>1, <1>3, <1>5
  <2> QED BY <1>0, <1>2, <2>1, <2>2, ReportedKey, Names
<1> QED BY <1>4, <1>5

\* The client's settings other than its key and its pin are those of
\* examples/, and pass.
LEMMA ClientStarts ==
  ASSUME NEW path, NEW pin, ~IsBlank(pin)
  PROVE  /\ ClientValidate(ClientFromToml(ClientToml(path, pin)))
         /\ ClientFromToml(ClientToml(path, pin)).tls_enabled = FALSE
<1> DEFINE c == ClientFromToml(ClientToml(path, pin))
<1>1. /\ c.listen = "loopback" /\ c.remote = "host" /\ c.tls_enabled = FALSE
      /\ c.server_public_key = pin
      /\ c.max_connections = 32 /\ c.connect_seconds = 10
      /\ c.handshake_seconds = 10 /\ c.idle_seconds = 600
  BY DEF ClientToml, ClientFromToml, Default
<1> HIDE DEF c
<1>2. ClientValidate(c)
  BY <1>1 DEF ClientValidate, IsBlank, MAX_CONCURRENT_CONNECTIONS
<1> QED BY <1>1, <1>2 DEF c

\* Neither the two rotations in any order, nor restarts of either process,
\* nor interrupted keygens cut the client off (serve, run_noise and
\* read_server_private_keys on the files and configurations there are).
THEOREM RotationIsSafe == DeploySpec => []RotationKeepsSessions
<1>1. DeployInv => RotationKeepsSessions
  <2> SUFFICES ASSUME DeployInv
               PROVE  RotationKeepsSessions
    OBVIOUS
  <2> DEFINE S == ServerFromToml(server_toml)
             C == ClientFromToml(client_toml)
  <2>0. S \in Servers /\ C \in Clients /\ DeployPart /\ Forms
    BY DEF Servers, Clients, DeployInv, DeployPart
  <2>1. Host.files = file /\ Host.port_free = TRUE
        /\ enforce_sensitive_permissions(Host.config_file)
    BY DEF Host, File, enforce_sensitive_permissions
  <2>2. ServerServe(server_toml, Host)
    <3>1. PICK ids \in IdPhases, keys \in KeyPhases : server_toml = ServerFile(ids, keys)
      BY <2>0, Zenon DEF Forms
    <3>2. ServerValidate(S) /\ S.tls_enabled = FALSE
      BY <3>1, ServerView
    <3>3. \A i \in 1 .. Len(IdentityFiles(S)) :
            enforce_sensitive_permissions(Host.files[IdentityFiles(S)[i]])
      BY <2>0, <2>1, IdentitiesThere
    <3> QED BY <2>1, <3>2, <3>3 DEF ServerServe, ServerLoads
  <2>3. ClientServe(client_toml, Host)
    <3>1. PICK path \in {Target[OldClient], Target[NewClient]}, pin \in {OldServer} \cup Reported :
            client_toml = ClientToml(path, pin)
      BY <2>0, Zenon DEF Forms
    <3>2. ~IsBlank(pin)
      BY Names
    <3>3. ClientValidate(C) /\ C.tls_enabled = FALSE
      BY <3>1, <3>2, ClientStarts
    <3>4. enforce_sensitive_permissions(Host.files[C.private_key_file])
      BY <2>0, <2>1, ClientKeyThere
    <3> QED BY <2>1, <3>3, <3>4 DEF ClientServe, ClientLoads
  <2>4. ASSUME NEW s \in Servers, NEW c \in Clients
        PROVE  Connects(s, c)
    <3>1. ServerSession(s, file)
      <4>1. PICK keys \in KeyPhases : s.authorized_clients = Allow(keys)
        BY <2>0, StateView
      <4>2. \A i \in 1 .. Len(s.authorized_clients) :
              decodes(s.authorized_clients[i].public_key)
        BY <4>1, AllowView, Names
      <4>3. read_server_private_keys(s, file)
        BY IdentitiesThere DEF read_server_private_keys
      <4>4. IdentityFiles(s) \in IdPhases
        BY <2>0, StateView
      <4>5. Len(IdentityFiles(s)) \in 1 .. MAX_SERVER_STATIC_IDENTITIES
        BY <4>4, PhasesDiffer DEF IdPhases, MAX_SERVER_STATIC_IDENTITIES
      <4> QED BY <4>2, <4>3, <4>5 DEF ServerSession
    <3>2. c.server_public_key \in {OldServer} \cup Reported
      BY <2>0, StateView
    <3>3. ClientSession(c, file)
      <4>1. c.tls_enabled = FALSE
        <5>1. \E path \in {Target[OldClient], Target[NewClient]},
                 pin \in {OldServer} \cup Reported :
                c = ClientFromToml(ClientToml(path, pin))
          BY <2>0, Zenon DEF Forms, Clients
        <5>2. \A pin \in {OldServer} \cup Reported : ~IsBlank(pin)
          BY Names
        <5> QED BY <5>1, <5>2, ClientStarts
      <4>2. decodes(c.server_public_key)
        BY <3>2, Names
      <4> QED BY <4>1, <4>2, ClientKeyThere DEF ClientSession
    <3>4. c.server_public_key \in session_identities(s, file)
      <4>1. /\ c.server_public_key # OldServer => IdentityFiles(s) # Ids1
            /\ IdentityFiles(s) = Ids3 => c.server_public_key # OldServer
        BY <2>0 DEF DeployPart, InStep
      <4> QED BY <3>2, <4>1, IdentitiesThere
    <3>5. file[c.private_key_file].text \in authorized_keys(s)
      BY ClientKeyThere
    <3> QED BY <3>1, <3>3, <3>4, <3>5 DEF Connects
  <2> QED BY <2>2, <2>3, <2>4 DEF RotationKeepsSessions, Servers, Clients
<1> QED BY <1>1, DeployInvInit, DeployInvNext, PTL DEF DeploySpec
=============================================================================

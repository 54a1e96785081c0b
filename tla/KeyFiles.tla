------------------------------- MODULE KeyFiles -------------------------------
(***************************************************************************)
(* Commands that create a file which must never replace another: keygen of *)
(* both binaries (write_private_key) and the benchmark's write_new_json,   *)
(* run side by side, killed at any point, or interrupted by a power loss.  *)
(*                                                                         *)
(* A command is named, and its name also stands for the text it writes     *)
(* (the private key it drew, or its report).  Key files share one parent   *)
(* directory; the evidence has one of its own, whose mode nobody checks.   *)
(***************************************************************************)
EXTENDS Files

CONSTANTS
  Commands,  \* invocations of keygen or of the benchmark's run
  Paths,     \* file names
  Target,    \* Target[c]: the file that command c is told to create
  Evidence,  \* the paths that are benchmark evidence, not keys
  Earlier    \* commands that were run before, one per file

ASSUME PathsAssumption ==
  /\ Target \in [Commands -> Paths]
  /\ Evidence \subseteq Paths
ASSUME CommandsAssumption ==
  /\ Earlier \subseteq Commands
  /\ \A c, d \in Earlier : Target[c] = Target[d] => c = d
  /\ Commands \cap (NotKeys \cup {"none"}) = {}

VARIABLES
  parent,  \* the parent directory of the keys: "absent", "shared", "private"
  file,    \* file[p]: the file at path p
  owner,   \* owner[p]: the command that created it, "none" if there is no file
  synced,  \* the paths whose files have reached the disk
  pc       \* pc[c]: where command c is

keyvars == <<parent, file, owner, synced, pc>>

KeyPaths == Paths \ Evidence
Running == {"start", "parent", "mkdir", "chmod", "create", "write", "rest", "sync",
            "report"}

KeyInit ==
  LET Creator(p) == {c \in Earlier : Target[c] = p}
  IN /\ parent \in IF \E c \in Earlier : Target[c] \in KeyPaths THEN {"private"}
                   ELSE {"absent", "shared", "private"}
     /\ file = [p \in Paths |-> IF Creator(p) = {} THEN NoFile
                                ELSE File("private", CHOOSE c \in Creator(p) : TRUE)]
     /\ owner = [p \in Paths |-> IF Creator(p) = {} THEN "none"
                                 ELSE CHOOSE c \in Creator(p) : TRUE]
     /\ synced = {p \in Paths : Creator(p) # {}}
     /\ pc = [c \in Commands |-> IF c \in Earlier THEN "done" ELSE "start"]

Goto(c, next) == pc' = [pc EXCEPT ![c] = next]
Refuse(c) == Goto(c, "refused") /\ UNCHANGED <<parent, file, owner, synced>>

\* path.exists(): refusing to overwrite.
CheckExists(c) ==
  /\ pc[c] = "start"
  /\ \/ exists(file[Target[c]]) /\ Refuse(c)
     \/ /\ ~exists(file[Target[c]])
        /\ Goto(c, "parent")
        /\ UNCHANGED <<parent, file, owner, synced>>

\* Mutant: an existing parent directory is taken as it is.
AnyParentWillDo(mode) == TRUE
ParentAccepted(mode) == enforce_private_parent_permissions(mode)

\* prepare_private_key_parent; create_dir_all for the evidence.
PrepareParent(c) ==
  /\ pc[c] = "parent"
  /\ \/ /\ Target[c] \in Evidence \/ (parent # "absent" /\ ParentAccepted(parent))
        /\ Goto(c, "create")
        /\ UNCHANGED <<parent, file, owner, synced>>
     \/ /\ Target[c] \in KeyPaths /\ parent # "absent" /\ ~ParentAccepted(parent)
        /\ Refuse(c)
     \/ /\ Target[c] \in KeyPaths /\ parent = "absent"
        /\ Goto(c, "mkdir")
        /\ UNCHANGED <<parent, file, owner, synced>>

\* create_dir: the mode depends on the umask.
MakeParent(c) ==
  /\ pc[c] = "mkdir"
  /\ \/ parent # "absent" /\ Refuse(c)
     \/ /\ parent = "absent"
        /\ parent' \in {"shared", "private"}
        /\ Goto(c, "chmod")
        /\ UNCHANGED <<file, owner, synced>>

\* set_permissions(0o700).
RestrictParent(c) ==
  /\ pc[c] = "chmod"
  /\ parent' = "private"
  /\ Goto(c, "create")
  /\ UNCHANGED <<file, owner, synced>>

\* Mutant: create(true) instead of create_new(true).
OpenExisting(f) == TRUE
\* create_new: the open fails if anything has the name.
OpenNew(f) == ~exists(f)

\* open with create_new and mode 0600 (evidence: a mode nobody looks at).
Create(c) ==
  LET p == Target[c]
  IN /\ pc[c] = "create"
     /\ \/ ~OpenNew(file[p]) /\ Refuse(c)
        \/ /\ OpenNew(file[p])
           /\ file' = [file EXCEPT ![p] = File("private", "partial")]
           /\ owner' = [owner EXCEPT ![p] = c]
           /\ synced' = synced \ {p}
           /\ Goto(c, "write")
           /\ UNCHANGED parent

\* write_all goes to the file that c opened, whatever its name is now.
Write(c) ==
  LET p == Target[c]
  IN /\ pc[c] \in {"write", "rest"}
     /\ file' = [file EXCEPT ![p] =
                   IF owner[p] = c /\ pc[c] = "rest" THEN File("private", c) ELSE @]
     /\ Goto(c, IF pc[c] = "write" THEN "rest" ELSE "sync")
     /\ UNCHANGED <<parent, owner, synced>>

\* Mutant: no sync_all.
SyncNothing(c) == UNCHANGED synced
SyncFile(c) == synced' = IF owner[Target[c]] = c THEN synced \cup {Target[c]} ELSE synced

sync_all(c) ==
  /\ pc[c] = "sync"
  /\ SyncFile(c)
  /\ Goto(c, "report")
  /\ UNCHANGED <<parent, file, owner>>

\* The public key and its fingerprint, or the evidence path, are printed.
Report(c) ==
  /\ pc[c] = "report"
  /\ Goto(c, "done")
  /\ UNCHANGED <<parent, file, owner, synced>>

-----------------------------------------------------------------------------
(* What may come between (external): kills, power loss, the operator.      *)

Kill(c) ==
  /\ pc[c] \in Running \ {"start"}
  /\ Goto(c, "killed")
  /\ UNCHANGED <<parent, file, owner, synced>>

\* Files that were not synced may be gone, cut short or complete.  That a
\* synced file keeps its name and the directory it is in is an assumption on
\* the file system: the code never syncs the parent directory.
PowerLoss ==
  LET Risky == {p \in Paths : exists(file[p]) /\ p \notin synced}
  IN /\ \E c \in Commands : pc[c] \in Running \ {"start"}
     /\ pc' = [c \in Commands |-> IF pc[c] \in Running THEN "killed" ELSE pc[c]]
     /\ \E lost, cut \in SUBSET Risky :
          /\ file' = [p \in Paths |-> IF p \in lost THEN NoFile
                                      ELSE IF p \in cut THEN File("private", "partial")
                                      ELSE file[p]]
          /\ owner' = [p \in Paths |-> IF p \in lost THEN "none" ELSE owner[p]]
     /\ UNCHANGED <<parent, synced>>

\* The operator deletes a file once nobody is creating it; a command whose
\* file this was no longer stands by its report.
RemoveFile(p) ==
  /\ exists(file[p])
  /\ \A c \in Commands : Target[c] = p => pc[c] \notin Running \ {"start"}
  /\ file' = [file EXCEPT ![p] = NoFile]
  /\ owner' = [owner EXCEPT ![p] = "none"]
  /\ synced' = synced \ {p}
  /\ pc' = [c \in Commands |-> IF c = owner[p] /\ pc[c] = "done" THEN "retired"
                               ELSE pc[c]]
  /\ UNCHANGED parent

\* The operator clears away what an interrupted keygen left behind, a whole
\* key whose public half was never printed included.
RemoveDebris(p) == (\E c \in Commands : owner[p] = c /\ pc[c] = "killed") /\ RemoveFile(p)

\* The operator makes the key directory private.
RepairParent ==
  /\ parent = "shared"
  /\ \A c \in Commands : pc[c] \notin Running \ {"start"}
  /\ parent' = "private"
  /\ UNCHANGED <<file, owner, synced, pc>>

Command(c) ==
  \/ CheckExists(c) \/ PrepareParent(c) \/ MakeParent(c) \/ RestrictParent(c)
  \/ Create(c) \/ Write(c) \/ sync_all(c) \/ Report(c)

KeyNext ==
  \/ \E c \in Commands : Command(c) \/ Kill(c)
  \/ \E p \in Paths : RemoveDebris(p)
  \/ PowerLoss \/ RepairParent

KeySpec == KeyInit /\ [][KeyNext]_keyvars

-----------------------------------------------------------------------------
KeyTypeOK ==
  /\ parent \in {"absent", "shared", "private"}
  /\ file \in [Paths -> {NoFile} \cup {File("private", t) : t \in Commands \cup {"partial"}}]
  /\ owner \in [Paths -> Commands \cup {"none"}]
  /\ synced \subseteq Paths
  /\ pc \in [Commands -> Running \cup {"refused", "killed", "done", "retired"}]

\* No command replaces or writes into another command's file, however two
\* of them race between path.exists() and the open: a file stays its
\* creator's until it is removed.
NeverOverwritten ==
  [][\A p \in Paths : owner[p] # "none" /\ owner'[p] # "none"
       => owner'[p] = owner[p]]_keyvars

\* A public key (or an evidence path) that was printed belongs to the file
\* on disk: no later command, crash or power loss leaves the operator with
\* the public half of a key that is not there, on a file system where
\* sync_all of a new file makes its directory entry durable.
ReportedIsStored ==
  \A c \in Commands :
    pc[c] = "done" => /\ file[Target[c]] = File("private", c)
                      /\ Target[c] \in synced

\* Key material never lies in a directory open to others, not even between
\* create_dir and set_permissions of a keygen that runs at the same time.
KeysInPrivateDirectory ==
  (\E p \in KeyPaths : exists(file[p])) => parent = "private"

\* A file read_private_key accepts holds the whole key of the command that
\* created it: what an interrupted keygen leaves behind is refused.
OnlyWholeKeysRead ==
  \A p \in KeyPaths :
    read_private_key(file[p]) => file[p].text = owner[p]
=============================================================================

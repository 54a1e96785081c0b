---------------------------- MODULE InstallAtomic ----------------------------
(***************************************************************************)
(* release/install-atomic.sh: the release is staged beside the active      *)
(* binary, the active binary is kept as PATH.previous through a hard link, *)
(* and the staged file is renamed over it.  The script may fail at any     *)
(* command, be killed, or receive a signal whose trap removes the          *)
(* temporary files and lets the script go on; it is then run again.        *)
(*                                                                         *)
(* Two things are left out.  A power loss: the script never syncs the      *)
(* staged file, so a machine that stops after the rename may come back     *)
(* with an empty or partial binary at the destination.  And two runs at    *)
(* once for one destination, against which the script has no lock.         *)
(*                                                                         *)
(* A file is the version it holds, "none" if it does not exist, "damaged"  *)
(* if it is not a signed universal binary.  The names of the temporary     *)
(* files hold the process id, so what a killed run leaves is not met again.*)
(***************************************************************************)
EXTENDS Naturals

CONSTANTS
  Versions,    \* releases
  Installed,   \* what may be active before the first run
  MaxInstalls  \* bound: runs of the script

ASSUME InstallAssumption ==
  /\ Versions \cap {"none", "damaged"} = {}
  /\ Installed \subseteq Versions \cup {"none", "damaged"}

VARIABLES
  at,            \* the command the script is at; "idle", "done"
  installs,      \* runs so far
  artifact,      \* the release binary in the artifact directory
  manifest,      \* the file whose digest its SHA256SUMS holds
  expected,      \* the file whose digest the script has read: expected_hash
  staged,        \* .NAME.new.PID
  previous_tmp,  \* .NAME.previous.PID
  active,        \* the destination
  previous,      \* PATH.previous
  displaced      \* history: the binary that the active one replaced

installvars ==
  <<at, installs, artifact, manifest, expected, staged, previous_tmp, active, previous,
    displaced>>

InstallInit ==
  /\ at = "idle" /\ installs = 0
  /\ active \in Installed
  /\ artifact = "none" /\ manifest = "none" /\ expected = "none"
  /\ staged = "none" /\ previous_tmp = "none"
  /\ previous = "none" /\ displaced = "none"

\* verify-artifact.sh accepts the directory: a signed binary and its digest.
Begin(version) ==
  /\ at \in {"idle", "done"}
  /\ installs < MaxInstalls
  /\ at' = "digest"
  /\ installs' = installs + 1
  /\ artifact' = version /\ manifest' = version
  /\ UNCHANGED <<expected, staged, previous_tmp, active, previous, displaced>>

\* (External) the directory changes after it was verified: its files are
\* replaced, by those of another release or by anything else.
ReplaceArtifact ==
  /\ at \in {"digest", "copy"}
  /\ artifact' \in Versions \cup {"damaged"}
  /\ manifest' \in Versions \cup {"damaged"}
  /\ UNCHANGED <<at, installs, expected, staged, previous_tmp, active, previous, displaced>>

\* The exit of a failed command, with the EXIT trap.
Exit ==
  /\ at' = "idle"
  /\ staged' = "none" /\ previous_tmp' = "none"
  /\ UNCHANGED <<installs, artifact, manifest, expected, active, previous, displaced>>

\* The digest is read from SHA256SUMS, after the checks of the paths; a dry
\* run stops here.
ReadDigest ==
  /\ at = "digest"
  /\ \/ Exit
     \/ /\ expected' = manifest
        /\ at' = "copy"
        /\ UNCHANGED <<installs, artifact, manifest, staged, previous_tmp, active,
                       previous, displaced>>

CopyStaged ==
  /\ at = "copy"
  /\ \/ Exit
     \/ /\ staged' = artifact
        /\ at' = "verify"
        /\ UNCHANGED <<installs, artifact, manifest, expected, previous_tmp, active,
                       previous, displaced>>

\* Mutant: the signature was verified before, and the digest is enough.
SignedBefore == staged = expected
\* shasum, codesign and lipo on the staged file.
StagedVerified == staged = expected /\ staged \notin {"none", "damaged"}

VerifyStaged ==
  /\ at = "verify"
  /\ \/ ~StagedVerified /\ Exit
     \/ /\ StagedVerified
        /\ at' = "check"
        /\ UNCHANGED <<installs, artifact, manifest, expected, staged, previous_tmp, active,
                       previous, displaced>>

\* Mutant: a predecessor that was kept earlier is not given up.
FirstPredecessorOnly == previous = "none"
KeepsPredecessor == TRUE

CheckDestination ==
  /\ at = "check"
  /\ \/ active = "damaged" /\ Exit
     \/ /\ active # "damaged"
        /\ at' = IF active # "none" /\ KeepsPredecessor THEN "link" ELSE "replace"
        /\ UNCHANGED <<installs, artifact, manifest, expected, staged, previous_tmp, active,
                       previous, displaced>>

\* Mutant: the active binary is moved, not linked.
MoveActive == active' = "none"
LinkActive == UNCHANGED active

LinkPrevious ==
  /\ at = "link"
  /\ previous_tmp' = active
  /\ LinkActive
  /\ at' = "keep"
  /\ UNCHANGED <<installs, artifact, manifest, expected, staged, previous, displaced>>

KeepPrevious ==
  /\ at = "keep"
  /\ \/ previous_tmp = "none" /\ Exit
     \/ /\ previous_tmp # "none"
        /\ previous' = previous_tmp
        /\ previous_tmp' = "none"
        /\ at' = "replace"
        /\ UNCHANGED <<installs, artifact, manifest, expected, staged, active, displaced>>

Replace ==
  /\ at = "replace"
  /\ \/ staged = "none" /\ Exit
     \/ /\ staged # "none"
        /\ active' = staged
        /\ displaced' = active
        /\ staged' = "none"
        /\ at' = "confirm"
        /\ UNCHANGED <<installs, artifact, manifest, expected, previous_tmp, previous>>

Confirm ==
  /\ at = "confirm"
  /\ \/ Exit
     \/ /\ active = expected
        /\ at' = "done"
        /\ UNCHANGED <<installs, artifact, manifest, expected, staged, previous_tmp, active,
                       previous, displaced>>

\* HUP, INT or TERM: cleanup runs, and the shell goes on with the script.
TrapSignal ==
  /\ at \notin {"idle", "done"}
  /\ staged # "none" \/ previous_tmp # "none"
  /\ staged' = "none" /\ previous_tmp' = "none"
  /\ UNCHANGED <<at, installs, artifact, manifest, expected, active, previous, displaced>>

\* KILL, which runs no trap.  What it leaves of the temporary files stays
\* under names that no other run uses.
KillInstall == at \notin {"idle", "done"} /\ Exit

InstallNext ==
  \/ \E version \in Versions : Begin(version)
  \/ ReplaceArtifact \/ ReadDigest \/ CopyStaged \/ VerifyStaged \/ CheckDestination
  \/ LinkPrevious \/ KeepPrevious \/ Replace \/ Confirm
  \/ TrapSignal \/ KillInstall

InstallSpec == InstallInit /\ [][InstallNext]_installvars

-----------------------------------------------------------------------------
\* The active path goes from one binary to the new one in one step, and the
\* new one has the digest the script read and a valid signature: no failing
\* command, kill or signal, and no change of the artifact directory at any
\* moment, leaves the path missing, half written or with a file that was not
\* verified as it lay staged.  Power loss is excepted (nothing is synced).
ReplacedAtomically ==
  [][active' # active => active' = expected /\ active' \in Versions]_installvars

\* After an installation PATH.previous is the binary it displaced, whatever
\* interrupted runs came before, as long as runs do not overlap; it is never
\* anything but that binary or the active one.
RollbackAvailable ==
  /\ at \in {"confirm", "done"} => previous = displaced
  /\ previous \in {"none", displaced, active}
=============================================================================

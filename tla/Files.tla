-------------------------------- MODULE Files --------------------------------
(***************************************************************************)
(* Files as both binaries look at them before they trust them: what kind   *)
(* of file a path names (without following a symbolic link), whether its   *)
(* mode grants the group or the world anything, and what its text is.      *)
(***************************************************************************)
NoFile == [type |-> "absent", mode |-> "private", text |-> "partial"]
File(mode, text) == [type |-> "file", mode |-> mode, text |-> text]

exists(f) == f.type # "absent"

\* enforce_private_permissions and enforce_config_permissions.
enforce_sensitive_permissions(f) == f.type = "file" /\ f.mode = "private"

\* A directory that may hold a private key.
enforce_private_parent_permissions(mode) == mode = "private"

\* A text that is not the base64 of exactly 32 bytes is not a key: neither
\* an empty or partly written file nor a malformed or blank setting.
NotKeys == {"partial", "malformed", "blank"}

\* Mutant: the length of the decoded text is not checked.
decodes_anything(text) == TRUE
decodes(text) == text \notin NotKeys

\* read_private_key succeeds, and its result is f.text.
read_private_key(f) == enforce_sensitive_permissions(f) /\ decodes(f.text)
=============================================================================

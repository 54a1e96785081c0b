------------------------------- MODULE Startup -------------------------------
(***************************************************************************)
(* What doctor promises.  Starting from a set-up that works, settings and  *)
(* files are changed one at a time; doctor, serve and a first session are  *)
(* then compared over every set-up reached.                                *)
(***************************************************************************)
EXTENDS Config

CONSTANT MaxEdits   \* bound: changes to a working set-up

VARIABLES
  toml,     \* the configuration file, as written
  machine,  \* the files and sockets it refers to
  edits     \* changes made so far

startupvars == <<toml, machine, edits>>

KeyFile == File("private", "key")
Clients(name, key) == <<[name |-> name, public_key |-> key]>>

\* Key files: as many as the server takes, and one more.
Ids == <<"id1", "id2", "id3", "id4", "id5", "id6", "id7", "id8", "id9">>

FileNames == {Ids[i] : i \in 1 .. Len(Ids)} \cup {"cert", "certkey", "nowhere", "blank"}
Machine ==
  [config_file |-> KeyFile,
   files |-> [f \in FileNames |->
                CASE f = "cert" -> File("shared", "certificate")
                  [] f = "certkey" -> File("private", "certificate key")
                  [] f \in {"nowhere", "blank"} -> NoFile
                  [] OTHER -> KeyFile],
   port_free |-> TRUE, destination_up |-> TRUE, trust_roots |-> TRUE,
   reachable |-> TRUE]

StartupInit ==
  /\ \E tls \in BOOLEAN :
       toml \in {[ServerToml(<<"id1">>, Clients("laptop", "key")) EXCEPT
                   !.tls_enabled = tls,
                   !.certificate_file = IF tls THEN {"cert"} ELSE {},
                   !.tls_private_key_file = IF tls THEN {"certkey"} ELSE {}],
                 [ClientToml("id1", "key") EXCEPT
                   !.tls_enabled = tls,
                   !.server_name = IF tls THEN {"host"} ELSE {}]}
  /\ machine = Machine
  /\ edits = 0

Seconds == {{0}, {1}}
Addresses == {"loopback", "other"}
OptionalFiles == {{}, {"cert"}, {"certkey"}, {"nowhere"}}

\* The values an operator may give a setting, right and wrong ones.
Settings ==
  [destination |-> Addresses, listen |-> Addresses,
   authorized_clients |->
     {<<>>} \cup {Clients(n, k) : n \in {"laptop", "blank"},
                                  k \in {"key", "malformed", "blank"}},
   additional_private_key_files |->
     {SubSeq(Ids, 2, n) : n \in {2, 8, 9}} \cup {<<"id1">>, <<"blank">>},
   private_key_file |-> {"nowhere", "cert", "blank"},
   max_connections |-> {{0}, {1}, {1024}, {1025}},
   max_plaintext_record_bytes |-> {{16384}, {16383}},
   tls_enabled |-> BOOLEAN,
   certificate_file |-> OptionalFiles, tls_private_key_file |-> OptionalFiles,
   additional_ca_file |-> OptionalFiles,
   remote |-> {"host", "blank"},
   server_public_key |-> {"key", "malformed", "blank"},
   server_name |-> {{}, {"host"}, {"malformed"}, {"blank"}},
   destination_connect_seconds |-> Seconds, connect_seconds |-> Seconds,
   handshake_seconds |-> Seconds, idle_seconds |-> Seconds]

EditToml(field) ==
  /\ edits < MaxEdits
  /\ \E value \in Settings[field] : toml' = [toml EXCEPT ![field] = value]
  /\ edits' = edits + 1
  /\ UNCHANGED machine

\* A file is replaced: wrong mode, not a regular file, other contents, gone.
Replacements ==
  {NoFile, File("shared", "key"), File("private", "partial"),
   [type |-> "symlink", mode |-> "private", text |-> "key"]}

EditFile ==
  /\ edits < MaxEdits
  /\ \/ \E f \in FileNames \ {"nowhere", "blank"}, new \in Replacements :
          machine' = [machine EXCEPT !.files[f] = new]
     \/ \E new \in Replacements \ {File("private", "partial")} :
          machine' = [machine EXCEPT !.config_file = new]
  /\ edits' = edits + 1
  /\ UNCHANGED toml

\* A socket is in use, the destination or the remote is down, or the
\* machine has no trust roots.
EditMachine ==
  /\ edits < MaxEdits
  /\ \E what \in {"port_free", "destination_up", "trust_roots", "reachable"} :
       machine' = [machine EXCEPT ![what] = FALSE]
  /\ edits' = edits + 1
  /\ UNCHANGED toml

StartupNext ==
  \/ \E field \in DOMAIN toml \ {"role"} : EditToml(field)
  \/ EditFile \/ EditMachine

StartupSpec == StartupInit /\ [][StartupNext]_startupvars

-----------------------------------------------------------------------------
\* When the server's doctor prints its four [ok] lines, serve started on the
\* same machine reaches its accept loop, and a session gets through the key
\* files and the allow-list: no check that a session repeats is left out.
ServerDoctorPredicts ==
  toml.role = "server" /\ ServerDoctor(toml, machine) =>
    /\ ServerServe(toml, machine)
    /\ ServerSession(ServerFromToml(toml), machine.files)

\* When the client's doctor succeeds, serve reaches its accept loop and a
\* session gets through its keys, pin and TLS name: doctor goes the way of a
\* session, TLS included.
ClientDoctorPredicts ==
  toml.role = "client" /\ ClientDoctor(toml, machine) =>
    /\ ClientServe(toml, machine)
    /\ ClientSession(ClientFromToml(toml), machine.files)
=============================================================================

------------------------------- MODULE Config -------------------------------
(***************************************************************************)
(* The configuration files of both binaries: what from_toml fills in, what *)
(* validate accepts, and what doctor, the start of serve and the start of  *)
(* each session make of the files and sockets a configuration names.       *)
(*                                                                         *)
(* An optional setting is {} or the singleton of its value.  An address is *)
(* "loopback" or "other"; a name or key may be "blank" (empty or white     *)
(* space) and a path "blank" (empty); a public key is a key or one of      *)
(* NotKeys.  Checks are conjuncts in the order of the code: the first that *)
(* fails ends the function.                                                *)
(***************************************************************************)
EXTENDS Files, Naturals, Sequences

MAX_SERVER_STATIC_IDENTITIES == 8
MAX_CONCURRENT_CONNECTIONS == 1024
PlaintextRecordBytes == 16384

\* The configurations of examples/, with the identities and public keys filled
\* in, no outer TLS and every optional setting left out.
ServerToml(ids, clients) ==
  [role |-> "server", destination |-> "loopback", authorized_clients |-> clients,
   private_key_file |-> Head(ids), additional_private_key_files |-> Tail(ids),
   max_connections |-> {}, max_plaintext_record_bytes |-> {},
   tls_enabled |-> FALSE, certificate_file |-> {}, tls_private_key_file |-> {},
   destination_connect_seconds |-> {}, handshake_seconds |-> {},
   idle_seconds |-> {}]

ClientToml(id, pin) ==
  [role |-> "client", listen |-> "loopback", remote |-> "host",
   private_key_file |-> id, server_public_key |-> pin,
   tls_enabled |-> FALSE, server_name |-> {}, additional_ca_file |-> {},
   max_connections |-> {}, connect_seconds |-> {}, handshake_seconds |-> {},
   idle_seconds |-> {}]

\* serde's default for a setting that is missing.
Default(option, value) == IF option = {} THEN value ELSE CHOOSE v \in option : TRUE

\* ServerConfig and ClientConfig after deserialisation.
ServerFromToml(toml) == [toml EXCEPT
  !.max_connections = Default(@, 32),
  !.max_plaintext_record_bytes = Default(@, PlaintextRecordBytes),
  !.destination_connect_seconds = Default(@, 10),
  !.handshake_seconds = Default(@, 10),
  !.idle_seconds = Default(@, 600)]

ClientFromToml(toml) == [toml EXCEPT
  !.max_connections = Default(@, 32),
  !.connect_seconds = Default(@, 10),
  !.handshake_seconds = Default(@, 10),
  !.idle_seconds = Default(@, 600)]

IsBlank(text) == text = "blank"

\* The identity files in the order in which they are tried.
IdentityFiles(config) ==
  <<config.private_key_file>> \o config.additional_private_key_files

Distinct(s) == \A i, j \in 1 .. Len(s) : s[i] = s[j] => i = j

\* Mutant: the bound counts the additional identities only.
IdentityCountOffByOne(config) ==
  Len(config.additional_private_key_files) <= MAX_SERVER_STATIC_IDENTITIES
IdentityCountInBounds(config) ==
  1 + Len(config.additional_private_key_files) <= MAX_SERVER_STATIC_IDENTITIES

ServerValidate(config) ==
  /\ config.destination = "loopback"
  /\ config.authorized_clients # <<>>
  /\ \A i \in 1 .. Len(config.authorized_clients) :
       ~IsBlank(config.authorized_clients[i].name)
       /\ ~IsBlank(config.authorized_clients[i].public_key)
  /\ \A i \in 1 .. Len(IdentityFiles(config)) : ~IsBlank(IdentityFiles(config)[i])
  /\ IdentityCountInBounds(config)
  /\ Distinct(IdentityFiles(config))
  /\ config.max_connections \in 1 .. MAX_CONCURRENT_CONNECTIONS
  /\ config.max_plaintext_record_bytes = PlaintextRecordBytes
  /\ config.tls_enabled => config.certificate_file # {}
  /\ config.tls_enabled => config.tls_private_key_file # {}
  /\ config.destination_connect_seconds > 0
  /\ config.handshake_seconds > 0
  /\ config.idle_seconds > 0

ServerNameGiven(config) == \E name \in config.server_name : ~IsBlank(name)

ClientValidate(config) ==
  /\ config.listen = "loopback"
  /\ ~IsBlank(config.remote)
  /\ ~IsBlank(config.server_public_key)
  /\ config.tls_enabled => ServerNameGiven(config)
  /\ config.connect_seconds > 0
  /\ config.handshake_seconds > 0
  /\ config.idle_seconds > 0
  /\ config.max_connections \in 1 .. MAX_CONCURRENT_CONNECTIONS

-----------------------------------------------------------------------------
(* The server's commands, on a machine: [config_file, files, port_free,    *)
(* destination_up].                                                        *)

\* Mutant: only the primary identity is read.
read_primary_private_key(config, files) == read_private_key(files[config.private_key_file])
\* Every identity is read, and one that cannot be read fails the whole.
read_server_private_keys(config, files) ==
  \A i \in 1 .. Len(IdentityFiles(config)) :
    read_private_key(files[IdentityFiles(config)[i]])

tls_acceptor(config, files) ==
  \E certificate \in config.certificate_file, key \in config.tls_private_key_file :
    /\ enforce_sensitive_permissions(files[key])
    /\ exists(files[certificate]) /\ files[certificate].text = "certificate"
    /\ files[key].text = "certificate key"

\* Mutant: doctor does not look into the allow-list.
SkipAllowList(config) == TRUE
AllowListDecodes(config) ==
  \A i \in 1 .. Len(config.authorized_clients) :
    decodes(config.authorized_clients[i].public_key)

ServerLoads(toml, machine) ==
  /\ enforce_sensitive_permissions(machine.config_file)
  /\ ServerValidate(ServerFromToml(toml))

ServerDoctor(toml, machine) ==
  LET config == ServerFromToml(toml)
  IN /\ ServerLoads(toml, machine)
     /\ read_server_private_keys(config, machine.files)
     /\ config.tls_enabled => tls_acceptor(config, machine.files)
     /\ AllowListDecodes(config)
     /\ machine.port_free
     /\ machine.destination_up

\* serve up to its accept loop.  The keys are not read yet.
ServerServe(toml, machine) ==
  LET config == ServerFromToml(toml)
  IN /\ ServerLoads(toml, machine)
     /\ \A i \in 1 .. Len(IdentityFiles(config)) :
          enforce_sensitive_permissions(machine.files[IdentityFiles(config)[i]])
     /\ config.tls_enabled => tls_acceptor(config, machine.files)
     /\ machine.port_free

\* run_noise up to the first read, with the configuration serve loaded and
\* the files as they are now.
ServerSession(config, files) ==
  /\ read_server_private_keys(config, files)
  /\ \A i \in 1 .. Len(config.authorized_clients) :
       decodes(config.authorized_clients[i].public_key)
  /\ Len(IdentityFiles(config)) \in 1 .. MAX_SERVER_STATIC_IDENTITIES

\* Mutant: the responder is built for the primary identity alone.
primary_identity(config, files) == {files[config.private_key_file].text}
\* The keys with which a session tries to read the client's first message.
session_identities(config, files) ==
  {files[IdentityFiles(config)[i]].text : i \in 1 .. Len(IdentityFiles(config))}

\* The client keys that a session admits.
authorized_keys(config) ==
  {config.authorized_clients[i].public_key : i \in 1 .. Len(config.authorized_clients)}

-----------------------------------------------------------------------------
(* The client's commands, on a machine: [config_file, files, port_free,    *)
(* trust_roots, reachable].  reachable: the remote accepts the connection  *)
(* and proves the pinned identity.                                         *)

tls_connector(config, machine) ==
  /\ machine.trust_roots
  /\ \A ca \in config.additional_ca_file :
       exists(machine.files[ca]) /\ machine.files[ca].text = "certificate"

\* ServerName::try_from: a DNS name.
tls_server_name(config) ==
  \E name \in config.server_name : name \notin {"blank", "malformed"}

ClientLoads(toml, machine) ==
  /\ enforce_sensitive_permissions(machine.config_file)
  /\ ClientValidate(ClientFromToml(toml))

\* The identity a session of the client starts with.
ClientSession(config, files) ==
  /\ config.tls_enabled => tls_server_name(config)
  /\ read_private_key(files[config.private_key_file])
  /\ decodes(config.server_public_key)

\* Mutant: the remote is tried over plain TCP.
verify_remote_tcp(config, machine) == machine.reachable
verify_remote_noise(config, machine) ==
  /\ machine.reachable
  /\ config.tls_enabled => tls_connector(config, machine) /\ tls_server_name(config)

ClientDoctor(toml, machine) ==
  LET config == ClientFromToml(toml)
  IN /\ ClientLoads(toml, machine)
     /\ read_private_key(machine.files[config.private_key_file])
     /\ decodes(config.server_public_key)
     /\ machine.port_free
     /\ verify_remote_noise(config, machine)

ClientServe(toml, machine) ==
  LET config == ClientFromToml(toml)
  IN /\ ClientLoads(toml, machine)
     /\ enforce_sensitive_permissions(machine.files[config.private_key_file])
     /\ config.tls_enabled => tls_connector(config, machine)
     /\ machine.port_free
=============================================================================

------------------------------ MODULE Deployment ------------------------------
(***************************************************************************)
(* One server and one client in operation while their keys are rotated by  *)
(* the runbooks of docs/key-management.md: configuration files on disk,    *)
(* the configurations that the running processes loaded, key files that    *)
(* keygen creates and the server reads again for each session.  Processes  *)
(* stop and start at any time, and keygen may be killed or lose power.     *)
(*                                                                         *)
(* Server identity A is the key of command OldServer, the new identity B   *)
(* that of whichever keygen at NewPath reports success.  The client goes   *)
(* from key OldClient to NewClient.  A key's name stands for both halves.  *)
(***************************************************************************)
EXTENDS KeyFiles, Config

CONSTANTS OldServer, OldClient, NewClient, NewPath

ASSUME DeploymentAssumption ==
  /\ {OldServer, OldClient, NewClient} \subseteq Earlier
  /\ OldServer # OldClient /\ OldServer # NewClient /\ OldClient # NewClient
  /\ "blank" \notin Paths
  /\ NewPath \in Paths \ {Target[c] : c \in Earlier}

VARIABLES
  server_toml, client_toml,  \* the configuration files
  server, client             \* {} or the configuration a running serve loaded

deployvars == <<server_toml, client_toml, server, client>>
allvars == <<keyvars, deployvars>>

Allow(keys) == [i \in 1 .. Len(keys) |-> [name |-> "laptop", public_key |-> keys[i]]]

DeployInit ==
  /\ KeyInit
  /\ server_toml = ServerToml(<<Target[OldServer]>>, Allow(<<OldClient>>))
  /\ client_toml = ClientToml(Target[OldClient], OldServer)
  /\ server = {} /\ client = {}

Host ==
  [config_file |-> File("private", "toml"), files |-> file,
   port_free |-> TRUE, destination_up |-> TRUE, trust_roots |-> TRUE]

-----------------------------------------------------------------------------
(* The processes.                                                          *)

StartServer ==
  /\ server = {}
  /\ ServerServe(server_toml, Host)
  /\ server' = {ServerFromToml(server_toml)}
  /\ UNCHANGED <<keyvars, server_toml, client_toml, client>>

StopServer ==
  /\ server # {}
  /\ server' = {}
  /\ UNCHANGED <<keyvars, server_toml, client_toml, client>>

StartClient ==
  /\ client = {}
  /\ ClientServe(client_toml, Host)
  /\ client' = {ClientFromToml(client_toml)}
  /\ UNCHANGED <<keyvars, server_toml, client_toml, server>>

StopClient ==
  /\ client # {}
  /\ client' = {}
  /\ UNCHANGED <<keyvars, server_toml, client_toml, server>>

\* A session of these two gets through: both find their keys, the server has
\* the identity the client pins, and admits the key the client proves.
Connects(s, c) ==
  /\ ServerSession(s, file)
  /\ ClientSession(c, file)
  /\ c.server_public_key \in session_identities(s, file)
  /\ file[c.private_key_file].text \in authorized_keys(s)

-----------------------------------------------------------------------------
(* keygen on the server's host.                                            *)

Keygen ==
  /\ \/ \E c \in Commands : Command(c) \/ Kill(c)
     \/ RemoveDebris(NewPath)
  /\ UNCHANGED deployvars

ServerPowerLoss ==
  /\ PowerLoss
  /\ server' = {}
  /\ UNCHANGED <<server_toml, client_toml, client>>

-----------------------------------------------------------------------------
(* The runbooks (external).  A step waits until the one before has been    *)
(* verified on the running processes.                                      *)

Reported == {c \in Commands : Target[c] = NewPath /\ pc[c] = "done"}
ServerRuns(Has(_)) == \E s \in server : Has(s)
ClientRuns(Has(_)) == \E c \in client : Has(c)

\* Server-key rotation, steps 2 to 5.
AddIdentity ==
  /\ Reported # {}
  /\ IdentityFiles(server_toml) = <<Target[OldServer]>>
  /\ server_toml' = [server_toml EXCEPT !.additional_private_key_files = <<NewPath>>]
  /\ UNCHANGED <<keyvars, client_toml, server, client>>

PinNewIdentity ==
  /\ ServerRuns(LAMBDA s : Len(IdentityFiles(s)) = 2)
  /\ \E c \in Reported : client_toml' = [client_toml EXCEPT !.server_public_key = c]
  /\ UNCHANGED <<keyvars, server_toml, server, client>>

RetireIdentity ==
  /\ ClientRuns(LAMBDA c : c.server_public_key \in Reported)
  /\ Len(IdentityFiles(server_toml)) = 2
  /\ server_toml' = [server_toml EXCEPT !.private_key_file = NewPath,
                                        !.additional_private_key_files = <<>>]
  /\ UNCHANGED <<keyvars, client_toml, server, client>>

RemoveOldIdentity ==
  /\ ServerRuns(LAMBDA s : IdentityFiles(s) = <<NewPath>>)
  /\ RemoveFile(Target[OldServer])
  /\ UNCHANGED deployvars

\* Client-key rotation, steps 2 to 5.
AllowNewClient ==
  /\ authorized_keys(server_toml) = {OldClient}
  /\ server_toml' = [server_toml EXCEPT
                       !.authorized_clients = Allow(<<OldClient, NewClient>>)]
  /\ UNCHANGED <<keyvars, client_toml, server, client>>

UseNewClient ==
  /\ ServerRuns(LAMBDA s : NewClient \in authorized_keys(s))
  /\ client_toml.private_key_file = Target[OldClient]
  /\ client_toml' = [client_toml EXCEPT !.private_key_file = Target[NewClient]]
  /\ UNCHANGED <<keyvars, server_toml, server, client>>

RevokeOldClient ==
  /\ ClientRuns(LAMBDA c : c.private_key_file = Target[NewClient])
  /\ OldClient \in authorized_keys(server_toml)
  /\ server_toml' = [server_toml EXCEPT !.authorized_clients = Allow(<<NewClient>>)]
  /\ UNCHANGED <<keyvars, client_toml, server, client>>

RemoveOldClient ==
  /\ ServerRuns(LAMBDA s : authorized_keys(s) = {NewClient})
  /\ RemoveFile(Target[OldClient])
  /\ UNCHANGED deployvars

DeployNext ==
  \/ StartServer \/ StopServer \/ StartClient \/ StopClient
  \/ Keygen \/ ServerPowerLoss
  \/ AddIdentity \/ PinNewIdentity \/ RetireIdentity \/ RemoveOldIdentity
  \/ AllowNewClient \/ UseNewClient \/ RevokeOldClient \/ RemoveOldClient

DeploySpec == DeployInit /\ [][DeployNext]_allvars

-----------------------------------------------------------------------------
\* The two rotations, in any interleaving with each other, with restarts and
\* with interrupted keygens, never cut the client off: both processes can be
\* started from what is on disk, and whichever of them restarts, what runs
\* and what would be loaded next still connect, although the server reads
\* its identities again for each session and its allow-list only once.
RotationKeepsSessions ==
  /\ ServerServe(server_toml, Host)
  /\ ClientServe(client_toml, Host)
  /\ \A s \in server \cup {ServerFromToml(server_toml)},
        c \in client \cup {ClientFromToml(client_toml)} : Connects(s, c)

\* docs/key-management.md, "Removing a client public key from the server
\* allow-list prevents future sessions": a key that is no longer in the
\* configuration file is not admitted by the running server.
RevokedIsRefused ==
  \A s \in server : authorized_keys(s) \subseteq authorized_keys(server_toml)
=============================================================================

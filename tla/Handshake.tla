------------------------------ MODULE Handshake ------------------------------
(***************************************************************************)
(* The handshake half of the secure-tunnel library: ClientHandshake,       *)
(* ServerHandshake and ServerReply, as typestates whose methods a caller   *)
(* may call in any order and with any frame.  The binaries call them in    *)
(* the one order of complete_noise_handshake and of the server's           *)
(* run_noise; those behaviours are among the ones modelled here.           *)
(*                                                                         *)
(* Noise IK itself (snow) is external and symbolic.  A handshake object    *)
(* draws its own ephemeral key, so the first message of client object c    *)
(* and the reply of server object d are named by c and d.  The network     *)
(* may lose, repeat or misdirect frames and deliver bytes no one sent.     *)
(***************************************************************************)
EXTENDS Naturals, Sequences, FiniteSets

CONSTANTS
  Clients,       \* client handshake objects
  Servers,       \* server handshake objects (one per accepted connection)
  ClientKeys,    \* static keys of clients
  ServerKeys,    \* static keys of servers
  AllowList,     \* keys of authorized_clients
  MaxIdentities  \* MAX_SERVER_STATIC_IDENTITIES

ASSUME KeysAssumption == AllowList \subseteq ClientKeys
ASSUME IdentitiesAssumption == MaxIdentities \in Nat \ {0}

NoServer == "no server"
NoKey == "no key"
ASSUME NamesAssumption == NoServer \notin Servers

First(c) == [kind |-> "first", from |-> c]
Reply(d) == [kind |-> "reply", from |-> d]
Malformed == [kind |-> "malformed", from |-> "nobody"]  \* does not decode
Junk == [kind |-> "junk", from |-> "nobody"]            \* decodes, never sealed
Frames == {First(c) : c \in Clients} \cup {Reply(d) : d \in Servers}

VARIABLES
  wire,             \* frames that have been sent
  cstate,           \* cstate[c]: ClientHandshake.state: "absent", "some", "none"
  sent_first,       \* sent_first[c]
  key,              \* key[c]: the client's static key
  pin,              \* pin[c]: the server key it pins
  judged,           \* judged[c]: the frame its finish read
  csession,         \* csession[c]: the server object whose keys c shares
  sstate,           \* sstate[d]: ServerHandshake.static_identities
  identities,       \* identities[d]: the value it was built with
  preface_accepted, \* preface_accepted[d]
  tried,            \* tried[d]: the frame its one chance was spent on
  outcome,          \* outcome[d]: what receive_client made of it
  rstate,           \* rstate[d]: ServerReply.state
  sent_reply,       \* sent_reply[d]
  ssession          \* ssession[d]: d has become a TransportSession

client == <<cstate, sent_first, key, pin, judged, csession>>
server == <<sstate, identities, preface_accepted, tried, outcome>>
reply == <<rstate, sent_reply, ssession>>
vars == <<wire, cstate, sent_first, key, pin, judged, csession, sstate, identities,
          preface_accepted, tried, outcome, rstate, sent_reply, ssession>>

Init ==
  /\ wire = {}
  /\ cstate = [c \in Clients |-> "absent"]
  /\ sent_first = [c \in Clients |-> FALSE]
  /\ key = [c \in Clients |-> NoKey]
  /\ pin = [c \in Clients |-> NoKey]
  /\ judged = [c \in Clients |-> Malformed]
  /\ csession = [c \in Clients |-> NoServer]
  /\ sstate = [d \in Servers |-> "absent"]
  /\ identities = [d \in Servers |-> <<>>]
  /\ preface_accepted = [d \in Servers |-> FALSE]
  /\ tried = [d \in Servers |-> Malformed]
  /\ outcome = [d \in Servers |-> "none"]
  /\ rstate = [d \in Servers |-> "absent"]
  /\ sent_reply = [d \in Servers |-> FALSE]
  /\ ssession = [d \in Servers |-> FALSE]

-----------------------------------------------------------------------------
(* ClientHandshake.                                                        *)

ClientNew(c, k, p) ==
  /\ cstate[c] = "absent"
  /\ cstate' = [cstate EXCEPT ![c] = "some"]
  /\ key' = [key EXCEPT ![c] = k]
  /\ pin' = [pin EXCEPT ![c] = p]
  /\ UNCHANGED <<wire, sent_first, judged, csession, server, reply>>

\* A second call returns HandshakeOrder and changes nothing.
first_message(c) ==
  /\ cstate[c] = "some"
  /\ ~sent_first[c]
  /\ sent_first' = [sent_first EXCEPT ![c] = TRUE]
  /\ wire' = wire \cup {First(c)}
  /\ UNCHANGED <<cstate, key, pin, judged, csession, server, reply>>

\* Mutant: the static key the server answered with is not checked, as in a
\* pattern without a pinned responder key.
AnswersAny(f, c) == f.kind = "reply" /\ tried[f.from].kind = "first"
\* read_message by the initiator (snow): f answers the message c sent, and
\* only the holder of the pinned key can have made it.
Answers(f, c) == f.kind = "reply" /\ tried[f.from] = First(c)

\* Mutant: the state is put back when the reply does not verify.
FinishPutsBack(c) == UNCHANGED cstate
\* state.take(): whatever comes of the reply, the object is used up.
FinishTakes(c) == cstate' = [cstate EXCEPT ![c] = "none"]

\* A call before first_message, a frame that does not decode and a call
\* after the state is gone return an error and change nothing.
finish(c, f) ==
  /\ sent_first[c]
  /\ f # Malformed
  /\ cstate[c] = "some"
  /\ FinishTakes(c)
  /\ judged' = [judged EXCEPT ![c] = f]
  /\ csession' = [csession EXCEPT ![c] = IF Answers(f, c) THEN f.from ELSE NoServer]
  /\ UNCHANGED <<wire, sent_first, key, pin, server, reply>>

-----------------------------------------------------------------------------
(* ServerHandshake.                                                        *)

\* Mutant: the overlap is not bounded.
IdentitiesNotEmpty(ids) == Len(ids) > 0
\* MissingServerStaticIdentity or TooManyServerStaticIdentities otherwise.
IdentitiesAccepted(ids) == Len(ids) \in 1 .. MaxIdentities

new_with_static_identities(d, ids) ==
  /\ sstate[d] = "absent"
  /\ IdentitiesAccepted(ids)
  /\ sstate' = [sstate EXCEPT ![d] = "some"]
  /\ identities' = [identities EXCEPT ![d] = ids]
  /\ UNCHANGED <<wire, client, preface_accepted, tried, outcome, reply>>

\* Six bytes: whether the first four are the magic, and two version numbers.
Prefaces == [magic : BOOLEAN, major : 0 .. 2, minor : 0 .. 1]

\* Preface::parse.
parse(bytes) ==
  IF ~bytes.magic THEN "InvalidPreface"
  ELSE IF bytes.major # 1 \/ bytes.minor # 0 THEN "UnsupportedVersion"
  ELSE "V1"

\* An error of parse and a second call change nothing.
accept_preface(d, bytes) ==
  /\ sstate[d] # "absent"
  /\ ~preface_accepted[d]
  /\ parse(bytes) = "V1"
  /\ preface_accepted' = [preface_accepted EXCEPT ![d] = TRUE]
  /\ UNCHANGED <<wire, client, sstate, identities, tried, outcome, reply>>

\* read_message by a responder with static key k (snow): f is a first
\* message addressed to k.
OpenedBy(f, k) == f.kind = "first" /\ pin[f.from] = k

\* Mutant: the allow-list is not consulted.
AuthorisedAnyone(f) == TRUE
\* get_remote_static and allow_list.contains.
Authorised(f) == key[f.from] \in AllowList

\* Mutant: an identity that does not open the message ends the search, as
\* with read_message(...)? in the loop.
StopAtFailure(locals, f, k) ==
  IF locals.accepted \/ locals.last_error THEN locals
  ELSE IF ~OpenedBy(f, k) THEN [locals EXCEPT !.last_error = TRUE]
  ELSE IF Authorised(f) THEN [locals EXCEPT !.accepted = TRUE]
  ELSE [locals EXCEPT !.unauthorised_client = TRUE]
\* An iteration of the loop with identity k: it returns a ServerReply
\* (accepted, after which nothing is tried) or sets one of the two locals.
TryIdentity(locals, f, k) ==
  IF locals.accepted THEN locals
  ELSE IF ~OpenedBy(f, k) THEN [locals EXCEPT !.last_error = TRUE]
  ELSE IF Authorised(f) THEN [locals EXCEPT !.accepted = TRUE]
  ELSE [locals EXCEPT !.unauthorised_client = TRUE]

\* The loop over the identities, and what follows it: without an error to
\* report last_error.expect panics.
TryIdentities(ids, f) ==
  LET after[i \in 0 .. Len(ids)] ==
        IF i = 0
        THEN [accepted |-> FALSE, unauthorised_client |-> FALSE, last_error |-> FALSE]
        ELSE TryIdentity(after[i - 1], f, ids[i])
      locals == after[Len(ids)]
  IN IF locals.accepted THEN "Ok"
     ELSE IF locals.unauthorised_client THEN "UnauthorisedClient"
     ELSE IF locals.last_error THEN "Noise" ELSE "panic"

\* Mutant: the identities are cloned, so that a client may try again.
IdentitiesCloned(d) == UNCHANGED sstate
\* static_identities.take(): one chance per connection.
IdentitiesTaken(d) == sstate' = [sstate EXCEPT ![d] = "none"]

\* A call before accept_preface, a frame that does not decode and a call
\* after the identities are gone return an error and change nothing.
receive_client(d, f) ==
  /\ preface_accepted[d]
  /\ f # Malformed
  /\ sstate[d] = "some"
  /\ IdentitiesTaken(d)
  /\ tried' = [tried EXCEPT ![d] = f]
  /\ outcome' = [outcome EXCEPT ![d] = TryIdentities(identities[d], f)]
  /\ rstate' = [rstate EXCEPT ![d] =
                  IF TryIdentities(identities[d], f) = "Ok" THEN "some" ELSE "absent"]
  /\ UNCHANGED <<wire, client, identities, preface_accepted, sent_reply, ssession>>

-----------------------------------------------------------------------------
(* ServerReply.                                                            *)

\* A second call returns HandshakeOrder and changes nothing.
message(d) ==
  /\ rstate[d] = "some"
  /\ ~sent_reply[d]
  /\ sent_reply' = [sent_reply EXCEPT ![d] = TRUE]
  /\ wire' = wire \cup {Reply(d)}
  /\ UNCHANGED <<client, server, rstate, ssession>>

\* Consumes the reply; before message it returns HandshakeOrder and the
\* state is dropped with it.
into_session(d) ==
  /\ rstate[d] = "some"
  /\ rstate' = [rstate EXCEPT ![d] = "none"]
  /\ ssession' = [ssession EXCEPT ![d] = sent_reply[d]]
  /\ UNCHANGED <<wire, client, server, sent_reply>>

-----------------------------------------------------------------------------
\* What the network can hand to a reader.
Deliverable == wire \cup {Malformed, Junk}

IdentitySeqs == UNION {[1 .. n -> ServerKeys] : n \in 0 .. MaxIdentities + 1}

Next ==
  \/ \E c \in Clients :
       \/ \E k \in ClientKeys, p \in ServerKeys : ClientNew(c, k, p)
       \/ first_message(c)
       \/ \E f \in Deliverable : finish(c, f)
  \/ \E d \in Servers :
       \/ \E ids \in IdentitySeqs : new_with_static_identities(d, ids)
       \/ \E bytes \in Prefaces : accept_preface(d, bytes)
       \/ \E f \in Deliverable : receive_client(d, f)
       \/ message(d)
       \/ into_session(d)

Spec == Init /\ [][Next]_vars

-----------------------------------------------------------------------------
Options == {"absent", "some", "none"}

TypeOK ==
  /\ wire \subseteq Frames
  /\ cstate \in [Clients -> Options]
  /\ sent_first \in [Clients -> BOOLEAN]
  /\ key \in [Clients -> ClientKeys \cup {NoKey}]
  /\ pin \in [Clients -> ServerKeys \cup {NoKey}]
  /\ judged \in [Clients -> Frames \cup {Malformed, Junk}]
  /\ csession \in [Clients -> Servers \cup {NoServer}]
  /\ sstate \in [Servers -> Options]
  /\ identities \in [Servers -> Seq(ServerKeys)]
  /\ \A d \in Servers : Len(identities[d]) <= MaxIdentities
  /\ preface_accepted \in [Servers -> BOOLEAN]
  /\ tried \in [Servers -> Frames \cup {Malformed, Junk}]
  /\ outcome \in [Servers -> {"none", "Ok", "UnauthorisedClient", "Noise"}]
  /\ rstate \in [Servers -> Options]
  /\ sent_reply \in [Servers -> BOOLEAN]
  /\ ssession \in [Servers -> BOOLEAN]

\* A client whose finish returned a session shares it with a server object
\* that holds the key the client pinned, allows the client's key, answered
\* this client's own first message, and gives its keys to no other client:
\* lost, repeated and misdirected frames never join strangers.
Agreement ==
  \A c \in Clients : csession[c] # NoServer =>
    LET d == csession[c]
    IN /\ \E i \in 1 .. Len(identities[d]) : identities[d][i] = pin[c]
       /\ key[c] \in AllowList
       /\ tried[d] = First(c) /\ sent_reply[d]
       /\ \A b \in Clients \ {c} : csession[b] # d

\* A server object becomes a session only for a first message that an
\* allow-listed client addressed to one of its identities, after the
\* preface was accepted and with its reply on the wire.
ServerSessionAuthorised ==
  \A d \in Servers : ssession[d] =>
    /\ preface_accepted[d]
    /\ Reply(d) \in wire
    /\ \E c \in Clients : /\ tried[d] = First(c) /\ First(c) \in wire
                          /\ key[c] \in AllowList
                          /\ \E i \in 1 .. Len(identities[d]) : identities[d][i] = pin[c]

\* While server keys overlap, the loop of receive_client accepts an
\* allow-listed client whichever of the configured identities it pins, in
\* whatever order they are tried and however many fail before or after,
\* tells a known key that is not allowed from a message none of them opens,
\* and never comes to the end without an error to report.
OverlapOutcome ==
  \A d \in Servers, c \in Clients : tried[d] = First(c) =>
    /\ outcome[d] = "Ok" <=>
         /\ key[c] \in AllowList
         /\ \E i \in 1 .. Len(identities[d]) : identities[d][i] = pin[c]
    /\ outcome[d] = "Noise" <=>
         \A i \in 1 .. Len(identities[d]) : identities[d][i] # pin[c]
    /\ outcome[d] # "panic"

\* One frame, one verdict: a server object that has judged a first message,
\* or a client object that has judged a reply, never judges another one,
\* whatever its caller does.
OneChance ==
  [][/\ \A d \in Servers : outcome[d] # "none" =>
          outcome'[d] = outcome[d] /\ tried'[d] = tried[d]
     /\ \A c \in Clients : judged[c] # Malformed =>
          judged'[c] = judged[c] /\ csession'[c] = csession[c]]_vars
=============================================================================

-------------------------- MODULE TransportRecords --------------------------
(***************************************************************************)
(* The Noise transport of the shared library: TransportSession, its two    *)
(* halves TransportSender and TransportReceiver, and the functions         *)
(* seal_record and open_record they call (crates/secure-tunnel/src/lib.rs).*)
(*                                                                         *)
(* Each end keeps ONE Option<TransportState> behind a mutex, shared by its *)
(* sender and its receiver.  A call takes the state out of the option and  *)
(* puts it back only when it succeeds, so an error after the take closes   *)
(* both directions; an error before it leaves the session usable.  The     *)
(* mutex is held for the whole call, so a call is one action.              *)
(*                                                                         *)
(* A plaintext is represented by its length, and a ciphertext by the       *)
(* direction key, the nonce and the plaintext it was made with.  The       *)
(* network (environment) keeps every ciphertext ever sealed and may hand   *)
(* any of them to either end, any number of times, in any order, or never, *)
(* as well as ciphertexts nobody sealed and frames that do not parse.      *)
(***************************************************************************)
EXTENDS Naturals, Sequences

CONSTANTS NonceLimit,    \* first nonce the cipher refuses (2^64 - 1)
          Lengths        \* plaintext lengths callers pass to encrypt_record

ASSUME LengthsAssumption == Lengths \subseteq Nat
ASSUME LimitsAssumption == NonceLimit \in Nat

Peers == {"client", "server"}
Other(p) == IF p = "client" THEN "server" ELSE "client"

MAX_PLAINTEXT_RECORD == 16384
\* Mutant: the record limit forgets the AEAD tag.
MaxCiphertextWithoutTag == 16384
MAX_CIPHERTEXT_RECORD == 16400
TagLength == 16  \* bytes the AEAD adds to a plaintext

\* Ciphertexts that an end can seal, and the ones an attacker can make up.
Sealed == [key : Peers, nonce : Nat, plain : Nat]
Forged == [key : {"none"}, nonce : {0}, plain : Lengths]
MalformedFrame == [key |-> "malformed", nonce |-> 0, plain |-> 0]

VARIABLES
  some,      \* some[p]: p's Option<TransportState> is Some
  sendNonce, \* sendNonce[p]: next nonce of p's sending cipher
  recvNonce, \* recvNonce[p]: next nonce of p's receiving cipher
  wire,      \* every ciphertext ever sealed; the network replays at will
  sealed,    \* sealed[p]: history of the plaintexts p sealed
  opened,    \* opened[p]: history of the plaintexts p opened
  result     \* result[p]: outcome of the last call at p

vars == <<some, sendNonce, recvNonce, wire, sealed, opened, result>>

\* TransportSession::new on both ends of a finished handshake.
Init ==
  /\ some = [p \in Peers |-> TRUE]
  /\ sendNonce = [p \in Peers |-> 0]
  /\ recvNonce = [p \in Peers |-> 0]
  /\ wire = {}
  /\ sealed = [p \in Peers |-> <<>>]
  /\ opened = [p \in Peers |-> <<>>]
  /\ result = [p \in Peers |-> "none"]

Return(p, r) == result' = [result EXCEPT ![p] = r]

\* An early return: the shared state is not touched.
ReturnEarly(p, r) ==
  /\ Return(p, r)
  /\ UNCHANGED <<some, sendNonce, recvNonce, wire, sealed, opened>>

\* Mutant: the state is put back although the call failed.
TakeUndone(p) == UNCHANGED some
\* An error after locked.take(): the option stays None, for both halves.
TakeWithoutReturn(p) == some' = [some EXCEPT ![p] = FALSE]

ReturnClosed(p, r) ==
  /\ Return(p, r)
  /\ TakeWithoutReturn(p)
  /\ UNCHANGED <<sendNonce, recvNonce, wire, sealed, opened>>

-----------------------------------------------------------------------------
\* Mutant: the sending cipher forgets to advance past its last nonce.
AdvanceCapped(n) == IF n + 1 < NonceLimit THEN n + 1 ELSE n
\* write_message and read_message use a nonce once and then advance it.
Advance(n) == n + 1

\* Mutant: the reserved nonce is used.
SealFailsLate(p, x) == sendNonce[p] > NonceLimit
\* write_message refuses the reserved nonce; the length check that follows
\* it in seal_record is the second disjunct.
SealFails(p, x) ==
  \/ sendNonce[p] >= NonceLimit
  \/ x + TagLength > MAX_CIPHERTEXT_RECORD

seal_record(p, x) ==
  \/ /\ x > MAX_PLAINTEXT_RECORD
     /\ ReturnEarly(p, "PlaintextTooLarge")
  \/ /\ x <= MAX_PLAINTEXT_RECORD
     /\ ~some[p]
     /\ ReturnEarly(p, "ClosedSession")
  \/ /\ x <= MAX_PLAINTEXT_RECORD
     /\ some[p]
     /\ SealFails(p, x)
     /\ ReturnClosed(p, "SealFailed")
  \/ /\ x <= MAX_PLAINTEXT_RECORD
     /\ some[p]
     /\ ~SealFails(p, x)
     /\ wire' = wire \cup
          {[key |-> p, nonce |-> sendNonce[p], plain |-> x]}
     /\ sendNonce' = [sendNonce EXCEPT ![p] = Advance(@)]
     /\ sealed' = [sealed EXCEPT ![p] = Append(@, x)]
     /\ Return(p, "Ok")
     /\ UNCHANGED <<some, recvNonce, opened>>

\* Mutant: any record of the right direction is accepted, in any order.
AuthenticInAnyOrder(p, f) == f.key = Other(p)
\* read_message: the AEAD key is the opposite end's sending key and the
\* nonce is the receiver's own counter, so only the next record verifies.
Authentic(p, f) ==
  /\ f.key = Other(p)
  /\ f.nonce = recvNonce[p]
  /\ recvNonce[p] < NonceLimit

decode_record_frame(f) ==
  /\ f.key # "malformed"
  /\ f.plain + TagLength <= MAX_CIPHERTEXT_RECORD

open_record(p, f) ==
  \/ /\ ~decode_record_frame(f)
     /\ ReturnEarly(p, "FrameError")
  \/ /\ decode_record_frame(f)
     /\ ~some[p]
     /\ ReturnEarly(p, "ClosedSession")
  \/ /\ decode_record_frame(f)
     /\ some[p]
     /\ ~(Authentic(p, f) /\ f.plain <= MAX_PLAINTEXT_RECORD)
     /\ ReturnClosed(p, "OpenFailed")
  \/ /\ decode_record_frame(f)
     /\ some[p]
     /\ Authentic(p, f) /\ f.plain <= MAX_PLAINTEXT_RECORD
     /\ recvNonce' = [recvNonce EXCEPT ![p] = Advance(@)]
     /\ opened' = [opened EXCEPT ![p] = Append(@, f.plain)]
     /\ Return(p, "Ok")
     /\ UNCHANGED <<some, sendNonce, wire, sealed>>

\* The network hands an end any ciphertext it has seen or made up, or bytes
\* that are not one complete frame.
Delivered == wire \cup Forged \cup {MalformedFrame}

Next ==
  \E p \in Peers :
    \/ \E x \in Lengths : seal_record(p, x)
    \/ \E f \in Delivered : open_record(p, f)

Spec == Init /\ [][Next]_vars

-----------------------------------------------------------------------------
Results == {"none", "Ok", "PlaintextTooLarge", "ClosedSession", "SealFailed",
            "FrameError", "OpenFailed"}

TypeOK ==
  /\ some \in [Peers -> BOOLEAN]
  /\ sendNonce \in [Peers -> 0 .. NonceLimit]
  /\ recvNonce \in [Peers -> 0 .. NonceLimit]
  /\ wire \subseteq Sealed
  /\ sealed \in [Peers -> Seq(Nat)]
  /\ opened \in [Peers -> Seq(Nat)]
  /\ result \in [Peers -> Results]

\* open_record returns to each end a prefix of what the other end passed to
\* seal_record: nothing replayed, reordered, reflected, skipped or made up,
\* whatever the network delivers and even if the caller goes on after an
\* error that left the session open.
PrefixDelivered ==
  \A p \in Peers :
    /\ Len(opened[p]) <= Len(sealed[Other(p)])
    /\ \A i \in 1 .. Len(opened[p]) : opened[p][i] = sealed[Other(p)][i]

\* seal_record never encrypts two plaintexts under one key and nonce, the
\* last nonce before the limit included.
NonceUsedOnce ==
  \A c, d \in wire : c.key = d.key /\ c.nonce = d.nonce => c = d

\* The two size limits agree: whatever seal_record accepts passes the peer's
\* decode_record_frame, and sealing fails after the take only when the
\* nonces are used up (the CiphertextTooLarge return cannot be reached).
LimitsAgree ==
  /\ \A c \in wire : decode_record_frame(c)
  /\ \A p \in Peers : result[p] = "SealFailed" => sendNonce[p] = NonceLimit

Terminal == {"ClosedSession", "SealFailed", "OpenFailed"}

\* After a call at an end failed inside the cipher, no later call there, by
\* the sender or by the receiver half, seals or opens anything.
FailClosedStep(p) ==
  result[p] \in Terminal \/ ~some[p] =>
    /\ sealed'[p] = sealed[p]
    /\ opened'[p] = opened[p]
    /\ ~some'[p]
FailClosed == [][\A p \in Peers : FailClosedStep(p)]_vars

Channel == INSTANCE RecordChannel
             WITH Payloads <- Lengths, sent <- sealed, received <- opened, up <- some

\* seal_record and open_record implement the channel that the relays rely on:
\* every call is a send, an in-order receipt, a failure or invisible.
ImplementsChannel == Channel!Spec
=============================================================================

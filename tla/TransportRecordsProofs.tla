----------------------- MODULE TransportRecordsProofs -----------------------
(***************************************************************************)
(* Proofs about TransportRecords for every size limit, nonce limit and set *)
(* of plaintexts.                                                          *)
(***************************************************************************)
EXTENDS TransportRecords, TLAPS

(***************************************************************************)
(* PrefixDelivered alone is not inductive: that the next accepted record   *)
(* is the next sealed one needs what the ciphertexts on the wire and the   *)
(* two counters say about the histories.                                   *)
(***************************************************************************)
\* A ciphertext on the wire was sealed at the position its nonce names.
WireMatchesHistory ==
  \A c \in wire : c.nonce < Len(sealed[c.key])
                  /\ c.plain = sealed[c.key][c.nonce + 1]

\* The counters of an end count what it has sealed and opened.
NoncesCountHistory ==
  \A p \in Peers : sendNonce[p] = Len(sealed[p]) /\ recvNonce[p] = Len(opened[p])

\* A result that reports a failure inside the cipher stands for a closed end.
TerminalMeansClosed == \A p \in Peers : result[p] \in Terminal => ~some[p]

IInv ==
  /\ TypeOK
  /\ NoncesCountHistory
  /\ WireMatchesHistory
  /\ PrefixDelivered
  /\ TerminalMeansClosed

USE LengthsAssumption, LimitsAssumption

LEMMA OtherPeer == \A p \in Peers : Other(p) \in Peers /\ Other(p) # p
BY DEF Peers, Other

LEMMA InitIInv == Init => IInv
BY OtherPeer DEF Init, IInv, TypeOK, NoncesCountHistory, WireMatchesHistory,
                 PrefixDelivered, TerminalMeansClosed, Terminal, Sealed, Results

\* An early return and a failure after the take leave the histories alone.
LEMMA QuietStep ==
  ASSUME IInv, NEW p \in Peers, NEW r \in Results,
         \/ ReturnEarly(p, r) /\ (r \in Terminal => ~some[p])
         \/ ReturnClosed(p, r)
  PROVE  IInv'
<1>1. UNCHANGED <<sendNonce, recvNonce, wire, sealed, opened>>
  BY DEF ReturnEarly, ReturnClosed
<1>2. some' \in [Peers -> BOOLEAN]
  BY DEF IInv, TypeOK, ReturnEarly, ReturnClosed, TakeWithoutReturn
<1>3. result' \in [Peers -> Results]
  BY DEF IInv, TypeOK, ReturnEarly, ReturnClosed, Return
<1>4. TypeOK'
  BY <1>1, <1>2, <1>3 DEF IInv, TypeOK
<1>5. (NoncesCountHistory /\ WireMatchesHistory /\ PrefixDelivered)'
  BY <1>1 DEF IInv, NoncesCountHistory, WireMatchesHistory, PrefixDelivered
<1>6. TerminalMeansClosed'
  BY DEF IInv, TypeOK, TerminalMeansClosed, ReturnEarly, ReturnClosed,
         TakeWithoutReturn, Return
<1> QED BY <1>4, <1>5, <1>6 DEF IInv

LEMMA SeqLengths ==
  ASSUME TypeOK
  PROVE  \A p \in Peers : Len(sealed[p]) \in Nat /\ Len(opened[p]) \in Nat
BY DEF TypeOK

LEMMA SealStep ==
  ASSUME IInv, NEW p \in Peers, NEW x \in Lengths, seal_record(p, x)
  PROVE  IInv'
<1>0. TypeOK /\ NoncesCountHistory /\ WireMatchesHistory /\ PrefixDelivered
  BY DEF IInv
<1>1. CASE \/ ReturnEarly(p, "PlaintextTooLarge")
           \/ ~some[p] /\ ReturnEarly(p, "ClosedSession")
           \/ ReturnClosed(p, "SealFailed")
  BY <1>1, QuietStep DEF Results, Terminal
<1>2. CASE /\ ~SealFails(p, x)
           /\ wire' = wire \cup
                {[key |-> p, nonce |-> sendNonce[p], plain |-> x]}
           /\ sendNonce' = [sendNonce EXCEPT ![p] = Advance(@)]
           /\ sealed' = [sealed EXCEPT ![p] = Append(@, x)]
           /\ Return(p, "Ok")
           /\ UNCHANGED <<some, recvNonce, opened>>
  <2>1. x \in Nat /\ sendNonce[p] \in Nat /\ sealed[p] \in Seq(Nat)
    BY <1>0 DEF TypeOK
  <2>2. TypeOK'
    BY <1>2, <2>1, <1>0 DEF TypeOK, SealFails, Advance, Sealed, Return, Results
  <2>3. NoncesCountHistory'
    BY <1>2, <2>1, <1>0 DEF TypeOK, NoncesCountHistory, Advance
  <2>4. \A q \in Peers : /\ Len(sealed'[q]) >= Len(sealed[q])
                         /\ \A i \in 1 .. Len(sealed[q]) :
                              sealed'[q][i] = sealed[q][i]
    BY <1>2, <2>1, <1>0 DEF TypeOK
  <2>5. WireMatchesHistory'
    <3> SUFFICES ASSUME NEW c \in wire'
                 PROVE  /\ c.nonce < Len(sealed'[c.key])
                        /\ c.plain = sealed'[c.key][c.nonce + 1]
      BY DEF WireMatchesHistory
    <3>1. CASE c \in wire
      <4>1. c.key \in Peers /\ c.nonce \in Nat
        BY <3>1, <1>0 DEF TypeOK, Sealed
      <4>2. c.nonce + 1 \in 1 .. Len(sealed[c.key])
        <5>1. c.nonce < Len(sealed[c.key])
          BY <3>1, <1>0 DEF WireMatchesHistory
        <5> QED BY <4>1, <5>1, SeqLengths
      <4>3. c.plain = sealed[c.key][c.nonce + 1]
        BY <3>1, <1>0 DEF WireMatchesHistory
      <4>4. c.plain = sealed'[c.key][c.nonce + 1]
        BY <4>1, <4>2, <4>3, <2>4
      <4>5. Len(sealed'[c.key]) \in Nat
        BY <4>1, <2>2 DEF TypeOK
      <4> QED BY <4>1, <4>2, <4>4, <4>5, <2>4, SeqLengths
    <3>2. CASE c = [key |-> p, nonce |-> sendNonce[p], plain |-> x]
      BY <3>2, <1>2, <2>1, <1>0 DEF TypeOK, NoncesCountHistory
    <3> QED BY <3>1, <3>2, <1>2
  <2>6. PrefixDelivered'
    <3> SUFFICES ASSUME NEW q \in Peers
                 PROVE  /\ Len(opened[q]) <= Len(sealed'[Other(q)])
                        /\ \A i \in 1 .. Len(opened[q]) :
                             opened[q][i] = sealed'[Other(q)][i]
      BY <1>2 DEF PrefixDelivered
    <3>1. /\ Len(opened[q]) <= Len(sealed[Other(q)])
          /\ \A i \in 1 .. Len(opened[q]) : opened[q][i] = sealed[Other(q)][i]
      BY <1>0 DEF PrefixDelivered
    <3>2. Other(q) \in Peers /\ Len(sealed'[Other(q)]) \in Nat
      BY <2>2, OtherPeer DEF TypeOK
    <3> QED BY <3>1, <3>2, <2>4, <1>0, SeqLengths
  <2>7. TerminalMeansClosed'
    BY <1>2 DEF IInv, TypeOK, TerminalMeansClosed, Terminal, Return
  <2> QED BY <2>2, <2>3, <2>5, <2>6, <2>7 DEF IInv
<1> QED BY <1>1, <1>2 DEF seal_record

LEMMA OpenStep ==
  ASSUME IInv, NEW p \in Peers, NEW f \in Delivered, open_record(p, f)
  PROVE  IInv'
<1>0. TypeOK /\ NoncesCountHistory /\ WireMatchesHistory /\ PrefixDelivered
  BY DEF IInv
<1>1. CASE \/ ReturnEarly(p, "FrameError")
           \/ ~some[p] /\ ReturnEarly(p, "ClosedSession")
           \/ ReturnClosed(p, "OpenFailed")
  BY <1>1, QuietStep DEF Results, Terminal
<1>2. CASE /\ Authentic(p, f)
           /\ recvNonce' = [recvNonce EXCEPT ![p] = Advance(@)]
           /\ opened' = [opened EXCEPT ![p] = Append(@, f.plain)]
           /\ Return(p, "Ok")
           /\ UNCHANGED <<some, sendNonce, wire, sealed>>
  <2>1. f \in wire
    BY <1>2, OtherPeer DEF Delivered, Forged, MalformedFrame, Authentic, Peers
  <2>2. f.plain \in Nat /\ recvNonce[p] \in Nat /\ opened[p] \in Seq(Nat)
        /\ f.key = Other(p) /\ f.nonce = recvNonce[p] /\ recvNonce[p] < NonceLimit
    BY <1>2, <2>1, <1>0 DEF TypeOK, Sealed, Authentic
  <2>3. TypeOK'
    BY <1>2, <2>2, <1>0 DEF TypeOK, Advance, Return, Results
  <2>4. NoncesCountHistory'
    BY <1>2, <2>2, <1>0 DEF TypeOK, NoncesCountHistory, Advance
  <2>5. WireMatchesHistory'
    BY <1>2, <1>0 DEF WireMatchesHistory
  <2>6. /\ Len(opened[p]) < Len(sealed[Other(p)])
        /\ f.plain = sealed[Other(p)][Len(opened[p]) + 1]
    BY <2>1, <2>2, <1>0 DEF NoncesCountHistory, WireMatchesHistory
  <2>7. PrefixDelivered'
    <3> SUFFICES ASSUME NEW q \in Peers
                 PROVE  /\ Len(opened'[q]) <= Len(sealed[Other(q)])
                        /\ \A i \in 1 .. Len(opened'[q]) :
                             opened'[q][i] = sealed[Other(q)][i]
      BY <1>2 DEF PrefixDelivered
    <3>1. /\ Len(opened[q]) <= Len(sealed[Other(q)])
          /\ \A i \in 1 .. Len(opened[q]) : opened[q][i] = sealed[Other(q)][i]
      BY <1>0 DEF PrefixDelivered
    <3>2. Other(q) \in Peers /\ Len(sealed[Other(q)]) \in Nat
      BY <1>0, OtherPeer, SeqLengths
    <3>3. CASE q = p
      <4>1. opened'[p] = Append(opened[p], f.plain)
        BY <1>2, <1>0 DEF TypeOK
      <4> QED BY <3>1, <3>2, <3>3, <4>1, <2>2, <2>6
    <3>4. CASE q # p
      BY <3>1, <3>4, <1>2, <1>0 DEF TypeOK
    <3> QED BY <3>3, <3>4
  <2>8. TerminalMeansClosed'
    BY <1>2 DEF IInv, TypeOK, TerminalMeansClosed, Terminal, Return
  <2> QED BY <2>3, <2>4, <2>5, <2>7, <2>8 DEF IInv
<1> QED BY <1>1, <1>2 DEF open_record

LEMMA NextIInv == IInv /\ [Next]_vars => IInv'
<1> SUFFICES ASSUME IInv, [Next]_vars PROVE IInv'
  OBVIOUS
<1>1. CASE UNCHANGED vars
  BY <1>1 DEF vars, IInv, TypeOK, NoncesCountHistory, WireMatchesHistory,
              PrefixDelivered, TerminalMeansClosed
<1>2. CASE Next
  BY <1>2, SealStep, OpenStep DEF Next
<1> QED BY <1>1, <1>2

\* The states of the transport have their types: in particular no nonce
\* counter passes the limit the cipher reserves.
THEOREM TypeCorrect == Spec => []TypeOK
<1>1. IInv => TypeOK
  BY DEF IInv
<1> QED BY <1>1, InitIInv, NextIInv, PTL DEF Spec

\* open_record hands each end a prefix of what the other end sealed, for
\* every behaviour of the network.
THEOREM PrefixDelivery == Spec => []PrefixDelivered
<1>1. IInv => PrefixDelivered
  BY DEF IInv
<1> QED BY <1>1, InitIInv, NextIInv, PTL DEF Spec

\* seal_record never uses one key and nonce for two plaintexts.
THEOREM NonceUniqueness == Spec => []NonceUsedOnce
<1>1. IInv => NonceUsedOnce
  <2> SUFFICES ASSUME wire \subseteq Sealed, WireMatchesHistory,
                      NEW c \in wire, NEW d \in wire,
                      c.key = d.key, c.nonce = d.nonce
               PROVE  c = d
    BY DEF IInv, TypeOK, NonceUsedOnce
  <2> QED BY DEF Sealed, WireMatchesHistory
<1> QED BY <1>1, InitIInv, NextIInv, PTL DEF Spec

\* Whatever seal_record accepts fits the peer's frame limit, and it fails
\* inside the cipher only when the nonces are used up.
THEOREM SizeLimitsAgree == Spec => []LimitsAgree
<1>1. Init => LimitsAgree
  BY DEF Init, LimitsAgree
<1>2. LimitsAgree /\ IInv /\ [Next]_vars => LimitsAgree'
  <2> SUFFICES ASSUME LimitsAgree, IInv, [Next]_vars PROVE LimitsAgree'
    OBVIOUS
  <2>1. CASE UNCHANGED vars
    BY <2>1 DEF vars, LimitsAgree, decode_record_frame
  <2>2. ASSUME NEW p \in Peers, NEW x \in Lengths, seal_record(p, x)
        PROVE  LimitsAgree'
    <3>1. x \in Nat /\ sendNonce[p] \in 0 .. NonceLimit
      BY DEF IInv, TypeOK
    <3>2. \A c \in wire' : decode_record_frame(c)
      BY <2>2, <3>1 DEF seal_record, ReturnEarly, ReturnClosed, SealFails, LimitsAgree,
                        decode_record_frame, Peers, MAX_CIPHERTEXT_RECORD,
                        MAX_PLAINTEXT_RECORD, TagLength
    <3>3. \A q \in Peers : result'[q] = "SealFailed" => sendNonce'[q] = NonceLimit
      <4>1. result \in [Peers -> Results] /\ sendNonce \in [Peers -> 0 .. NonceLimit]
        BY DEF IInv, TypeOK
      <4> QED BY <2>2, <3>1, <4>1 DEF seal_record, ReturnEarly, ReturnClosed, Return,
                                      SealFails, LimitsAgree, MAX_CIPHERTEXT_RECORD,
                                      MAX_PLAINTEXT_RECORD, TagLength
    <3> QED BY <3>2, <3>3 DEF LimitsAgree, decode_record_frame
  <2>3. ASSUME NEW p \in Peers, NEW f \in Delivered, open_record(p, f)
        PROVE  LimitsAgree'
    BY <2>3 DEF open_record, ReturnEarly, ReturnClosed, Return, LimitsAgree,
                decode_record_frame, IInv, TypeOK
  <2> QED BY <2>1, <2>2, <2>3 DEF Next
<1> QED BY <1>1, <1>2, InitIInv, NextIInv, PTL DEF Spec

\* A failure inside the cipher ends both halves of that end for good.
THEOREM FailsClosed == Spec => FailClosed
<1>1. IInv /\ [Next]_vars => [\A p \in Peers : FailClosedStep(p)]_vars
  <2> SUFFICES ASSUME IInv, Next, NEW p \in Peers, ~some[p]
               PROVE  /\ sealed'[p] = sealed[p]
                      /\ opened'[p] = opened[p]
                      /\ ~some'[p]
    BY DEF IInv, TerminalMeansClosed, FailClosedStep
  <2>1. ASSUME NEW q \in Peers, NEW x \in Lengths, seal_record(q, x)
        PROVE  /\ sealed'[p] = sealed[p]
               /\ opened'[p] = opened[p]
               /\ ~some'[p]
    BY <2>1 DEF seal_record, ReturnEarly, ReturnClosed, TakeWithoutReturn, IInv, TypeOK
  <2>2. ASSUME NEW q \in Peers, NEW f \in Delivered, open_record(q, f)
        PROVE  /\ sealed'[p] = sealed[p]
               /\ opened'[p] = opened[p]
               /\ ~some'[p]
    BY <2>2 DEF open_record, ReturnEarly, ReturnClosed, TakeWithoutReturn, IInv, TypeOK
  <2> QED BY <2>1, <2>2 DEF Next
<1> QED BY <1>1, InitIInv, NextIInv, PTL DEF Spec, FailClosed

\* The transport refines RecordChannel: a successful seal is a send, a
\* successful open is the receipt of the next payload, an error after the
\* take is a failure, and an early return is invisible.
THEOREM Refinement == Spec => ImplementsChannel
<1>1. Init => Channel!Init
  BY DEF Init, Channel!Init
<1>2. IInv /\ [Next]_vars => [Channel!Next]_Channel!vars
  <2> SUFFICES ASSUME IInv, [Next]_vars
               PROVE  Channel!Next \/ UNCHANGED Channel!vars
    OBVIOUS
  <2>1. CASE UNCHANGED vars
    BY <2>1 DEF vars, Channel!vars
  <2>2. ASSUME NEW p \in Peers, NEW r, ReturnEarly(p, r)
        PROVE  UNCHANGED Channel!vars
    BY <2>2 DEF ReturnEarly, Channel!vars
  <2>3. ASSUME NEW p \in Peers, NEW r, some[p], ReturnClosed(p, r)
        PROVE  Channel!Fail(p)
    BY <2>3 DEF ReturnClosed, TakeWithoutReturn, Channel!Fail
  <2>4. ASSUME NEW p \in Peers, NEW x \in Lengths, seal_record(p, x)
        PROVE  Channel!Next \/ UNCHANGED Channel!vars
    <3>1. CASE \E r : ReturnEarly(p, r) \/ (some[p] /\ ReturnClosed(p, r))
      BY <3>1, <2>2, <2>3 DEF Channel!Next
    <3>2. CASE /\ some[p]
               /\ sealed' = [sealed EXCEPT ![p] = Append(@, x)]
               /\ UNCHANGED <<some, opened>>
      BY <3>2 DEF Channel!Next, Channel!Send
    <3> QED BY <2>4, <3>1, <3>2 DEF seal_record
  <2>5. ASSUME NEW p \in Peers, NEW f \in Delivered, open_record(p, f)
        PROVE  Channel!Next \/ UNCHANGED Channel!vars
    <3>1. CASE \E r : ReturnEarly(p, r) \/ (some[p] /\ ReturnClosed(p, r))
      BY <3>1, <2>2, <2>3 DEF Channel!Next
    <3>2. CASE /\ some[p]
               /\ Authentic(p, f)
               /\ opened' = [opened EXCEPT ![p] = Append(@, f.plain)]
               /\ UNCHANGED <<some, sealed>>
      <4>1. f \in wire
        BY <3>2, OtherPeer DEF Delivered, Forged, MalformedFrame, Authentic, Peers
      <4>2. /\ Len(opened[p]) < Len(sealed[Other(p)])
            /\ f.plain = sealed[Other(p)][Len(opened[p]) + 1]
        BY <3>2, <4>1 DEF IInv, NoncesCountHistory, WireMatchesHistory, Authentic
      <4>3. Channel!Receive(p)
        BY <3>2, <4>2 DEF Channel!Receive
      <4> QED BY <4>3 DEF Channel!Next
    <3> QED BY <2>5, <3>1, <3>2 DEF open_record
  <2> QED BY <2>1, <2>4, <2>5 DEF Next
<1> QED BY <1>1, <1>2, InitIInv, NextIInv, PTL DEF Spec, ImplementsChannel, Channel!Spec
=============================================================================

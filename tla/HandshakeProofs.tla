--------------------------- MODULE HandshakeProofs ---------------------------
(***************************************************************************)
(* Agreement and authorisation for any number of handshake objects, keys   *)
(* and server identities.                                                  *)
(***************************************************************************)
EXTENDS Handshake, Recursion, TLAPS

USE KeysAssumption, IdentitiesAssumption, NamesAssumption

Holds(d, k) == \E i \in 1 .. Len(identities[d]) : identities[d][i] = k

(***************************************************************************)
(* The inductive invariant.  Keys and identities are frozen before they    *)
(* are used: a first message is on the wire only when its client exists,   *)
(* and a frame is tried only by a server object that exists.  What became  *)
(* of a frame is remembered by the objects it went through.                *)
(***************************************************************************)
WireIsSent ==
  /\ \A c \in Clients : First(c) \in wire => cstate[c] # "absent"
  /\ \A d \in Servers : Reply(d) \in wire <=> sent_reply[d]

ServerHistory ==
  \A d \in Servers :
    /\ sstate[d] # "absent" => Len(identities[d]) > 0
    /\ sstate[d] = "none" <=> outcome[d] # "none"
    /\ outcome[d] = "none" => rstate[d] = "absent" /\ tried[d] = Malformed
    /\ outcome[d] # "none" => preface_accepted[d]
    /\ tried[d] \in wire \cup {Malformed, Junk}
    /\ outcome[d] = "Ok" => \E c \in Clients : tried[d] = First(c)
    /\ rstate[d] # "absent" => outcome[d] = "Ok"
    /\ sent_reply[d] => rstate[d] # "absent"
    /\ ssession[d] => sent_reply[d] /\ rstate[d] = "none"

ClientHistory ==
  \A c \in Clients :
    /\ judged[c] # Malformed => cstate[c] = "none"
    /\ csession[c] # NoServer =>
         /\ cstate[c] = "none"
         /\ tried[csession[c]] = First(c)
         /\ sent_reply[csession[c]]

IInv ==
  /\ TypeOK
  /\ WireIsSent
  /\ ServerHistory
  /\ ClientHistory
  /\ OverlapOutcome

\* Frames of different objects differ.
LEMMA FramesDiffer ==
  /\ \A b, c : First(b) = First(c) => b = c
  /\ \A d, e : Reply(d) = Reply(e) => d = e
  /\ \A c, d : First(c) # Reply(d)
  /\ \A c : First(c) # Malformed /\ First(c) # Junk
  /\ \A d : Reply(d) # Malformed /\ Reply(d) # Junk
  /\ Malformed # Junk
BY DEF First, Reply, Malformed, Junk

-----------------------------------------------------------------------------
(* The loop over the identities.                                           *)

Locals == [accepted : BOOLEAN, unauthorised_client : BOOLEAN, last_error : BOOLEAN]
Start == [accepted |-> FALSE, unauthorised_client |-> FALSE, last_error |-> FALSE]

RunOf(ids, f, v) ==
  v = [i \in 0 .. Len(ids) |-> IF i = 0 THEN Start ELSE TryIdentity(v[i - 1], f, ids[i])]

LEMMA TryIdentityType ==
  ASSUME NEW l \in Locals, NEW f, NEW k
  PROVE  TryIdentity(l, f, k) \in Locals
BY DEF TryIdentity, Locals

LEMMA LoopRuns ==
  ASSUME NEW ids, NEW f, Len(ids) \in Nat
  PROVE  \E v : RunOf(ids, f, v)
<1> DEFINE m == Len(ids)
           step == [p \in (1 .. m) \X Locals |-> TryIdentity(p[2], f, ids[p[1]])]
<1>1. step \in [(1 .. m) \X Locals -> Locals]
  <2> SUFFICES ASSUME NEW p \in (1 .. m) \X Locals
               PROVE  TryIdentity(p[2], f, ids[p[1]]) \in Locals
    OBVIOUS
  <2>1. p[2] \in Locals
    OBVIOUS
  <2> QED BY <2>1, TryIdentityType
<1>2. Start \in Locals /\ m \in Nat
  BY DEF Start, Locals
<1>3. PICK g : RunsTo(g, m, Locals, Start, step)
  <2> HIDE DEF step, m
  <2> QED BY <1>1, <1>2, BoundedRecursion
<1>4. ASSUME NEW i \in 0 .. m
      PROVE  g[i] = IF i = 0 THEN Start ELSE TryIdentity(g[i - 1], f, ids[i])
  <2>1. CASE i = 0
    BY <1>3, <2>1 DEF RunsTo
  <2>2. CASE i # 0
    <3>1. i \in 1 .. m /\ i - 1 \in 0 .. m
      BY <1>2, <2>2
    <3>2. g[i] = step[<<i, g[i - 1]>>] /\ g[i - 1] \in Locals
      <4> HIDE DEF step, m
      <4> QED BY <1>3, <3>1 DEF RunsTo
    <3> QED BY <2>2, <3>1, <3>2
  <2> QED BY <2>1, <2>2
<1>5. g = [i \in 0 .. m |-> g[i]]
  <2> HIDE DEF step, m
  <2> QED BY <1>3 DEF RunsTo
<1>6. RunOf(ids, f, g)
  <2> HIDE DEF step
  <2> QED BY <1>4, <1>5 DEF RunOf
<1> QED BY <1>6

\* One of the first n identities opens the message.
OpenedUpTo(ids, f, n) == \E i \in 1 .. n : OpenedBy(f, ids[i])

\* The loop invariant: what the locals say after n iterations.
LocalsSay(ids, f, l, n) ==
  /\ l \in Locals
  /\ l.accepted <=> Authorised(f) /\ OpenedUpTo(ids, f, n)
  /\ l.unauthorised_client <=> ~Authorised(f) /\ OpenedUpTo(ids, f, n)
  /\ n > 0 /\ ~OpenedUpTo(ids, f, n) => l.last_error

LEMMA LoopStep ==
  ASSUME NEW ids, NEW f, NEW l, NEW n \in Nat, LocalsSay(ids, f, l, n)
  PROVE  LocalsSay(ids, f, TryIdentity(l, f, ids[n + 1]), n + 1)
<1>1. OpenedUpTo(ids, f, n + 1) <=> OpenedUpTo(ids, f, n) \/ OpenedBy(f, ids[n + 1])
  <2>1. 1 .. n + 1 = (1 .. n) \cup {n + 1}
    OBVIOUS
  <2> QED BY <2>1 DEF OpenedUpTo
<1>2. l \in Locals /\ TryIdentity(l, f, ids[n + 1]) \in Locals
  BY TryIdentityType DEF LocalsSay
<1>3. CASE l.accepted
  BY <1>1, <1>2, <1>3 DEF LocalsSay, TryIdentity
<1>4. CASE ~l.accepted /\ ~OpenedBy(f, ids[n + 1])
  BY <1>1, <1>2, <1>4 DEF LocalsSay, TryIdentity, Locals
<1>5. CASE ~l.accepted /\ OpenedBy(f, ids[n + 1])
  BY <1>1, <1>2, <1>5 DEF LocalsSay, TryIdentity, Locals
<1> QED BY <1>3, <1>4, <1>5

LEMMA LoopMeans ==
  ASSUME NEW ids, NEW f, NEW v, Len(ids) \in Nat, RunOf(ids, f, v)
  PROVE  LocalsSay(ids, f, v[Len(ids)], Len(ids))
<1> DEFINE m == Len(ids)
           S == {n \in Nat : n <= m => LocalsSay(ids, f, v[n], n)}
<1>0. /\ m \in Nat /\ v[0] = Start
      /\ \A i \in 1 .. m : v[i] = TryIdentity(v[i - 1], f, ids[i])
  BY DEF RunOf
<1> HIDE DEF m
<1>1. 0 \in S
  <2>1. ~OpenedUpTo(ids, f, 0)
    BY DEF OpenedUpTo
  <2>2. LocalsSay(ids, f, Start, 0)
    <3>1. /\ Start \in Locals /\ ~Start.accepted /\ ~Start.unauthorised_client
          /\ ~(0 > 0)
      BY DEF Start, Locals
    <3> HIDE DEF S
    <3> QED BY <2>1, <3>1 DEF LocalsSay
  <2> QED BY <1>0, <2>2
<1>2. ASSUME NEW n \in Nat, n \in S
      PROVE  n + 1 \in S
  <2> SUFFICES ASSUME n + 1 <= m PROVE LocalsSay(ids, f, v[n + 1], n + 1)
    OBVIOUS
  <2>1. n + 1 \in 1 .. m /\ (n + 1) - 1 = n /\ n <= m
    BY <1>0
  <2>2. v[n + 1] = TryIdentity(v[n], f, ids[n + 1])
    BY <1>0, <2>1
  <2>3. LocalsSay(ids, f, v[n], n)
    BY <1>2, <2>1
  <2>4. LocalsSay(ids, f, TryIdentity(v[n], f, ids[n + 1]), n + 1)
    BY <2>3, LoopStep
  <2> QED BY <2>2, <2>4
<1>3. \A n \in Nat : n \in S
  <2> HIDE DEF S
  <2> QED BY <1>1, <1>2, SetInduction
<1>4. LocalsSay(ids, f, v[m], m)
  BY <1>0, <1>3
<1> QED BY <1>4 DEF m

\* What the loop returns, for any number of identities in any order.
LEMMA TryResult ==
  ASSUME NEW d \in Servers, NEW f \in Deliverable,
         Len(identities[d]) \in Nat \ {0}
  PROVE  /\ TryIdentities(identities[d], f) \in {"Ok", "UnauthorisedClient", "Noise"}
         /\ TryIdentities(identities[d], f) = "Ok" <=>
              f.kind = "first" /\ key[f.from] \in AllowList /\ Holds(d, pin[f.from])
         /\ TryIdentities(identities[d], f) = "Noise" <=>
              ~(f.kind = "first" /\ Holds(d, pin[f.from]))
<1> DEFINE ids == identities[d]
           c == CHOOSE v : RunOf(ids, f, v)
           l == c[Len(ids)]
<1>1. TryIdentities(ids, f) =
        IF l.accepted THEN "Ok"
        ELSE IF l.unauthorised_client THEN "UnauthorisedClient"
        ELSE IF l.last_error THEN "Noise" ELSE "panic"
  BY DEF TryIdentities, RunOf, Start
<1>2. RunOf(ids, f, c)
  <2>1. \E v : RunOf(ids, f, v)
    BY LoopRuns
  <2> QED BY <2>1
<1> HIDE DEF c
<1>3. LocalsSay(ids, f, l, Len(ids))
  BY <1>2, LoopMeans
<1>4. OpenedUpTo(ids, f, Len(ids)) <=> f.kind = "first" /\ Holds(d, pin[f.from])
  BY DEF OpenedUpTo, OpenedBy, Holds
<1>5. Authorised(f) <=> key[f.from] \in AllowList
  BY DEF Authorised
<1> HIDE DEF l
<1>6. Len(ids) > 0
  OBVIOUS
<1> QED BY <1>1, <1>3, <1>4, <1>5, <1>6 DEF LocalsSay, Locals

-----------------------------------------------------------------------------
(* The inductive invariant holds.                                          *)

LEMMA InitIInv == Init => IInv
<1> SUFFICES ASSUME Init PROVE IInv
  OBVIOUS
<1>1. TypeOK
  BY DEF Init, TypeOK, Options
<1>2. WireIsSent /\ ClientHistory
  BY DEF Init, WireIsSent, ClientHistory
<1>3. ServerHistory
  BY DEF Init, ServerHistory
<1>4. OverlapOutcome
  BY FramesDiffer DEF Init, OverlapOutcome
<1> QED BY <1>1, <1>2, <1>3, <1>4 DEF IInv

-----------------------------------------------------------------------------
LEMMA ClientNewStep ==
  ASSUME IInv, NEW c \in Clients, NEW k \in ClientKeys, NEW p \in ServerKeys,
         ClientNew(c, k, p)
  PROVE  IInv'
<1>1. TypeOK'
  BY DEF IInv, TypeOK, ClientNew, server, reply, Options
<1>2. WireIsSent' /\ ClientHistory'
  BY DEF IInv, TypeOK, ClientNew, server, reply, WireIsSent, ClientHistory
<1>3. ServerHistory'
  BY DEF IInv, ClientNew, server, reply, ServerHistory
<1>4. First(c) \notin wire
  BY DEF IInv, WireIsSent, ClientNew
<1>5. OverlapOutcome'
  <2> SUFFICES ASSUME NEW d \in Servers, NEW b \in Clients, tried[d] = First(b)
               PROVE  key'[b] = key[b] /\ pin'[b] = pin[b]
    BY DEF IInv, OverlapOutcome, ClientNew, server
  <2>1. First(b) \in wire
    BY FramesDiffer DEF IInv, ServerHistory
  <2> QED BY <1>4, <2>1 DEF IInv, TypeOK, ClientNew
<1> QED BY <1>1, <1>2, <1>3, <1>5 DEF IInv

LEMMA FirstMessageStep ==
  ASSUME IInv, NEW c \in Clients, first_message(c)
  PROVE  IInv'
<1>1. TypeOK'
  BY DEF IInv, TypeOK, first_message, server, reply, Frames
<1>2. WireIsSent'
  BY FramesDiffer DEF IInv, TypeOK, first_message, reply, WireIsSent
<1>3. ServerHistory' /\ ClientHistory'
  BY DEF IInv, first_message, server, reply, ServerHistory, ClientHistory
<1>4. OverlapOutcome'
  BY DEF IInv, first_message, server, OverlapOutcome
<1> QED BY <1>1, <1>2, <1>3, <1>4 DEF IInv

LEMMA FinishStep ==
  ASSUME IInv, NEW c \in Clients, NEW f \in Deliverable, finish(c, f)
  PROVE  IInv'
<1>1. ASSUME Answers(f, c)
      PROVE  /\ f.from \in Servers
             /\ tried[f.from] = First(c)
             /\ sent_reply[f.from]
  <2>1. PICK d \in Servers : f = Reply(d) /\ Reply(d) \in wire
    BY <1>1 DEF Answers, IInv, TypeOK, Frames, Deliverable, First, Reply, Malformed, Junk
  <2>2. f.from = d
    BY <2>1 DEF Reply
  <2> QED BY <1>1, <2>1, <2>2 DEF Answers, IInv, WireIsSent
<1>2. TypeOK'
  <2>1. csession' \in [Clients -> Servers \cup {NoServer}]
    BY <1>1 DEF IInv, TypeOK, finish
  <2>2. judged' \in [Clients -> Frames \cup {Malformed, Junk}]
    BY DEF IInv, TypeOK, finish, Deliverable
  <2>3. cstate' \in [Clients -> Options]
    BY DEF IInv, TypeOK, finish, FinishTakes, Options
  <2> QED BY <2>1, <2>2, <2>3 DEF IInv, TypeOK, finish, server, reply
<1>3. WireIsSent' /\ ServerHistory' /\ OverlapOutcome'
  BY DEF IInv, TypeOK, finish, FinishTakes, server, reply, WireIsSent, ServerHistory,
         OverlapOutcome
<1>4. ClientHistory'
  <2> SUFFICES ASSUME NEW b \in Clients
               PROVE  /\ judged'[b] # Malformed => cstate'[b] = "none"
                      /\ csession'[b] # NoServer =>
                           /\ cstate'[b] = "none"
                           /\ tried[csession'[b]] = First(b)
                           /\ sent_reply[csession'[b]]
    BY DEF ClientHistory, finish, server, reply
  <2>1. CASE b = c
    BY <2>1, <1>1 DEF IInv, TypeOK, finish, FinishTakes
  <2>2. CASE b # c
    BY <2>2 DEF IInv, TypeOK, finish, FinishTakes, ClientHistory
  <2> QED BY <2>1, <2>2
<1> QED BY <1>2, <1>3, <1>4 DEF IInv

LEMMA ServerNewStep ==
  ASSUME IInv, NEW d \in Servers, NEW ids \in IdentitySeqs,
         new_with_static_identities(d, ids)
  PROVE  IInv'
<1>1. ids \in Seq(ServerKeys) /\ Len(ids) <= MaxIdentities
  BY DEF IdentitySeqs, new_with_static_identities, IdentitiesAccepted
<1>2. TypeOK'
  BY <1>1 DEF IInv, TypeOK, new_with_static_identities, client, reply, Options
<1>3. WireIsSent' /\ ClientHistory'
  BY DEF IInv, new_with_static_identities, client, reply, WireIsSent, ClientHistory
<1>4. ServerHistory'
  <2>1. /\ Len(ids) > 0 /\ sstate[d] = "absent"
        /\ sstate' = [sstate EXCEPT ![d] = "some"]
        /\ identities' = [identities EXCEPT ![d] = ids]
        /\ UNCHANGED <<wire, preface_accepted, tried, outcome, rstate, sent_reply, ssession>>
    BY <1>1 DEF new_with_static_identities, IdentitiesAccepted, client, reply
  <2>2. sstate \in [Servers -> Options] /\ identities \in [Servers -> Seq(ServerKeys)]
    BY DEF IInv, TypeOK
  <2> QED BY <2>1, <2>2 DEF IInv, ServerHistory
<1>5. tried[d] = Malformed
  BY DEF IInv, TypeOK, Options, ServerHistory, new_with_static_identities
<1>6. OverlapOutcome'
  <2> SUFFICES ASSUME NEW e \in Servers, NEW c \in Clients, tried[e] = First(c)
               PROVE  identities'[e] = identities[e]
    BY DEF IInv, OverlapOutcome, new_with_static_identities, client
  <2> QED BY <1>5, FramesDiffer DEF IInv, TypeOK, new_with_static_identities
<1> QED BY <1>2, <1>3, <1>4, <1>6 DEF IInv

LEMMA AcceptPrefaceStep ==
  ASSUME IInv, NEW d \in Servers, NEW bytes \in Prefaces, accept_preface(d, bytes)
  PROVE  IInv'
<1>1. TypeOK'
  BY DEF IInv, TypeOK, accept_preface, client, reply
<1>2. WireIsSent' /\ ClientHistory' /\ OverlapOutcome'
  BY DEF IInv, accept_preface, client, reply, WireIsSent, ClientHistory, OverlapOutcome
<1>3. ServerHistory'
  BY DEF IInv, TypeOK, accept_preface, client, reply, ServerHistory
<1> QED BY <1>1, <1>2, <1>3 DEF IInv

LEMMA ReceiveClientStep ==
  ASSUME IInv, NEW d \in Servers, NEW f \in Deliverable, receive_client(d, f)
  PROVE  IInv'
<1> DEFINE out == TryIdentities(identities[d], f)
<1>1. /\ out \in {"Ok", "UnauthorisedClient", "Noise"}
      /\ out = "Ok" <=>
           f.kind = "first" /\ key[f.from] \in AllowList /\ Holds(d, pin[f.from])
      /\ out = "Noise" <=> ~(f.kind = "first" /\ Holds(d, pin[f.from]))
  <2>1. Len(identities[d]) \in Nat \ {0}
    BY DEF IInv, TypeOK, ServerHistory, receive_client
  <2> QED BY <2>1, TryResult
<1>2. f \in Frames \cup {Malformed, Junk}
  BY DEF IInv, TypeOK, Deliverable
<1>3. f.kind = "first" => \E c \in Clients : f = First(c)
  BY <1>2 DEF Frames, First, Reply, Malformed, Junk
<1>4. /\ outcome' = [outcome EXCEPT ![d] = out]
      /\ rstate' = [rstate EXCEPT ![d] = IF out = "Ok" THEN "some" ELSE "absent"]
      /\ tried' = [tried EXCEPT ![d] = f]
      /\ sstate' = [sstate EXCEPT ![d] = "none"]
      /\ sstate[d] = "some" /\ preface_accepted[d] /\ f # Malformed
      /\ UNCHANGED <<wire, client, identities, preface_accepted, sent_reply, ssession>>
  BY DEF receive_client, IdentitiesTaken
<1> HIDE DEF out
<1>5. outcome[d] = "none" /\ rstate[d] = "absent" /\ tried[d] = Malformed
      /\ ~sent_reply[d] /\ ~ssession[d]
  BY <1>4 DEF IInv, TypeOK, ServerHistory
<1>6. TypeOK'
  BY <1>1, <1>2, <1>4 DEF IInv, TypeOK, client, Options
<1>7. WireIsSent'
  BY <1>4 DEF IInv, WireIsSent, client
<1>8. ServerHistory'
  <2> SUFFICES ASSUME NEW e \in Servers
               PROVE  /\ sstate'[e] # "absent" => Len(identities[e]) > 0
                      /\ sstate'[e] = "none" <=> outcome'[e] # "none"
                      /\ outcome'[e] = "none" => rstate'[e] = "absent" /\ tried'[e] = Malformed
                      /\ outcome'[e] # "none" => preface_accepted[e]
                      /\ tried'[e] \in wire \cup {Malformed, Junk}
                      /\ outcome'[e] = "Ok" => \E c \in Clients : tried'[e] = First(c)
                      /\ rstate'[e] # "absent" => outcome'[e] = "Ok"
                      /\ sent_reply[e] => rstate'[e] # "absent"
                      /\ ssession[e] => sent_reply[e] /\ rstate'[e] = "none"
    BY <1>4 DEF ServerHistory
  <2>0. Len(identities[d]) > 0
    BY <1>4 DEF IInv, ServerHistory
  <2>1. CASE e = d
    BY <2>0, <2>1, <1>1, <1>3, <1>4, <1>5 DEF IInv, TypeOK, Deliverable
  <2>2. CASE e # d
    BY <2>2, <1>4 DEF IInv, TypeOK, ServerHistory
  <2> QED BY <2>1, <2>2
<1>9. ClientHistory'
  <2> SUFFICES ASSUME NEW c \in Clients, csession[c] # NoServer
               PROVE  tried'[csession[c]] = tried[csession[c]]
    BY <1>4 DEF IInv, ClientHistory, client
  <2>1. csession[c] # d
    BY <1>5, FramesDiffer DEF IInv, ClientHistory
  <2> QED BY <1>4, <2>1 DEF IInv, TypeOK
<1>10. OverlapOutcome'
  <2> SUFFICES ASSUME NEW e \in Servers, NEW c \in Clients, tried'[e] = First(c)
               PROVE  /\ outcome'[e] = "Ok" <=> key[c] \in AllowList /\ Holds(e, pin[c])
                      /\ outcome'[e] = "Noise" <=> ~Holds(e, pin[c])
                      /\ outcome'[e] # "panic"
    BY <1>4 DEF OverlapOutcome, Holds, client
  <2>1. CASE e = d
    <3>1. f = First(c) /\ outcome'[e] = out
      BY <2>1, <1>4 DEF IInv, TypeOK
    <3>2. f.kind = "first" /\ f.from = c
      BY <3>1 DEF First
    <3> QED BY <2>1, <3>1, <3>2, <1>1
  <2>2. CASE e # d
    BY <2>2, <1>4 DEF IInv, TypeOK, OverlapOutcome, Holds
  <2> QED BY <2>1, <2>2
<1> QED BY <1>6, <1>7, <1>8, <1>9, <1>10 DEF IInv

LEMMA MessageStep ==
  ASSUME IInv, NEW d \in Servers, message(d)
  PROVE  IInv'
<1>1. TypeOK'
  BY DEF IInv, TypeOK, message, client, server, Frames
<1>2. WireIsSent'
  BY FramesDiffer DEF IInv, TypeOK, message, client, WireIsSent
<1>3. ServerHistory'
  BY DEF IInv, TypeOK, message, server, ServerHistory
<1>4. ClientHistory' /\ OverlapOutcome'
  BY DEF IInv, TypeOK, message, client, server, ClientHistory, OverlapOutcome
<1> QED BY <1>1, <1>2, <1>3, <1>4 DEF IInv

LEMMA IntoSessionStep ==
  ASSUME IInv, NEW d \in Servers, into_session(d)
  PROVE  IInv'
<1>1. TypeOK'
  BY DEF IInv, TypeOK, into_session, client, server, Options
<1>2. WireIsSent' /\ ClientHistory' /\ OverlapOutcome'
  BY DEF IInv, into_session, client, server, WireIsSent, ClientHistory, OverlapOutcome
<1>3. ServerHistory'
  BY DEF IInv, TypeOK, into_session, server, ServerHistory
<1> QED BY <1>1, <1>2, <1>3 DEF IInv

LEMMA NextIInv == IInv /\ [Next]_vars => IInv'
<1> SUFFICES ASSUME IInv, [Next]_vars PROVE IInv'
  OBVIOUS
<1>1. CASE UNCHANGED vars
  BY <1>1 DEF vars, IInv, TypeOK, WireIsSent, ServerHistory, ClientHistory, OverlapOutcome
<1>2. CASE Next
  BY <1>2, ClientNewStep, FirstMessageStep, FinishStep, ServerNewStep, AcceptPrefaceStep,
     ReceiveClientStep, MessageStep, IntoSessionStep DEF Next
<1> QED BY <1>1, <1>2

-----------------------------------------------------------------------------
\* The handshake objects have their types, and no server object is built
\* with more identities than the library allows.
THEOREM TypeCorrect == Spec => []TypeOK
<1>1. IInv => TypeOK
  BY DEF IInv
<1> QED BY <1>1, InitIInv, NextIInv, PTL DEF Spec

\* A client session is shared with the server it pinned and with no other
\* client, whatever the network does with the frames.
THEOREM ClientAgreement == Spec => []Agreement
<1>1. IInv => Agreement
  <2> SUFFICES ASSUME IInv, NEW c \in Clients, csession[c] # NoServer
               PROVE  /\ Holds(csession[c], pin[c])
                      /\ key[c] \in AllowList
                      /\ tried[csession[c]] = First(c) /\ sent_reply[csession[c]]
                      /\ \A b \in Clients \ {c} : csession[b] # csession[c]
    BY DEF Agreement, Holds
  <2>1. csession[c] \in Servers
    BY DEF IInv, TypeOK
  <2>2. tried[csession[c]] = First(c) /\ sent_reply[csession[c]]
    BY DEF IInv, ClientHistory
  <2>3. outcome[csession[c]] = "Ok"
    BY <2>1, <2>2 DEF IInv, ServerHistory
  <2>4. Holds(csession[c], pin[c]) /\ key[c] \in AllowList
    BY <2>1, <2>2, <2>3 DEF IInv, OverlapOutcome, Holds
  <2>5. ASSUME NEW b \in Clients \ {c}, csession[b] = csession[c] PROVE FALSE
    BY <2>2, <2>5, FramesDiffer DEF IInv, ClientHistory
  <2> QED BY <2>2, <2>4, <2>5
<1> QED BY <1>1, InitIInv, NextIInv, PTL DEF Spec

\* A server session exists only for an allow-listed client that addressed
\* one of the server's identities.
THEOREM SessionAuthorisation == Spec => []ServerSessionAuthorised
<1>1. IInv => ServerSessionAuthorised
  <2> SUFFICES ASSUME IInv, NEW d \in Servers, ssession[d]
               PROVE  /\ preface_accepted[d]
                      /\ Reply(d) \in wire
                      /\ \E c \in Clients : /\ tried[d] = First(c) /\ First(c) \in wire
                                            /\ key[c] \in AllowList
                                            /\ Holds(d, pin[c])
    BY DEF ServerSessionAuthorised, Holds
  <2>1. outcome[d] = "Ok" /\ preface_accepted[d] /\ Reply(d) \in wire
    BY DEF IInv, ServerHistory, WireIsSent
  <2>2. PICK c \in Clients : tried[d] = First(c)
    BY <2>1 DEF IInv, ServerHistory
  <2>3. First(c) \in wire
    BY <2>2, FramesDiffer DEF IInv, ServerHistory
  <2>4. key[c] \in AllowList /\ Holds(d, pin[c])
    BY <2>1, <2>2 DEF IInv, OverlapOutcome, Holds
  <2> QED BY <2>1, <2>2, <2>3, <2>4
<1> QED BY <1>1, InitIInv, NextIInv, PTL DEF Spec

\* For any number of identities, whatever the order in which the loop of
\* receive_client tries them, the verdict on a first message depends only on
\* the set of identities and on the allow-list, and the loop never ends
\* without one.
THEOREM OverlapVerdict == Spec => []OverlapOutcome
<1>1. IInv => OverlapOutcome
  BY DEF IInv
<1> QED BY <1>1, InitIInv, NextIInv, PTL DEF Spec

\* No object judges a second frame.
THEOREM SingleChance == Spec => OneChance
<1>1. ASSUME IInv, [Next]_vars
      PROVE  /\ \A d \in Servers : outcome[d] # "none" =>
                  outcome'[d] = outcome[d] /\ tried'[d] = tried[d]
             /\ \A c \in Clients : judged[c] # Malformed =>
                  judged'[c] = judged[c] /\ csession'[c] = csession[c]
  <2>1. CASE UNCHANGED vars
    BY <2>1 DEF vars
  <2>2. ASSUME NEW c \in Clients,
               \/ \E k \in ClientKeys, p \in ServerKeys : ClientNew(c, k, p)
               \/ first_message(c)
        PROVE  UNCHANGED <<outcome, tried, judged, csession>>
    BY <2>2 DEF ClientNew, first_message, server
  <2>3. ASSUME NEW c \in Clients, NEW f \in Deliverable, finish(c, f)
        PROVE  /\ UNCHANGED <<outcome, tried>>
               /\ \A b \in Clients : judged[b] # Malformed =>
                    judged'[b] = judged[b] /\ csession'[b] = csession[b]
    BY <1>1, <2>3 DEF IInv, TypeOK, ClientHistory, finish, server
  <2>4. ASSUME NEW d \in Servers, NEW f \in Deliverable, receive_client(d, f)
        PROVE  /\ UNCHANGED <<judged, csession>>
               /\ \A e \in Servers : outcome[e] # "none" =>
                    outcome'[e] = outcome[e] /\ tried'[e] = tried[e]
    BY <1>1, <2>4 DEF IInv, TypeOK, ServerHistory, receive_client, client
  <2>5. ASSUME NEW d \in Servers,
               \/ \E ids \in IdentitySeqs : new_with_static_identities(d, ids)
               \/ \E bytes \in Prefaces : accept_preface(d, bytes)
               \/ message(d) \/ into_session(d)
        PROVE  UNCHANGED <<outcome, tried, judged, csession>>
    BY <2>5 DEF new_with_static_identities, accept_preface, message, into_session,
                client, server
  <2> QED BY <1>1, <2>1, <2>2, <2>3, <2>4, <2>5 DEF Next
<1> QED BY <1>1, InitIInv, NextIInv, PTL DEF Spec, OneChance
=============================================================================

--------------------------- MODULE RecordChannel ---------------------------
(***************************************************************************)
(* What an authenticated transport promises its two users, whatever the    *)
(* network between them does: each end receives a prefix of what the other *)
(* end sent, in order, once and unaltered, and an end that has failed      *)
(* neither sends nor receives again.                                       *)
(***************************************************************************)
EXTENDS Naturals, Sequences

CONSTANTS Peers,      \* the two ends of the session
          Other(_),   \* the opposite end
          Payloads    \* what an end may send

VARIABLES sent,       \* sent[p]: what p has handed to the channel
          received,   \* received[p]: what the channel has handed to p
          up          \* up[p]: p's end still works

vars == <<sent, received, up>>

Init ==
  /\ sent = [p \in Peers |-> <<>>]
  /\ received = [p \in Peers |-> <<>>]
  /\ up = [p \in Peers |-> TRUE]

Send(p, x) ==
  /\ up[p]
  /\ sent' = [sent EXCEPT ![p] = Append(@, x)]
  /\ UNCHANGED <<received, up>>

Receive(p) ==
  /\ up[p]
  /\ Len(received[p]) < Len(sent[Other(p)])
  /\ received' = [received EXCEPT ![p] =
                    Append(@, sent[Other(p)][Len(received[p]) + 1])]
  /\ UNCHANGED <<sent, up>>

Fail(p) ==
  /\ up[p]
  /\ up' = [up EXCEPT ![p] = FALSE]
  /\ UNCHANGED <<sent, received>>

Next ==
  \E p \in Peers :
    \/ \E x \in Payloads : Send(p, x)
    \/ Receive(p)
    \/ Fail(p)

Spec == Init /\ [][Next]_vars
=============================================================================

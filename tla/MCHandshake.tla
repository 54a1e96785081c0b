----------------------------- MODULE MCHandshake -----------------------------
(* Instances of Handshake with interchangeable handshake objects and server  *)
(* keys.  Client keys are told apart by the allow-list.                      *)
EXTENDS Handshake, TLC

HandshakeSymmetry ==
  Permutations(Clients) \cup Permutations(Servers) \cup Permutations(ServerKeys)
=============================================================================

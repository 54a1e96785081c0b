----------------------------- MODULE MCDeployment -----------------------------
(* An instance of Deployment: two attempts at the new server key.          *)
EXTENDS Deployment

MCTarget ==
  [c \in Commands |-> CASE c = "a" -> "server.key"
                        [] c = "ca" -> "client.key"
                        [] c = "cb" -> "client-new.key"
                        [] OTHER -> "server-new.key"]
=============================================================================

---------------------------- MODULE CloseReason ----------------------------
(***************************************************************************)
(* CloseReason::from_error of both binaries: the reason a session closed,  *)
(* found by searching the lower-cased text of the error chain for phrases. *)
(*                                                                         *)
(* An error is named after the place that raises it, and stands for the    *)
(* phrases that the text of its whole chain ("{error:#}") contains.        *)
(***************************************************************************)
\* The phrases of "Noise handshake failed: client static key is not
\* authorised", of "outer TLS handshake timed out", and so on.  The last
\* group comes with no context that from_error knows: I/O errors (a refused
\* connection among them), an unsupported version, an unreadable key file.
Phrases(error) ==
  CASE error = "shutdown requested"   -> {"shutdown requested"}
    [] error = "idle timeout"         -> {"idle timeout"}
    [] error = "outer TLS timeout"    -> {"outer tls", "handshake"}
    [] error = "outer TLS rejected"   -> {"certificate"}
    [] error = "preface timeout"      -> {"preface"}
    [] error = "InvalidPreface"       -> {"preface"}
    [] error = "handshake timeout"    -> {"noise handshake", "handshake"}
    [] error = "handshake rejected"   -> {"noise handshake", "handshake", "decrypt"}
    [] error = "UnauthorisedClient"   -> {"noise handshake", "handshake"}
    [] error = "destination timeout"  -> {"destination connect"}
    [] error = "record rejected"      -> {"decrypt"}
    [] error = "ClosedSession"        -> {"handshake"}
    [] error \in {"destination refused", "UnsupportedVersion", "io", "key file",
                  "remote timeout"} -> {}

\* The if-else chain, first match wins.
from_error(error) ==
  LET Contains(phrase) == phrase \in Phrases(error)
  IN IF Contains("shutdown requested") THEN "Shutdown"
     ELSE IF Contains("idle timeout") THEN "IdleTimeout"
     ELSE IF Contains("outer tls") \/ Contains("certificate") THEN "OuterTlsFailed"
     ELSE IF Contains("decrypt") THEN "DecryptFailed"
     ELSE IF Contains("destination connect") THEN "DestinationConnectFailed"
     ELSE IF Contains("unauthorised client") THEN "UnauthorizedClient"
     ELSE IF Contains("noise handshake") \/ Contains("preface")
             \/ Contains("handshake") THEN "NoiseHandshakeFailed"
     ELSE "TransportError"
=============================================================================

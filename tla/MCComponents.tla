----------------------------- MODULE MCComponents -----------------------------
(***************************************************************************)
(* Components that share no state with each other, checked side by side:   *)
(* a behaviour is one of the component that its subject names, and the     *)
(* variables of the other components stay at one initial value.            *)
(***************************************************************************)
EXTENDS IdleTimer, Framing, KeyFiles, Startup, Bench, EchoStream, InstallAtomic

VARIABLE subject

Subjects == {"idle", "framing", "keys", "startup", "bench", "echo", "install"}

mcvars == <<subject, idlevars, framevars, keyvars, startupvars, benchvars, echovars,
            installvars>>

MCTarget ==
  [c \in Commands |-> IF c \in {"report1", "report2"} THEN "report.json"
                      ELSE "server.key"]
MCMemoryArgs == {[baseline |-> 2, active |-> a, connections |-> 2] : a \in {1, 4}}

MCInit ==
  /\ subject \in Subjects
  /\ IdleInit
  /\ FrameInit /\ (subject # "framing" => stream = <<>> /\ sent = <<>>)
  /\ KeyInit /\ (subject # "keys" => parent = "private")
  /\ StartupInit /\ (subject # "startup" => toml.role = "client" /\ toml.tls_enabled)
  /\ BenchInit /\ (subject # "bench" => samples = 1 /\ memory = {})
  /\ EchoInit
  /\ InstallInit /\ (subject # "install" => active = "none")

MCNext ==
  \/ /\ subject = "idle" /\ IdleNext
     /\ UNCHANGED <<subject, framevars, keyvars, startupvars, benchvars, echovars,
                    installvars>>
  \/ /\ subject = "framing" /\ FrameNext
     /\ UNCHANGED <<subject, idlevars, keyvars, startupvars, benchvars, echovars,
                    installvars>>
  \/ /\ subject = "keys" /\ KeyNext
     /\ UNCHANGED <<subject, idlevars, framevars, startupvars, benchvars, echovars,
                    installvars>>
  \/ /\ subject = "startup" /\ StartupNext
     /\ UNCHANGED <<subject, idlevars, framevars, keyvars, benchvars, echovars,
                    installvars>>
  \/ /\ subject = "bench" /\ BenchNext
     /\ UNCHANGED <<subject, idlevars, framevars, keyvars, startupvars, echovars,
                    installvars>>
  \/ /\ subject = "echo" /\ EchoNext
     /\ UNCHANGED <<subject, idlevars, framevars, keyvars, startupvars, benchvars,
                    installvars>>
  \/ /\ subject = "install" /\ InstallNext
     /\ UNCHANGED <<subject, idlevars, framevars, keyvars, startupvars, benchvars,
                    echovars>>

MCSpec == MCInit /\ [][MCNext]_mcvars
=============================================================================

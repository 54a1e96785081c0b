CONSTANTS
  Commands = {"a", "ca", "cb", "b1"}
  Earlier = {"a", "ca", "cb"}
  Paths = {"server.key", "server-new.key", "client.key", "client-new.key"}
  Evidence = {}
  Target <- MCTarget
  OldServer = "a"
  OldClient = "ca"
  NewClient = "cb"
  NewPath = "server-new.key"
SPECIFICATION DeploySpec
INVARIANTS RevokedIsRefused

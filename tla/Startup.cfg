CONSTANTS
  MaxPort = 65535
  Ephemeral = {40000}
  Contended = {1001, 1002, 65535}
  None = None
  Traffic = {8001, 1000, 5}
  Configs <- StartConfigs
SPECIFICATION FairSpec
INVARIANT Wired
INVARIANT SearchComplete
PROPERTY InterruptHonoured

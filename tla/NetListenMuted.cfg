CONSTANTS
  OutPorts = {}
  InPort = in
  DynPorts = {d1}
  EofPorts = {}
  Ids = {s1, s2, s3}
  None = None
  Nil = Nil
  Cap = 1
SPECIFICATION Spec
INVARIANT SkippedPortsAreServed

CONSTANTS
  OutPorts = {o1}
  InPort = in
  DynPorts = {}
  EofPorts = {}
  Ids = {s1, s2, s3}
  None = None
  Nil = Nil
  Cap = 1
SPECIFICATION FairSpec
PROPERTY ReopensWhenSilent
PROPERTY ShutdownCompletes

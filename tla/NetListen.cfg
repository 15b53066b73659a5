CONSTANTS
  OutPorts = {o1}
  InPort = in
  DynPorts = {d1}
  EofPorts = {o1, d1}
  Ids = {s1, s2, s3}
  None = None
  Nil = Nil
  Cap = 1
SPECIFICATION Spec
SYMMETRY Symmetry
INVARIANT TypeOK
INVARIANT NoSendOnClosed
INVARIANT OneLiveSniffer

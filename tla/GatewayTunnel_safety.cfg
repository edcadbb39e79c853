SPECIFICATION Spec
CONSTANTS
  Threads = {t1, t2}
  Procs = {p1, p2}
  Nodes = {n1}
  NoActor = NoActor
  NoProc = NoProc
  NoNode = NoNode
SYMMETRY Symmetry
INVARIANTS TypeOK OneTunnel NothingLeaks ActivationExclusive 
PROPERTY ContractKept

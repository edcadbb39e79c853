SPECIFICATION Spec
CONSTANTS
  Threads = {t1}
  Procs = {p1, p2}
  Nodes = {n1, n2}
  NoActor = NoActor
  NoProc = NoProc
  NoNode = NoNode
SYMMETRY Symmetry
INVARIANT BlamesTheDeadNode

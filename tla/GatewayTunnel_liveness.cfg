SPECIFICATION LiveSpec
CONSTANTS
  Threads = {t1, t2}
  Procs = {p1}
  Nodes = {n1}
  NoActor = NoActor
  NoProc = NoProc
  NoNode = NoNode

PROPERTIES CallsReturn DeadExitCleared

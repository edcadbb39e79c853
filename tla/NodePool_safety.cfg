SPECIFICATION SafetySpec
CONSTANTS
  Nodes = {n1}
  NoNode = NoNode
  TCP = {n1}
  Protected = {}
  Workers = {w1, w2}
  ProbeBudget = 1
  TCPFailures = 1
  UDPFailures = 1
SYMMETRY Symmetry
INVARIANTS TypeOK ReadyEarned BatchSparesActive
PROPERTIES SweepSparesAnswering

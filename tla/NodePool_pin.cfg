SPECIFICATION RunSpec
CONSTANTS
  Nodes = {n1}
  NoNode = NoNode
  TCP = {n1}
  Protected = {}
  Workers = {w1}
  ProbeBudget = 1
  TCPFailures = 1
  UDPFailures = 1
INVARIANTS ActiveRowKept

SPECIFICATION ProgressSpec
CONSTANTS
  Nodes = {n1, n2}
  NoNode = NoNode
  TCP = {n1, n2}
  Protected = {}
  Workers = {w1}
  ProbeBudget = 1
  TCPFailures = 1
  UDPFailures = 1
PROPERTIES NewNodesProbed CooldownLifted

SPECIFICATION SafetySpec
CONSTANTS
  Nodes = {n1, n2}
  NoNode = NoNode
  Operators = {o1}
  Handlers = {h1}
  Health = health
  Maint = maint
  NoActor = NoActor
  Tries = 2
SYMMETRY Symmetry
INVARIANTS TypeOK PinKept
PROPERTY ContractKept

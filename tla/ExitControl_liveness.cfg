SPECIFICATION LiveSpec
CONSTANTS
  Nodes = {n1, n2}
  NoNode = NoNode
  Operators = {}
  Handlers = {h1}
  Health = health
  Maint = maint
  NoActor = NoActor
  Tries = 2
PROPERTIES ExitRestored

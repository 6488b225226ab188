CONSTANTS
  Threads <- MCThreads
  Prio <- MCPrio
  N = 4
  Nobody = 0
SPECIFICATION Spec
PROPERTIES
  ImplementsQueue

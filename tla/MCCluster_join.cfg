CONSTANTS
  node1 = node1  node2 = node2
  m1 = m1  m2 = m2
  None = None
  Nodes = {node1, node2}
  Positions <- TwoEach
  Seeds <- StarSeeds
  KeyOf <- TwoKeys
  Links = {1, 2, 3, 4, 5}
  Msgs = {m1, m2}
  Subscribers = {node1}
  MaxFaults = 1
SPECIFICATION Spec
CHECK_DEADLOCK FALSE
INVARIANTS
  
  ForwardHonest
PROPERTIES
  
  Converges
  ForwardArrives

SPECIFICATION Spec
CONSTANTS
  c1 = c1
  c2 = c2
  c3 = c3
  Clients <- ThreeClients
  Programs <- Mixed
  NameKey = 1
  NumberKey = 3
  Kills = TRUE
INVARIANTS Durable NothingInvented SamePair
PROPERTY PoisonStays

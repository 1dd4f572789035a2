CONSTANTS
  QueueCapacity = 1
  Interface = {i1, i2}
  Refusing = {}
  MaxInterfaces = 2
  i1 = i1
  i2 = i2
SPECIFICATION Spec
INVARIANT TypeOK
INVARIANT Released
PROPERTY StopEnds
PROPERTY RebindSettles
PROPERTY NoInterfaceStarves

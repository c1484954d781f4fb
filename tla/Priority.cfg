SPECIFICATION Spec
CONSTANTS
  Ids = {1, 2, 3}
  Requested <- SomePriorities
  MaxPriority = 1
  Scale = 3
  UsPerMs = 2
  Window = 4
  MaxExact = 8
  FeederBatch = 2
PROPERTY DispatchOrder FeederOrder

SPECIFICATION Spec
CONSTANTS
  m = m
  n = n
  j = j
  k = k
  x = x
  y = y
  c = c
  p = p
  q = q
  Nobody = Nobody
  Mappings = {m, n}
  Slaves = {j, k}
  ConfigOf <- Own
  Wanted <- Interlaced
  Channels = {c}
  Pdos = {p, q}
  Capacity <- Capacities
  Direction <- Directions
  Buffer <- Buffers
  Fixed = {q}
  Factory <- FactoryQ
  SdoBits = {8}
  Registers <- AllRegisters
  Again = FALSE
  Growing = FALSE
  Failures = TRUE
  LogicalSize = 4
  MaxFields <- ThreeAndOne
  BitBuffer = 3
  Header = 2
  MinFrame = 5
  DataSize = 3
  SomeBytes = {0, 165}
  SomeTypes <- SomeFieldTypes
INVARIANTS ConfiguredServed NeverRefused FieldsIndependent
CHECK_DEADLOCK FALSE

\* Loads as in the code, capacities scaled down from 8 to 2.
SPECIFICATION Spec
CONSTANTS
  k1 = k1
  k2 = k2
  k3 = k3
  k4 = k4
  v1 = v1
  v2 = v2
  NULL = NULL
  Keys = {k1, k2, k3, k4}
  Values = {v1, v2}
  HashOf <- Hashes
  DefaultCapacity = 2
  Capacities = {0, 3}
  MaxLoad = 3
  MinLoad = 1
INVARIANTS TableIsSound KeysOwnedOnce
PROPERTIES IterationExact ImplementsMap
SYMMETRY ValuesSymmetry

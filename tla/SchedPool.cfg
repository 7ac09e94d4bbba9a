SPECIFICATION Spec
CONSTANTS
  Workers = {w1, w2}
  Root = root
  UseCaller = FALSE
  Fibers = {f1, f2, f3}
  Tasks = {c1, c2, c3}
  Behaviours = {"ready", "spawn"}
  Pins = {any}
  SpawnPins = {any}
  MaxYields = 1
  AnyThread = any
  Null = null
SYMMETRY Symmetry
INVARIANTS OneThreadPerFiber TaskNotLost StopDrains
PROPERTIES ImplementsTaskPool

SPECIFICATION Spec
CONSTANTS
  Workers = {w1}
  Root = root
  UseCaller = FALSE
  Fibers = {f1, f2}
  Tasks = {c1, c2}
  Behaviours = {"ready", "hold", "throw", "spawn"}
  Pins = {any}
  SpawnPins = {any}
  MaxYields = 1
  AnyThread = any
  Null = null
INVARIANTS RunOnce OnlyDestructorFails

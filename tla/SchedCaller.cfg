SPECIFICATION FairSpec
CONSTANTS
  Workers = {w1}
  Root = root
  UseCaller = TRUE
  Fibers = {f1, f2}
  Tasks = {c1, c2}
  Behaviours = {"ready", "spawn"}
  Pins = {any, w1, root}
  SpawnPins = {any}
  MaxYields = 1
  AnyThread = any
  Null = null
PROPERTIES StopReturns TaskCompletes

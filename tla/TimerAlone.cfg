SPECIFICATION FairSpec
CONSTANTS
  Users = {u1, u2}
  Pollers = {p1}
  Timers = {1, 2}
  Delays = {1, 2}
  Scenarios <- MCScenarios
  Alone = TRUE
  MaxTimeout = 2
  IntHalf = 8
  Hour = 1
  Wrap = 64
  StartClock = 1
  MaxClock = 2
  Null = null
INVARIANTS SetInOrder ErasesWhatItFound FiresOrCancels NoOversleep
PROPERTIES DueCollected

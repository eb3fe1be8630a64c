\* Two readers at a ring of three slots that goes round twice.
SPECIFICATION LiveSpec
CONSTANTS
  c1 = c1
  c2 = c2
  Consumers = {c1, c2}
  Capacity = 3
  MaxIndex = 6
  FromChunks = {0, 2}
INVARIANTS WindowIsStored SleepersHaveToWait
PROPERTIES ImplementsWindow GetReturns

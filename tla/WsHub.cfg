\* Two clients with buffers of two, four messages.
SPECIFICATION LiveSpec
CONSTANTS
  Clients = {c1, c2}
  Capacity = 2
  MaxMessages = 4
INVARIANTS
  TypeOK
  ClosedOnce
  NoGaps
PROPERTY
  ClientLeaves
\* The server does not stop, but messages run out at the bound.
CHECK_DEADLOCK FALSE

CONSTANTS
  Sockets = {s1}
  NoSocket = NoSocket
  MaxMessages = 1
SPECIFICATION Spec
INVARIANTS ClosedIsUntold

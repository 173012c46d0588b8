CONSTANTS
  Sockets = {s1, s2}
  NoSocket = NoSocket
  MaxMessages = 1
  MaxRequests = 3
SPECIFICATION ServicesSpec
INVARIANTS ServicesTypeOK EventsInOrder EndToldOnce ThreadsUseLiveObjects ResponsesHandedOver
PROPERTIES EverythingIsAnswered DestroyingEnds

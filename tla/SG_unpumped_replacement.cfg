CONSTANTS
  Lines = 2
  Types <- MCTypes
  Casts = {"unicast", "multicast"}
  MaxRounds = 2
  MaxEvents = 1
  MaxHooks = 1
  NoStream = NoStream
  NoContext = NoContext
SPECIFICATION Spec
INVARIANT RunningStreamIsPumped
CHECK_DEADLOCK FALSE

CONSTANTS
  Lines = 2
  Types <- MCTypesWithOther
  Casts = {"unicast", "multicast"}
  MaxRounds = 2
  MaxEvents = 1
  MaxHooks = 1
  NoStream = NoStream
  NoContext = NoContext
SPECIFICATION Spec
INVARIANT NoNullStreamDeref
CHECK_DEADLOCK FALSE

CONSTANTS
  Kinds <- MCKinds
  KeyExchange = "zrtp"
  HasListener = FALSE
  MaxEvents = 2
  MaxTmmbr = 1
  Ratings <- MCRatings
SPECIFICATION Spec
INVARIANT NoNullListenerDeref
CHECK_DEADLOCK FALSE

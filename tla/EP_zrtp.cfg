CONSTANTS
  Kinds <- MCKinds
  KeyExchange = "zrtp"
  HasListener = TRUE
  MaxEvents = 2
  MaxTmmbr = 1
  Ratings <- MCRatings
SPECIFICATION Spec
INVARIANT TmmbrNeverLost
INVARIANT AuthTokenVerifiedMatchesZrtpCache
INVARIANT CallLogQualityWithinRatings
PROPERTY EncryptionEventuallyNotified
CHECK_DEADLOCK FALSE

CONSTANTS
  Calls = {c1, c2}
  Kinds = {"audio", "video", "text"}
  PortRange <- EvenRanges
  Roles = {"none", "sender", "receiver"}
  RemoteRtpPort = 300
  OsPorts <- MCOsPorts
  McastKinds = {"audio"}
  JbConfigs <- MCJbConfigs
  None = None
SPECIFICATION Spec
INVARIANT NoPortCollision

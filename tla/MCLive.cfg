SPECIFICATION PartSpec
CONSTANTS
  s1 = s1
  s2 = s2
  c1 = c1
  c2 = c2
  Session = {s1}
  Conn = {c1}
  Secure = {}
  UserOf <- OneUser
  NoSession = NoSession
  NoConn = NoConn
  NSubs = 1
  NReqs = 1
  MaxId = 1
  MaxSeq = 2
  MaxCount = 7
  Requested <- Varied
  MaxNow = 0
INVARIANT UniqueChannels
PROPERTIES ServedSurvives KeepsAnswering LifetimeEnforced Served Delivered Republished

SPECIFICATION Spec
CONSTANTS
  s1 = s1
  s2 = s2
  c1 = c1
  c2 = c2
  Session = {s1, s2}
  Conn = {c1, c2}
  Secure = {c1, c2}
  UserOf <- OneUser
  NoSession = NoSession
  NoConn = NoConn
  NSubs = 1
  NReqs = 2
  MaxId = 2
  MaxSeq = 2
  MaxCount = 3
  Requested <- Minimal
  MaxNow = 1

SYMMETRY Symmetry
INVARIANT RetransmitIsLast
PROPERTIES SequenceUnbroken AnsweredInTurn

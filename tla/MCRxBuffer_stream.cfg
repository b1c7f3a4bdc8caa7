SPECIFICATION FairSpec
CONSTANTS
  BufSize = 5
  Hdr = 2
  Slack = 1
  StreamLen = 10
CONSTANT Sizes <- SizesAround
INVARIANT RoomToRead
PROPERTIES MessagesInOrder Received

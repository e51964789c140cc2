SPECIFICATION ConnSpec
CONSTANTS
  Size = 5
  Header = 2
  Length = {2, 3, 5}
  MaxMessages = 3
  SendSize = 4
  ReplyLength = {1, 2, 3}
  PartialSend = TRUE
INVARIANTS
  RoomToRead
  RepliesInOrder
  LossNeedsCut
PROPERTIES
  ChannelSpec
CHECK_DEADLOCK FALSE

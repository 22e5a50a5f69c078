SPECIFICATION WsFairSpec
CONSTANTS
  Reads <- MCReads
  MaxFrames = 2
  MaxSends = 2
  HandlerActs <- MCActs
  LaterActs <- MCLater
  WsFaults <- MCWsFaults
INVARIANTS CloseFrameIsLast EndIsReported WsNotifiedOnce
PROPERTIES NothingAfterClose ReleasedEnds
CHECK_DEADLOCK FALSE

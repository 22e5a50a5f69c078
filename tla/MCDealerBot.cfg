SPECIFICATION FairSpec
CONSTANTS
  Clients = {b1, b2}
  Requests <- MCRequests
  GameTexts <- MCGameTexts
  PlayerTexts <- MCPlayerTexts
  Chars <- MCChars
  NoRequest = NoRequest
  NoClient = NoClient
INVARIANTS TypeOK NoLostUpdate
PROPERTIES FrameFollowsSaves RequestsEnd

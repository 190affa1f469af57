SPECIFICATION Spec
CONSTANTS
  Key <- AllKeys
  hash <- Hashes
  DICT_HT_INITIAL_SIZE = 1
  NoEntry <- Nobody
  Careful = TRUE
  Arguments <- Names
  Ops = {"regular", "quit", "subscribe", "unsubscribe", "monitor"}
  MaxCmds = 3
  MaxLines = 1
  ServerFails = TRUE
CHECK_DEADLOCK FALSE
INVARIANTS
  Safe
  OwnReply
  NeverAborts
  NothingForgotten
PROPERTIES
  MessageToSubscriber
  DisconnectEnds

\* One regular command issued while subscribed; a server that does not fail.
SPECIFICATION Spec
CONSTANTS
  Key <- AllKeys
  hash <- Hashes
  DICT_HT_INITIAL_SIZE = 1
  NoEntry <- Nobody
  Careful = TRUE
  Arguments <- Names
  Ops = {"regular", "subscribe"}
  MaxCmds = 2
  MaxLines = 0
  ServerFails = FALSE
CHECK_DEADLOCK FALSE
PROPERTIES
  ErrorReplyPassedOn

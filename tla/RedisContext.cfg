SPECIFICATION Spec
CONSTANTS
  STACK = 3
  DISCARD = 6
  Answers <- SomeAnswers
  Options <- SomeOptions
  REDIS_CONNECT_RETRIES = 2
  MaxAddrs = 2
  MaxFds = 2
  MaxCmds = 2
  MaxConnects = 2
CHECK_DEADLOCK FALSE
INVARIANTS
  Safe
  RepliesInOrder
  

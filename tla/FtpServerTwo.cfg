SPECIFICATION EitherSpec
CONSTANTS
  MaxSessions = 2
  MaxFd = 6
  MaxLen = 1
  MaxLines = 1
  MaxBacklog = 1
  ClientResets = TRUE
  PollFails = TRUE
  Commands <- CoreCommands
  Anon = TRUE
  Devices = FALSE
  ZeroFileOpen = FALSE
INVARIANTS
  DescriptorsOwned RepliesBalanced SessionsCounted
PROPERTY
  TransferEndsClean

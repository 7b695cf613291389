SPECIFICATION Spec
CONSTANTS
  MaxSessions = 1
  MaxFd = 5
  MaxLen = 1
  MaxLines = 2
  MaxBacklog = 1
  ClientResets = TRUE
  PollFails = TRUE
  Commands <- AllCommands
  Anon = FALSE
  Devices = TRUE
  ZeroFileOpen = FALSE
INVARIANTS
  TypeOK DescriptorsOwned DescriptorsHeld IdleHoldsNoFile TransferEquipped RepliesBalanced SessionsCounted
PROPERTIES
  TransferEndsClean DataSocketLostOnRetry

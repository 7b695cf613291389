SPECIFICATION Spec
CONSTANTS
  MaxSessions = 1
  MaxFd = 5
  MaxLen = 1
  MaxLines = 1
  MaxBacklog = 1
  ClientResets = TRUE
  PollFails = TRUE
  Commands <- CoreCommands
  Anon = TRUE
  Devices = FALSE
  ZeroFileOpen = TRUE
INVARIANT
  ControlSocketIsOwn

SPECIFICATION FairSpec
CONSTANTS
  MaxSessions = 2
  MaxFd = 5
  MaxLen = 1
  MaxLines = 1
  MaxBacklog = 1
  ClientResets = FALSE
  PollFails = FALSE
  Commands <- UploadCommands
  Anon = TRUE
  Devices = FALSE
  ZeroFileOpen = FALSE
PROPERTIES
  Attended Accepted

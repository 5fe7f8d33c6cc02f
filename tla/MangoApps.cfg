SPECIFICATION Spec
CONSTANTS
  Hex = 4
  DecDigits = 5
  Timeout = 2
  Starts <- MCStarts
  ReadLen = 2
  MaxParts = 1
  Programs = {"get", "sslget", "sslmem", "basicAuth", "persistent", "shoutcast", "post", "chunkedPost", "websockets"}
  WBSizes = {11, 30, 80}
  LineLen = 8
  Creds <- MCCreds
  FileSz = 20
  BufSz = 18
  Payloads <- MCPayloads
  Sizes <- MCSizes
  MaxRounds = 2
  MaxTries = 1
INVARIANTS Released HeadComplete SizesUnderstood FramesWhole
PROPERTIES GivesUpOnTime
CHECK_DEADLOCK FALSE

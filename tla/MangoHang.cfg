SPECIFICATION Spec
CONSTANTS
  Hex = 4
  DecDigits = 5
  Timeout = 2
  Starts <- MCStarts
  ReadLen = 2
  MaxParts = 1
  Programs = {"get"}
  WBSizes = {80}
  LineLen = 8
  Creds <- MCCreds
  FileSz = 20
  BufSz = 18
  Payloads <- MCPayloads
  Sizes <- MCSizes
  MaxRounds = 1
  MaxTries = 1
PROPERTIES CallsReturn
CHECK_DEADLOCK FALSE

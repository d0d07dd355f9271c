SPECIFICATION ResponseSpec
CONSTANTS
  Responses <- MCResponses
  Timeout = 3
  Ms = 2
  Delays = {0, 4}
  MaxAddrs = 2
  ReqLen = 2
  TlsWaits = 2
  OutCap = 4
  MetaCap = 3
  StatusBuf = 12
  TlsStatusBuf = 14
  ReadMax = 4
  HeaderCap = 5
  OverheadCap = 16
  NsPerMs = 2
  MsPerSec = 3
  DefaultMs = 9
  MaxMs = 17
  MaxSecs = 7
  MaxNow = 12
  MaxWall = 13
  FirstYear = 1896
  FirstDay <- Day1896
  LastYear = 2104
  MaxDepth = 1
  MaxTokens = 9
  MaxAllocs = 9
  MaxStringBytes = 4
  MaxNumberBytes = 6
INVARIANTS TypeOK DeadlineKept FetchedIsWhole FetchVerdict NoticeFaithful HoldAsAsked
  CalendarAgrees ReadsJson NoBlockLost ScalarsAgree

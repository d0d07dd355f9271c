SPECIFICATION RecordSpec
CONSTANTS
  MaxFaults = 4
  UnlinkSkipped = TRUE
PROPERTY FirstReportKept

SPECIFICATION FilesSpec
CONSTANTS
  MaxFaults = 4
  UnlinkSkipped = FALSE
  MaxBatches = 3
  BodyLen <- Lengths
  MaxBytes = 5
  MaxCrashes = 2
  
PROPERTY RefinesReportBox

SPECIFICATION Spec
CONSTANTS
  Units <- AllUnits
  SearchPath <- Path
  Config = "config"
  Runtime = "runtime"
  LinkDirs = {"wants", "requires"}
  Texts <- AllTexts
  FirstFiles <- Disks
  FirstLinks <- SomeLinks
  FirstCopies <- OneCopy
  Requests <- AllRequests
  Edits <- AllEdits
  Faults = TRUE
  MaxRequests = 2
  MaxEdits = 1
 
PROPERTY FilesKept
PROPERTY KeepsEnablement
CHECK_DEADLOCK FALSE

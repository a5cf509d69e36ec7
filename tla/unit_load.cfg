SPECIFICATION Spec
CONSTANTS
  Bases = 2
  Instance = TRUE
  Section = "Service"
  Texts <- SomeTexts
  Slots <- SomeSlots
  MaxEdits = 3
INVARIANT LoadIsMerge
INVARIANT OneEditIsSeenOrNot

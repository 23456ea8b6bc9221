CONSTANTS
  a = a  a2 = a2  y = y  b = b  a3 = a3
  Drafts <- MC_Drafts
  Replaces <- MC_Replaces
  Remarks <- MC_Remarks
  MaxRetracted = 1
  MaxUnits = 6
SPECIFICATION Spec
INVARIANTS RevisionTypeOK
PROPERTIES RetractionStands CompactionKeepsStatus ReplacementStays RelinkSettles
CHECK_DEADLOCK FALSE

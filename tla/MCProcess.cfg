CONSTANTS
  old = old
  new = new
  Proc = {old, new}
  MaxRows = 3
  MaxEdits = 2
  MayBeTaken = TRUE
SPECIFICATION FairSpec
INVARIANTS
  TypeOK
  ServesAlone
  SoundWhileWhole
PROPERTIES
  GivesWayToTheLiving
  EditsAreSeen
  StartsEnd
CHECK_DEADLOCK FALSE

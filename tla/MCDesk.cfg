SPECIFICATION Spec
CONSTANTS
  Desks = {d1, d2}
  Scenes <- AllScenes
  MaxRows = 4
  Buffer = 4
  MaxNotes = 3
  MaxMishaps <- Allowed
INVARIANTS LoneDeskKeeps CreatedOnce
PROPERTY DeletesTheRow
SYMMETRY Windows
CHECK_DEADLOCK FALSE

SPECIFICATION Spec
CONSTANTS
  Panels = {p1, p2}
  Profiles <- MCProfiles
  Extractions <- MCExtractions
  EditNames <- MCNames
  EditDates <- MCDates
  EditTexts = {"x"}
  Empty = Empty
  NoDate = NoDate
  BadDate = BadDate
  MaxOps = 2
  MaxFaults = 1
INVARIANTS MergeResult RepeatIsQuiet HalfMergeIsSafe HalfDeletedOnlyIfRefilled
SYMMETRY Symmetry
CHECK_DEADLOCK FALSE

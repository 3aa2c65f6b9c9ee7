SPECIFICATION FairSpec
CONSTANTS
  Lines = {"warning", "note", "inner note", "more", "text"}
  Matching = {"warning", "note", "inner note"}
  Notes = {"note", "inner note"}
  Indented = {"inner note", "more"}
  Beginning = "begin"
  PipeSize = 2
  ChunkSize = 2
  MaxParts <- Parts
  Written <- Both
INVARIANTS TypeOK LostOnlyBehindTheOther NotesFollowTheirWarning CountsAddUp
PROPERTIES RunEnds
CHECK_DEADLOCK FALSE

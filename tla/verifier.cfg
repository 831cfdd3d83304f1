SPECIFICATION Spec
CONSTANTS
  Limit <- MCLimit
  Keys = {k1, k2}
  EntrySets <- MCEntrySets
  Texts <- MCTexts
  Names = {"a", "b"}
  Others <- MCOthers
  Literals <- MCLiterals
  Edited = {"event_id", "signer_kid"}
  Capacity = 16777216
  MaxLog = 3
  MaxHeld = 2
  MaxEdits = 1
INVARIANTS TypeOK HonestVerifies VerifiedWasSigned HistoryIsUnbroken RootsBindTheSet
  DeclarationsBindTheName ExitCodesTell
SYMMETRY MCSymmetry
CHECK_DEADLOCK FALSE

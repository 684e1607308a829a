SPECIFICATION Spec
CONSTANTS
  Sid = {k1, k2}
  Blank = Blank
  NoSid = NoSid
  Name = {n1, n2}
  Staff = {s1, s2}
  Worker = {w1}
  PaletteSize = 3
  Preferences <- MCPreferences
  MaxRequests = 3
SYMMETRY MCSymmetry
INVARIANTS
  TypeOK
  RefusedOnlyByARace
  PreviewCoversChoice
  ColoursApart
PROPERTIES
  MovesOnlyToHolder
  SavedUnderItsSid
CHECK_DEADLOCK FALSE

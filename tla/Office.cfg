SPECIFICATION Spec
CONSTANTS
  None = None
  large = large
  small = small
  always = always
  over = over
  tell = tell
  org1 = org1
  org2 = org2
  mail1 = mail1
  mail2 = mail2
  custom = custom
  Workers = {w1, w2}
  One = {w1}
  Two = {w1, w2}
SYMMETRY MCSymmetry
CHECK_DEADLOCK FALSE
INVARIANTS
  SessionsEnd RulesRun RemovedWhole CodeThatCameCounts StaffKept SetupAgrees
PROPERTIES
  NothingTakenBack

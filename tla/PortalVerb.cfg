\* A verb about two dpnis and a companion, beside one other shell.
SPECIFICATION Spec
CONSTANTS
  Objects = {d1, d2}
  Companions = {c1}
  Shells = {s1}
  NoObj = NoObj
  Attempts = 3
INVARIANT PortalInv
PROPERTIES ImplementsLife AnswersTrue Answered

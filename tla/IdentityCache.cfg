SPECIFICATION Spec
CONSTANTS
  Macs = {m1, m2}
  Uas = {u1, u2}
  Finalisers = {f1, f2}
  WeakTtl = 1
  StrongTtl = 3
  Strong = 2
  MaxContacts = 4
  MaxFaults = 1
  MaxTime = 4
  NONE = NONE
SYMMETRY Symmetry
INVARIANTS
  InferredIsUnchallenged
  OldAnswersAreStrong

SPECIFICATION Spec
CONSTANTS
  Names = {n1, n2, n3}
  Secrets = {s1, s2}
  None = None
  Open = Open
  Writers = {w1, w2}
INVARIANT SettledStays

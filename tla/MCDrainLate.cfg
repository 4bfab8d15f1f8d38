SPECIFICATION Spec
CONSTANTS
  Callers = {c1, c2}
  Shutters = {s1}
  Delayed = {}
  Timed = {}
  MaxCancels = 0
INVARIANT OkMeansDrained

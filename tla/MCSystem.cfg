SPECIFICATION SystemSpec
CONSTANTS
  Handlers = {h1, h2}
  Ids = {i1}
  MaxCopies = 2
  Members = {m1}
  MaxFaults = 2
PROPERTIES PublishedIsConsumed

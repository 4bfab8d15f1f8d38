SPECIFICATION FairSpec
CONSTANTS
  Members = {m1, m2}
  Records = {event, junk}
  Poison = {junk}
  Failing = {m1}
  Rerunners = {m2}
  MaxLog = 3
  MaxFaults = 2
INVARIANTS TypeOK CommittedHandled
PROPERTIES CommitNeverRewinds RepeatOnlyAfterFault EveryRecordHandled

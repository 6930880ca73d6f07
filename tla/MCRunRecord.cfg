SPECIFICATION FairSpec
CONSTANTS
  Canceller = {c1}
  executor = executor
  platform = platform
  NoRecord = NoRecord
INVARIANTS TypeOK RecordKept FollowerSeesAll
PROPERTIES FollowEnds
CHECK_DEADLOCK FALSE

SPECIFICATION FairSpec
CONSTANTS
  NDEBUG = FALSE
  LongMax = 2147483647
INVARIANTS NumbersKept CrashesOnlyAfterFailure NothingLeftBehind UsersJoinedFirst
PROPERTIES  QuitTerminates

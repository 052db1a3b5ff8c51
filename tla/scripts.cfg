SPECIFICATION FairSpec
CONSTANT Use = {"script", "interrupted", "skipped", "timed", "daemon", "signalled", "untracked", "recovering"}
INVARIANTS CommandsAlternate TimerHasPurpose StoppedIsClean
PROPERTIES StopCompletes
CHECK_DEADLOCK FALSE

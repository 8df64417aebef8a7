CONSTANTS
  Ids = {"seed4", "seed5", "t1", "t2"}
  Seeds <- MCSeeds
  Host = "mail.example"
  Files <- MCFiles
  PageSize = 1
  RecentSize = 5
  Names = {"dotted", "plain"}
  Dotted = {"dotted"}
  Records = {"mx"}
  MaxCalls = 3
  MaxClicks = 3
  MaxFaults = 1
  Refusals <- MCRefusals
SPECIFICATION Spec
PROPERTY RefusalIsShown
CHECK_DEADLOCK FALSE

CONSTANTS
  Ids = {"seed4", "t1"}
  Seeds <- MCSeeds
  Host = "mail.example"
  Files <- MCFiles
  MaxCalls = 2
  MaxOpens = 2
  MaxFaults = 1
  MaxFetches = 1
  FirstWait = 3
  Cooldown = 1
  Refusals = {"not_found"}
  Closed = "closed"
SPECIFICATION FairSpec
INVARIANT ShownIsOfThisTest

CONSTANTS
  None = None
  us = us
  other = other
  Hosts = {us, other}
  Lists <- MCLists
  Informational <- MCInformational
  DNSWLs <- MCDNSWLs
  Analyses <- MCAnalyses
  Checks <- MCChecks
SPECIFICATION FairSpec
INVARIANTS ClosestHopSpeaks TLSIsOfTheEntry ScoreIsOwn TruncatedBodyIsNotAFailure GreenMeansFullPoints PathAgrees ActionIsOfTheVerdict PraiseIsEarned
PROPERTIES VerdictIsFinal ListingNeverPays
CHECK_DEADLOCK FALSE

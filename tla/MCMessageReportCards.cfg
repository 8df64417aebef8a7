CONSTANTS
  None = None
  us = us
  other = other
  Hosts = {us, other}
  Lists <- MCLists
  Informational <- MCInformational
  DNSWLs <- MCDNSWLs
  Analyses <- MCAnalyses
  Checks <- MCChecks
SPECIFICATION FairSpec
INVARIANT CardsKnowTheReport
CHECK_DEADLOCK FALSE

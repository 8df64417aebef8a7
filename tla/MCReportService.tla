--------------------------- MODULE MCReportService ---------------------------
EXTENDS ReportService, TLC

\* Calls, handlers, tests and parsable mails are interchangeable.
Symmetry ==
  Permutations(Callers) \cup Permutations(Handlers) \cup Permutations(TestIDs)
    \cup Permutations(Mails \ Unparsable)
==============================================================================

CONSTANTS
  TestIDs = {t1}
  Mails = {m1, m2}
  Unparsable = {}
  Callers = {c1}
  Handlers = {h1}
  Retention = 1
  DatabaseFails = FALSE
  None = None
SPECIFICATION Spec
SYMMETRY Symmetry
INVARIANT ReportMatchesRawEmail

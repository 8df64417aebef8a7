CONSTANTS
  Addresses = {"t1", "T1", "t2", "bad"}
  TestOf <- MCTestOf
  None = None
  Mails = {"m1", "m2", "m3", "m4"}
  Unparsable = {"m3"}
  Oversized = {"m4"}
  Envelope <- MixedEnvelope
  Sessions = {s1, s2}
  MaxFailures = 1
  MaxTimeouts = 1
  MaxCrashes = 1
SPECIFICATION FairSpec
INVARIANTS SentMeansReported NoCrossDelivery BouncedForAReason
PROPERTY EveryRecipientAnswered

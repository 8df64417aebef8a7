---------------------------- MODULE MCLmtpDelivery ---------------------------
EXTENDS LmtpDelivery

\* Two spellings of test t1, one of t2, and an address without the prefix.
MCTestOf ==
  [a \in {"t1", "T1", "t2", "bad"} |->
     IF a = "bad" THEN None ELSE IF a = "T1" THEN "t1" ELSE a]

\* m1 goes to a test and to a bad address, m2 to the same test by another
\* spelling and to a second one, every other mail to the first test.
MixedEnvelope ==
  [m \in Mails |-> IF m = "m1" THEN {"t1", "bad"}
                   ELSE IF m = "m2" THEN {"T1", "t2"} ELSE {"T1"}]
==============================================================================

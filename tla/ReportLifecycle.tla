--------------------------- MODULE ReportLifecycle ---------------------------
(***************************************************************************)
(* What happyDeliver promises about a test, without the table, goroutines, *)
(* crashes and races that produce it.                                      *)
(*                                                                         *)
(* A test is pending or holds one mail and the report of that mail.  The   *)
(* first mail wins; it is replaced only after its report expired, which a  *)
(* young report does not, and to refresh it does not make it young again.  *)
(* A report may be refreshed at any time, but only from mails and          *)
(* provenances that belonged to the same test; an instance that keeps its  *)
(* reports for ever has only one of each, so there the report is always    *)
(* the analysis of the mail.                                               *)
(***************************************************************************)
CONSTANTS TestIDs, Mails, Sources, KeepForever, None

VARIABLES
  mail,     \* mail[t]: the mail of test t, or None while it is pending
  report,   \* report[t]: what it is the analysis of, or None
  past,     \* past[t]: every report test t ever started with
  young     \* the tests whose report is within the retention period

vars == <<mail, report, past, young>>

Init ==
  /\ mail = [t \in TestIDs |-> None]
  /\ report = [t \in TestIDs |-> None]
  /\ past = [t \in TestIDs |-> {}]
  /\ young = {}

\* A pending test gets its first mail.
Accept(t, m, s) ==
  /\ mail[t] = None
  /\ mail' = [mail EXCEPT ![t] = m]
  /\ report' = [report EXCEPT ![t] = [mail |-> m, source |-> s]]
  /\ past' = [past EXCEPT ![t] = @ \cup {[mail |-> m, source |-> s]}]
  /\ young' = young \cup {t}

\* The report, and nothing else, is regenerated.
Refresh(t) ==
  /\ mail[t] # None
  /\ \E m, s \in past[t] :
       report' = [report EXCEPT ![t] = [mail |-> m.mail, source |-> s.source]]
  /\ UNCHANGED <<mail, past, young>>

\* The retention period of some tests is over.
Outlive(S) ==
  /\ young' = young \ S
  /\ UNCHANGED <<mail, report, past>>

\* Tests past it are pending again.
Expire(S) ==
  /\ ~KeepForever
  /\ S \cap young = {}
  /\ mail' = [t \in TestIDs |-> IF t \in S THEN None ELSE mail[t]]
  /\ report' = [t \in TestIDs |-> IF t \in S THEN None ELSE report[t]]
  /\ UNCHANGED <<past, young>>

Next ==
  \/ \E t \in TestIDs, m \in Mails, s \in Sources : Accept(t, m, s)
  \/ \E t \in TestIDs : Refresh(t)
  \/ \E S \in SUBSET TestIDs : Outlive(S) \/ Expire(S)

Spec == Init /\ [][Next]_vars
==============================================================================

----------------------------- MODULE LmtpDelivery ----------------------------
(***************************************************************************)
(* From the queue of the mail server to the report table: the LMTP session *)
(* of internal/lmtp and the sender it talks to.                            *)
(*                                                                         *)
(* A transaction carries one mail to all its recipients that are still     *)
(* queued.  Session.Data works through them one after the other, each a    *)
(* call of ProcessEmailBytes, and stops at the first error.  The session   *)
(* implements smtp.Session and not smtp.LMTPSession, so go-smtp gives the  *)
(* one result of Data to every recipient of the transaction.  The sender   *)
(* (Postfix) takes a recipient out of its queue on an answer, and keeps it *)
(* when the connection breaks or it has waited too long; the handler does  *)
(* not notice the latter and works on.                                     *)
(***************************************************************************)
EXTENDS ReportTable, FiniteSets, Sequences

CONSTANTS
  Addresses,      \* recipient addresses
  TestOf,         \* TestOf[a]: the test extractTestID finds in a, or None
  None,
  Mails,          \* messages in the queue of the mail server
  Unparsable,     \* those of them that cannot be parsed
  Oversized,      \* and those beyond MaxMessageBytes
  Envelope,       \* Envelope[m]: the recipients of m
  Sessions,       \* LMTP connections
  MaxFailures,    \* bound: statements that fail for a reason of the database's own
  MaxTimeouts,    \* bound: answers the sender does not wait for
  MaxCrashes      \* bound: crashes of the server process

TestIDs == {TestOf[a] : a \in Addresses} \ {None}

ASSUME EnvelopeAssumption ==
  /\ Unparsable \subseteq Mails /\ Oversized \subseteq Mails
  /\ Envelope \in [Mails -> SUBSET Addresses]
  /\ \A m \in Mails : IsFiniteSet(Envelope[m])
ASSUME BoundAssumption == MaxFailures \in Nat /\ MaxTimeouts \in Nat /\ MaxCrashes \in Nat

VARIABLES
  reports,    \* the reports table
  session,    \* session[s]: the state of Session and of its Data loop
  waiting,    \* waiting[s]: the sender is still waiting for the answer
  queue,      \* queue[m]: what the sender knows of each recipient of m
  failures,   \* how many statements failed,
  timeouts,   \* how many answers came too late,
  crashes     \* and how often the process died

environment == <<failures, timeouts, crashes>>
vars == <<reports, session, waiting, queue, environment>>

Outcome == {"queued", "sent", "bounced"}

Idle == [at |-> "idle", mail |-> None, recipients |-> << >>, next |-> 1]

SessionState ==
  [at : {"idle", "data", "analyzing", "ok", "error"}, mail : Mails \cup {None},
   recipients : Seq(Addresses), next : Nat \ {0}]

TypeOK ==
  /\ reports \subseteq [testID : TestIDs, raw : Mails, json : Mails, age : {0}]
  /\ session \in [Sessions -> SessionState]
  /\ waiting \in [Sessions -> BOOLEAN]
  /\ DOMAIN queue = Mails
  /\ \A m \in Mails : queue[m] \in [Envelope[m] -> Outcome]
  /\ failures \in 0 .. MaxFailures /\ timeouts \in 0 .. MaxTimeouts /\ crashes \in 0 .. MaxCrashes

Init ==
  /\ reports = {}
  /\ session = [s \in Sessions |-> Idle]
  /\ waiting = [s \in Sessions |-> FALSE]
  /\ queue = [m \in Mails |-> [a \in Envelope[m] |-> "queued"]]
  /\ failures = 0
  /\ timeouts = 0
  /\ crashes = 0

-----------------------------------------------------------------------------
(* The sender (Postfix and go-smtp)                                        *)

Queued(m) == {a \in Envelope[m] : queue[m][a] = "queued"}

\* A transaction names every queued recipient once, in any order.
Orders(addresses) ==
  {order \in [1 .. Cardinality(addresses) -> addresses] :
     \A a \in addresses : \E i \in DOMAIN order : order[i] = a}

\* The sender has one transaction of a mail open at a time.
InTransaction(m) == \E s \in Sessions : waiting[s] /\ session[s].mail = m

\* A message that is too big cannot be read to its end, and Data returns before it
\* looks at a recipient.
ReadAll(m) == IF m \in Oversized THEN "error" ELSE "data"

\* MAIL FROM sets the sender, every RCPT TO appends to Session.recipients,
\* DATA reads the whole message.
Submit(s, m) ==
  /\ session[s].at = "idle"
  /\ Queued(m) # {}
  /\ ~InTransaction(m)
  /\ \E order \in Orders(Queued(m)) : session' = [session EXCEPT
       ![s] = [at |-> ReadAll(m), mail |-> m, recipients |-> @.recipients \o order, next |-> 1]]
  /\ waiting' = [waiting EXCEPT ![s] = TRUE]
  /\ UNCHANGED <<reports, queue, environment>>

\* The sender closes a connection that did not answer in time and keeps the
\* recipients; Session.Data has the whole message and runs to its end.
GiveUp(s) ==
  /\ timeouts < MaxTimeouts
  /\ waiting[s]
  /\ timeouts' = timeouts + 1
  /\ waiting' = [waiting EXCEPT ![s] = FALSE]
  /\ UNCHANGED <<reports, session, queue, failures, crashes>>

\* go-smtp resets the session after every transaction (and on RSET).
\* Mutant: Reset forgets to clear the recipients.
KeepRecipients(s) == [Idle EXCEPT !.recipients = session[s].recipients]
Reset(s) == Idle

\* The answer of the transaction: the same for all its recipients.
Reply(s) ==
  /\ session[s].at \in {"ok", "error"}
  /\ LET m == session[s].mail
         verdict == IF session[s].at = "ok" THEN "sent" ELSE "bounced"
     IN  queue' = [queue EXCEPT ![m] =
           [a \in Envelope[m] |-> IF waiting[s] /\ @[a] = "queued" THEN verdict ELSE @[a]]]
  /\ session' = [session EXCEPT ![s] = Reset(s)]
  /\ waiting' = [waiting EXCEPT ![s] = FALSE]
  /\ UNCHANGED <<reports, environment>>

\* The process dies with all its sessions; the sender sees its connections
\* break and keeps the recipients.
Crash ==
  /\ crashes < MaxCrashes
  /\ crashes' = crashes + 1
  /\ session' = [s \in Sessions |-> Idle]
  /\ waiting' = [s \in Sessions |-> FALSE]
  /\ UNCHANGED <<reports, queue, failures, timeouts>>

-----------------------------------------------------------------------------
(* Session.Data                                                            *)

Recipient(s) == session[s].recipients[session[s].next]
Test(s)      == TestOf[Recipient(s)]

Go(s, at)   == session' = [session EXCEPT ![s].at = at]
\* Mutant: a recipient that is done is tried again.
Repeat(s)   == session' = [session EXCEPT ![s].at = "data"]
Advance(s)  == session' = [session EXCEPT ![s].at = "data", ![s].next = @ + 1]

\* The loop stops at the first error of ProcessEmailBytes and returns it.
\* Mutant: the error is logged and the loop goes on.
LogAndAdvance(s) == Advance(s)
Fail(s) == Go(s, "error")

\* ProcessEmailBytes up to ReportExists: a report that is already there makes
\* it return nil.  Mutant: it is reported as an error instead.
SkippedAsError(s) == Fail(s)
Skip(s) == Advance(s)

Check(s) ==
  /\ session[s].at = "data"
  /\ session[s].next =< Len(session[s].recipients)
  /\ \/ Test(s) = None /\ Fail(s)
     \/ Test(s) # None /\ Exists(reports, Test(s)) /\ Skip(s)
     \/ Test(s) # None /\ ~Exists(reports, Test(s)) /\ Go(s, "analyzing")
  /\ UNCHANGED <<reports, waiting, queue, environment>>

\* ... and from the analysis to CreateReport.
Store(s) ==
  /\ session[s].at = "analyzing"
  /\ \/ /\ session[s].mail \notin Unparsable
        /\ Insertable(reports, Test(s))
        /\ reports' = Insert(reports, Test(s), session[s].mail, session[s].mail)
        /\ Advance(s)
     \/ /\ session[s].mail \in Unparsable \/ ~Insertable(reports, Test(s))
        /\ Fail(s)
        /\ UNCHANGED reports
  /\ UNCHANGED <<waiting, queue, environment>>

\* Either statement may fail for a reason of the database's own.
FailStatement(s) ==
  /\ failures < MaxFailures
  /\ failures' = failures + 1
  /\ \/ session[s].at = "data" /\ session[s].next =< Len(session[s].recipients) /\ Test(s) # None
     \/ session[s].at = "analyzing" /\ session[s].mail \notin Unparsable
  /\ Fail(s)
  /\ UNCHANGED <<reports, waiting, queue, timeouts, crashes>>

\* Every recipient was processed.
EndOfData(s) ==
  /\ session[s].at = "data"
  /\ session[s].next > Len(session[s].recipients)
  /\ Go(s, "ok")
  /\ UNCHANGED <<reports, waiting, queue, environment>>

-----------------------------------------------------------------------------
Server(s) == Check(s) \/ Store(s) \/ EndOfData(s) \/ Reply(s)

\* Nothing is queued and nobody is working: the system may rest.
Settled ==
  /\ \A m \in Mails : Queued(m) = {}
  /\ \A s \in Sessions : session[s].at = "idle"

Next ==
  \/ \E s \in Sessions : Server(s) \/ FailStatement(s) \/ GiveUp(s)
  \/ \E s \in Sessions, m \in Mails : Submit(s, m)
  \/ Crash
  \/ Settled /\ UNCHANGED vars

\* Every handler goes on and the sender retries what is in its queue.
Fairness ==
  /\ \A s \in Sessions : WF_vars(Server(s))
  /\ \A m \in Mails : WF_vars(\E s \in Sessions : Submit(s, m))

Spec == Init /\ [][Next]_vars
FairSpec == Spec /\ Fairness

-----------------------------------------------------------------------------
(* Properties                                                              *)

HasReport(m, a) == \E row \in reports : row.testID = TestOf[a] /\ row.raw = m

\* A recipient leaves the sender's queue as delivered only if its test has a
\* report, whatever happened to the other recipients of the transaction.
SentMeansReported ==
  \A m \in Mails : \A a \in Envelope[m] :
    queue[m][a] = "sent" => TestOf[a] # None /\ Exists(reports, TestOf[a])

\* A mail becomes the report of a test only if it was addressed to it: the
\* recipients of one transaction never leak into the next one of the session.
NoCrossDelivery ==
  \A row \in reports : row.testID \in {TestOf[a] : a \in Envelope[row.raw]}

\* Somebody's reason to fail a transaction of mail m at address a.
BadRecipient(m, a) ==
  \/ TestOf[a] = None
  \/ Exists(reports, TestOf[a]) /\ ~HasReport(m, a)

\* Crashes lead to redelivery and redelivery to nothing new: a recipient is
\* bounced only when the mail is too big or does not parse, when some recipient of
\* the same mail has no test or another mail in its test, when the database failed
\* or when an answer came too late.
BouncedForAReason ==
  \A m \in Mails : (\E a \in Envelope[m] : queue[m][a] = "bounced") =>
    \/ m \in Unparsable \cup Oversized
    \/ \E a \in Envelope[m] : BadRecipient(m, a)
    \/ failures > 0
    \/ timeouts > 0

\* Every recipient is answered in the end, in spite of late answers, crashes
\* and failing statements (bounded: a sender that never waits is never
\* answered).
EveryRecipientAnswered ==
  \A m \in Mails : \A a \in Envelope[m] : <>(queue[m][a] # "queued")
==============================================================================

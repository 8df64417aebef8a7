------------------------------ MODULE LmtpProofs ------------------------------
(***************************************************************************)
(* Proofs about LmtpDelivery: what the sender is told of a recipient, and  *)
(* which mail becomes the report of which test.                            *)
(*                                                                         *)
(* None of the three properties is inductive.  What an answer says is true *)
(* of every recipient still in the queue because the transaction covers    *)
(* them all (Covered) and the loop has left behind it only recipients      *)
(* whose test has a report (SessionInv).  A mail cannot collide with       *)
(* itself because, as long as nobody gave up waiting, every session that   *)
(* is open has a sender waiting on it (NobodyLate), one per mail           *)
(* (OneTransaction): a report that appears between the look for one and    *)
(* the INSERT is another mail's (FreshTest).                               *)
(***************************************************************************)
EXTENDS LmtpDelivery, FiniteSetTheorems, TLAPS

-----------------------------------------------------------------------------
(* The inductive invariant                                                 *)

Answered(table, a) == TestOf[a] # None /\ Exists(table, TestOf[a])

Open(s)     == session[s].at # "idle"
Positions(s) == 1 .. Len(session[s].recipients)

\* A session between transactions is empty; the others have a mail, only its
\* recipients, and a report for the test of each recipient they are done with.
SessionInv(s) ==
  /\ ~Open(s) => session[s].recipients = << >> /\ ~waiting[s]
  /\ Open(s) =>
       /\ session[s].mail \in Mails
       /\ session[s].next =< Len(session[s].recipients) + 1
       /\ \A i \in Positions(s) : session[s].recipients[i] \in Envelope[session[s].mail]
       /\ \A i \in 1 .. session[s].next - 1 : Answered(reports, session[s].recipients[i])
  /\ session[s].at = "analyzing" =>
       session[s].next =< Len(session[s].recipients) /\ Test(s) # None
  /\ session[s].at = "ok" => session[s].next > Len(session[s].recipients)

\* A transaction somebody waits for names every recipient that is queued.
Covered ==
  \A s \in Sessions : waiting[s] =>
    \A a \in Queued(session[s].mail) : \E i \in Positions(s) : session[s].recipients[i] = a

\* A mail is in one such transaction at a time.
OneTransaction ==
  \A s, t \in Sessions :
    waiting[s] /\ waiting[t] /\ session[s].mail = session[t].mail => s = t

\* While no answer came late, somebody waits for every open session ...
NobodyLate == timeouts = 0 => \A s \in Sessions : Open(s) => waiting[s]

\* ... and a test about to get this mail does not have it.
FreshTest ==
  timeouts = 0 => \A s \in Sessions :
    session[s].at = "analyzing" => ~HasReport(session[s].mail, Recipient(s))

\* The reasons BouncedForAReason allows.
Reason(m) ==
    \/ m \in Unparsable \cup Oversized
    \/ \E a \in Envelope[m] : BadRecipient(m, a)
    \/ failures > 0
    \/ timeouts > 0

\* A session that failed had a reason that does not go away.
ErrorHasReason == \A s \in Sessions : session[s].at = "error" => Reason(session[s].mail)

DeliveryInv ==
  /\ TypeOK
  /\ \A s \in Sessions : SessionInv(s)
  /\ Covered
  /\ OneTransaction
  /\ NobodyLate
  /\ FreshTest
  /\ ErrorHasReason
  /\ SentMeansReported
  /\ NoCrossDelivery
  /\ BouncedForAReason

-----------------------------------------------------------------------------
(* Operators                                                               *)

\* An order of the queued recipients is a sequence of them that misses none.
LEMMA OrderOfQueued ==
  ASSUME EnvelopeAssumption, NEW m \in Mails, NEW order \in Orders(Queued(m))
  PROVE  /\ order \in Seq(Queued(m)) /\ order \in Seq(Addresses)
         /\ \A i \in 1 .. Len(order) : order[i] \in Queued(m)
         /\ \A a \in Queued(m) : \E i \in 1 .. Len(order) : order[i] = a
  <1>1. IsFiniteSet(Queued(m))
    BY FS_Subset DEF EnvelopeAssumption, Queued
  <1>2. Cardinality(Queued(m)) \in Nat
    BY <1>1, FS_CardinalityType
  <1>3. Queued(m) \subseteq Addresses
    BY DEF EnvelopeAssumption, Queued
  <1>4. order \in Seq(Queued(m)) /\ order \in Seq(Addresses)
    BY <1>2, <1>3 DEF Orders
  <1> QED
    BY <1>2, <1>4 DEF Orders

\* Rows are only added.
LEMMA ReportsGrow ==
  ASSUME [Next]_vars
  PROVE  reports \subseteq reports'
  <1> USE DEF vars, environment
  <1>1. ASSUME NEW s \in Sessions, Server(s) PROVE reports \subseteq reports'
    BY <1>1 DEF Server, Check, Store, EndOfData, Reply, Insert
  <1>2. ASSUME NEW s \in Sessions, FailStatement(s) \/ GiveUp(s) PROVE reports \subseteq reports'
    BY <1>2 DEF FailStatement, GiveUp
  <1>3. ASSUME NEW s \in Sessions, NEW m \in Mails, Submit(s, m) PROVE reports \subseteq reports'
    BY <1>3 DEF Submit
  <1>4. CASE Crash
    BY <1>4 DEF Crash
  <1> QED
    BY <1>1, <1>2, <1>3, <1>4 DEF Next

LEMMA ExistsGrows ==
  ASSUME reports \subseteq reports', NEW t, Exists(reports, t)
  PROVE  Exists(reports', t)
  BY DEF Exists, Matching

-----------------------------------------------------------------------------
(* Types                                                                   *)

LEMMA TypeInit == EnvelopeAssumption /\ BoundAssumption /\ Init => TypeOK
  <1> SUFFICES ASSUME EnvelopeAssumption, BoundAssumption, Init PROVE TypeOK
    OBVIOUS
  <1>1. Idle \in SessionState
    BY DEF Idle, SessionState
  <1> QED
    BY <1>1 DEF Init, TypeOK, BoundAssumption, Outcome

\* What a step of the loop does to the sessions.
LEMMA GoEffect ==
  ASSUME session \in [Sessions -> SessionState], NEW s \in Sessions,
         NEW at \in {"idle", "data", "analyzing", "ok", "error"}, Go(s, at)
  PROVE  /\ session' \in [Sessions -> SessionState]
         /\ session'[s].at = at /\ session'[s].mail = session[s].mail
         /\ session'[s].recipients = session[s].recipients /\ session'[s].next = session[s].next
         /\ \A t \in Sessions \ {s} : session'[t] = session[t]
  BY DEF Go, SessionState

LEMMA AdvanceEffect ==
  ASSUME session \in [Sessions -> SessionState], NEW s \in Sessions, Advance(s)
  PROVE  /\ session' \in [Sessions -> SessionState]
         /\ session'[s].at = "data" /\ session'[s].mail = session[s].mail
         /\ session'[s].recipients = session[s].recipients /\ session'[s].next = session[s].next + 1
         /\ \A t \in Sessions \ {s} : session'[t] = session[t]
  <1>1. session[s] \in SessionState
    OBVIOUS
  <1>2. session' = [session EXCEPT ![s] = [session[s] EXCEPT !.at = "data", !.next = session[s].next + 1]]
    BY DEF Advance
  <1> DEFINE moved == [session[s] EXCEPT !.at = "data", !.next = session[s].next + 1]
  <1>3. /\ moved.at = "data" /\ moved.mail = session[s].mail
        /\ moved.recipients = session[s].recipients /\ moved.next = session[s].next + 1
    BY <1>1 DEF SessionState
  <1>4. moved \in SessionState
    <2>1. session[s].next + 1 \in Nat \ {0}
      BY <1>1 DEF SessionState
    <2> QED
      BY <1>1, <2>1 DEF SessionState
  <1>5. session' = [session EXCEPT ![s] = moved]
    BY <1>2
  <1> HIDE DEF moved
  <1> QED
    BY <1>3, <1>4, <1>5

LEMMA IdleState == Idle \in SessionState /\ Idle.at = "idle" /\ Idle.recipients = << >>
  BY DEF Idle, SessionState

LEMMA ReplyEffect ==
  ASSUME session \in [Sessions -> SessionState], NEW s \in Sessions, Reply(s)
  PROVE  /\ session' \in [Sessions -> SessionState]
         /\ session'[s] = Idle
         /\ \A t \in Sessions \ {s} : session'[t] = session[t]
  BY IdleState DEF Reply, Reset

LEMMA SubmitEffect ==
  ASSUME EnvelopeAssumption, session \in [Sessions -> SessionState],
         NEW s \in Sessions, NEW m \in Mails, Submit(s, m), session[s].recipients = << >>
  PROVE  /\ session' \in [Sessions -> SessionState]
         /\ session'[s].at \in {"data", "error"} /\ session'[s].mail = m /\ session'[s].next = 1
         /\ session'[s].at = "error" => m \in Oversized
         /\ session'[s].recipients \in Orders(Queued(m))
         /\ \A t \in Sessions \ {s} : session'[t] = session[t]
  <1>1. PICK order \in Orders(Queued(m)) : session' = [session EXCEPT
          ![s] = [at |-> ReadAll(m), mail |-> m, recipients |-> session[s].recipients \o order, next |-> 1]]
    BY DEF Submit
  <1>2. order \in Seq(Addresses)
    BY OrderOfQueued
  <1>3. session[s].recipients \o order = order
    BY <1>2
  <1> DEFINE open == [at |-> ReadAll(m), mail |-> m, recipients |-> order, next |-> 1]
  <1>4. /\ open \in SessionState /\ open.at \in {"data", "error"} /\ open.mail = m
        /\ open.at = "error" => m \in Oversized
        /\ open.recipients = order /\ open.next = 1
    BY <1>2 DEF SessionState, ReadAll
  <1>5. session' = [session EXCEPT ![s] = open]
    BY <1>1, <1>3
  <1> HIDE DEF open
  <1> QED
    BY <1>4, <1>5

LEMMA TypeStep ==
  ASSUME EnvelopeAssumption, BoundAssumption, TypeOK, \A s \in Sessions : SessionInv(s), [Next]_vars
  PROVE  TypeOK'
  <1> USE DEF TypeOK, environment
  <1>0. \A s \in Sessions : session[s] \in SessionState
    OBVIOUS
  <1>1. ASSUME NEW s \in Sessions, Check(s) PROVE TypeOK'
    BY <1>1, GoEffect, AdvanceEffect DEF Check, Skip, Fail
  <1>2. ASSUME NEW s \in Sessions, Store(s) PROVE TypeOK'
    <2>1. session' \in [Sessions -> SessionState]
      BY <1>2, GoEffect, AdvanceEffect DEF Store, Fail
    <2>2. Open(s)
      BY <1>2 DEF Store, Open
    <2>3. Recipient(s) \in Addresses /\ Test(s) # None /\ session[s].mail \in Mails
      BY <1>0, <1>2, <2>2 DEF SessionInv, Store, Recipient, SessionState
    <2>4. Test(s) \in TestIDs
      BY <2>3 DEF Test, TestIDs
    <2>5. reports' \subseteq [testID : TestIDs, raw : Mails, json : Mails, age : {0}]
      BY <1>2, <2>3, <2>4 DEF Store, Insert, NewRow
    <2> QED
      BY <1>2, <2>1, <2>5 DEF Store
  <1>3. ASSUME NEW s \in Sessions, EndOfData(s) PROVE TypeOK'
    BY <1>3, GoEffect DEF EndOfData
  <1>4. ASSUME NEW s \in Sessions, Reply(s) PROVE TypeOK'
    <2>1. Open(s) /\ session[s].mail \in Mails
      BY <1>4 DEF Reply, Open, SessionInv
    <2>2. session' \in [Sessions -> SessionState]
      BY <1>4, ReplyEffect
    <2>3. DOMAIN queue' = Mails
      BY <1>4 DEF Reply
    <2>4. \A m \in Mails : queue'[m] \in [Envelope[m] -> Outcome]
      BY <1>4, <2>1 DEF Reply, Outcome
    <2> QED
      BY <1>4, <2>2, <2>3, <2>4 DEF Reply
  <1>5. ASSUME NEW s \in Sessions, FailStatement(s) PROVE TypeOK'
    BY <1>5, GoEffect DEF FailStatement, Fail, BoundAssumption
  <1>6. ASSUME NEW s \in Sessions, GiveUp(s) PROVE TypeOK'
    BY <1>6 DEF GiveUp, BoundAssumption
  <1>7. ASSUME NEW s \in Sessions, NEW m \in Mails, Submit(s, m) PROVE TypeOK'
    <2>1. session[s].recipients = << >>
      BY <1>7 DEF Submit, SessionInv, Open
    <2>2. session' \in [Sessions -> SessionState]
      BY <1>7, <2>1, SubmitEffect
    <2> QED
      BY <1>7, <2>2 DEF Submit
  <1>8. CASE Crash
    BY <1>8, IdleState DEF Crash, BoundAssumption
  <1>9. CASE UNCHANGED vars
    BY <1>9 DEF vars
  <1> QED
    BY <1>1, <1>2, <1>3, <1>4, <1>5, <1>6, <1>7, <1>8, <1>9 DEF Next, Server

-----------------------------------------------------------------------------
(* Sessions                                                                *)

\* A session that did not move keeps its part of the invariant: reports are
\* only added.
LEMMA StillSession ==
  ASSUME [Next]_vars, NEW t \in Sessions, SessionInv(t),
         session'[t] = session[t], waiting'[t] => waiting[t]
  PROVE  SessionInv(t)'
  <1>1. \A a : Answered(reports, a) => Answered(reports', a)
    BY ReportsGrow, ExistsGrows DEF Answered
  <1> QED
    BY <1>1 DEF SessionInv, Open, Positions, Test, Recipient

LEMMA FailedSession ==
  ASSUME [Next]_vars, TypeOK, NEW s \in Sessions, SessionInv(s), Open(s), Fail(s), waiting' = waiting
  PROVE  SessionInv(s)'
  <1>1. /\ session'[s].at = "error" /\ session'[s].mail = session[s].mail
        /\ session'[s].recipients = session[s].recipients /\ session'[s].next = session[s].next
    BY GoEffect DEF Fail, TypeOK
  <1>2. \A a : Answered(reports, a) => Answered(reports', a)
    BY ReportsGrow, ExistsGrows DEF Answered
  <1> QED
    BY <1>1, <1>2 DEF SessionInv, Open, Positions

LEMMA SessionStep ==
  ASSUME EnvelopeAssumption, TypeOK, \A s \in Sessions : SessionInv(s), [Next]_vars
  PROVE  \A s \in Sessions : SessionInv(s)'
  <1>0. /\ session \in [Sessions -> SessionState] /\ waiting \in [Sessions -> BOOLEAN]
        /\ \A s \in Sessions : session[s].next \in Nat \ {0} /\ session[s].recipients \in Seq(Addresses)
    BY DEF TypeOK, SessionState
  <1>a. \A a : Answered(reports, a) => Answered(reports', a)
    BY ReportsGrow, ExistsGrows DEF Answered
  <1> SUFFICES ASSUME NEW t \in Sessions PROVE SessionInv(t)'
    OBVIOUS
  <1>1. ASSUME NEW s \in Sessions, Check(s) PROVE SessionInv(t)'
    <2>1. waiting' = waiting /\ reports' = reports
      BY <1>1 DEF Check
    <2>2. /\ session' \in [Sessions -> SessionState]
          /\ \A u \in Sessions \ {s} : session'[u] = session[u]
          /\ session'[s].mail = session[s].mail /\ session'[s].recipients = session[s].recipients
      BY <1>0, <1>1, GoEffect, AdvanceEffect DEF Check, Fail, Skip
    <2>3. CASE t # s
      BY <2>1, <2>2, <2>3, StillSession
    <2>4. CASE t = s /\ Test(s) = None /\ Fail(s)
      BY <1>1, <2>1, <2>4, FailedSession DEF Check, Open
    <2>5. CASE t = s /\ Test(s) # None /\ Exists(reports, Test(s)) /\ Skip(s)
      <3>1. session'[s].at = "data" /\ session'[s].next = session[s].next + 1
        BY <1>0, <2>5, AdvanceEffect DEF Skip
      <3>2. Answered(reports, session[s].recipients[session[s].next])
        BY <2>5 DEF Answered, Test, Recipient
      <3>3. Open(s) /\ session[s].next =< Len(session[s].recipients)
        BY <1>1 DEF Check, Open
      <3>4. \A i \in 1 .. session[s].next : Answered(reports', session[s].recipients[i])
        <4>1. \A i \in 1 .. session[s].next : i = session[s].next \/ i \in 1 .. session[s].next - 1
          BY <1>0
        <4> QED
          BY <1>a, <2>2, <3>2, <3>3, <4>1 DEF SessionInv, Answered
      <3> QED
        BY <1>0, <2>1, <2>2, <2>5, <3>1, <3>3, <3>4 DEF SessionInv, Open, Positions
    <2>6. CASE t = s /\ Test(s) # None /\ ~Exists(reports, Test(s)) /\ Go(s, "analyzing")
      BY <1>0, <1>1, <2>1, <2>6, GoEffect DEF Check, SessionInv, Open, Positions, Answered, Test, Recipient
    <2> QED
      BY <1>1, <2>3, <2>4, <2>5, <2>6 DEF Check
  <1>2. ASSUME NEW s \in Sessions, Store(s) PROVE SessionInv(t)'
    <2>1. waiting' = waiting
      BY <1>2 DEF Store
    <2>2. /\ session' \in [Sessions -> SessionState]
          /\ \A u \in Sessions \ {s} : session'[u] = session[u]
          /\ session'[s].mail = session[s].mail /\ session'[s].recipients = session[s].recipients
      BY <1>0, <1>2, GoEffect, AdvanceEffect DEF Store, Fail
    <2>3. CASE t # s
      BY <2>1, <2>2, <2>3, StillSession
    <2>4. CASE t = s /\ Fail(s)
      BY <1>2, <2>1, <2>4, FailedSession DEF Store, Open
    <2>5. CASE t = s /\ Advance(s) /\ reports' = Insert(reports, Test(s), session[s].mail, session[s].mail)
      <3>1. session'[s].at = "data" /\ session'[s].next = session[s].next + 1
        BY <1>0, <2>5, AdvanceEffect
      <3>2. Open(s) /\ session[s].next =< Len(session[s].recipients) /\ Test(s) # None
        BY <1>2 DEF Store, Open, SessionInv
      <3>3. Answered(reports', session[s].recipients[session[s].next])
        <4>1. Exists(reports', Test(s))
          <5> DEFINE row == NewRow(Test(s), session[s].mail, session[s].mail)
          <5>1. row.testID = Test(s)
            BY DEF NewRow
          <5>2. row \in reports'
            BY <2>5 DEF Insert
          <5> QED
            BY <5>1, <5>2 DEF Exists, Matching
        <4> QED
          BY <3>2, <4>1 DEF Answered, Test, Recipient
      <3>4. \A i \in 1 .. session[s].next : Answered(reports', session[s].recipients[i])
        <4>1. \A i \in 1 .. session[s].next : i = session[s].next \/ i \in 1 .. session[s].next - 1
          BY <1>0
        <4> QED
          BY <1>a, <2>2, <3>2, <3>3, <4>1 DEF SessionInv, Answered
      <3> QED
        <4>1. SessionInv(s) /\ session'[s].next - 1 = session[s].next
          BY <1>0, <3>1
        <4>2. Len(session[s].recipients) \in Nat /\ session[s].next \in Nat
          BY <1>0
        <4>3. /\ session'[s].mail = session[s].mail /\ session'[s].recipients = session[s].recipients
              /\ session'[s].at = "data" /\ session'[s].next =< Len(session[s].recipients) + 1
          BY <2>2, <3>1, <3>2, <4>2
        <4>4. /\ session[s].mail \in Mails
              /\ \A i \in Positions(s) : session[s].recipients[i] \in Envelope[session[s].mail]
          BY <3>2, <4>1 DEF SessionInv
        <4> QED
          BY <2>5, <3>4, <4>1, <4>3, <4>4 DEF SessionInv, Open, Positions
    <2> QED
      BY <1>2, <2>3, <2>4, <2>5 DEF Store
  <1>3. ASSUME NEW s \in Sessions, EndOfData(s) PROVE SessionInv(t)'
    <2>1. CASE t # s
      BY <1>0, <1>3, <2>1, GoEffect, StillSession DEF EndOfData
    <2>2. CASE t = s
      <3>1. /\ session'[s].at = "ok" /\ session'[s].mail = session[s].mail
            /\ session'[s].recipients = session[s].recipients /\ session'[s].next = session[s].next
        BY <1>0, <1>3, GoEffect DEF EndOfData
      <3>2. Open(s) /\ session[s].next > Len(session[s].recipients) /\ waiting' = waiting /\ reports' = reports
        BY <1>3 DEF EndOfData, Open
      <3> QED
        BY <1>0, <2>2, <3>1, <3>2 DEF SessionInv, Open, Positions
    <2> QED
      BY <2>1, <2>2
  <1>4. ASSUME NEW s \in Sessions, Reply(s) PROVE SessionInv(t)'
    <2>1. waiting' = [waiting EXCEPT ![s] = FALSE]
      BY <1>4 DEF Reply
    <2>2. CASE t # s
      BY <1>0, <1>4, <2>1, <2>2, ReplyEffect, StillSession
    <2>3. CASE t = s
      BY <1>0, <1>4, <2>1, <2>3, ReplyEffect, IdleState DEF SessionInv, Open
    <2> QED
      BY <2>2, <2>3
  <1>5. ASSUME NEW s \in Sessions, FailStatement(s) PROVE SessionInv(t)'
    <2>1. CASE t # s
      BY <1>0, <1>5, <2>1, GoEffect, StillSession DEF FailStatement, Fail
    <2>2. CASE t = s
      BY <1>5, <2>2, FailedSession DEF FailStatement, Open
    <2> QED
      BY <2>1, <2>2
  <1>6. ASSUME NEW s \in Sessions, GiveUp(s) PROVE SessionInv(t)'
    BY <1>0, <1>6, StillSession DEF GiveUp
  <1>7. ASSUME NEW s \in Sessions, NEW m \in Mails, Submit(s, m) PROVE SessionInv(t)'
    <2>1. session[s].recipients = << >>
      BY <1>7 DEF Submit, SessionInv, Open
    <2>2. CASE t # s
      BY <1>0, <1>7, <2>1, <2>2, SubmitEffect, StillSession DEF Submit
    <2>3. CASE t = s
      <3>1. \A i \in 1 .. Len(session'[s].recipients) : session'[s].recipients[i] \in Envelope[m]
        <4>1. session'[s].recipients \in Orders(Queued(m))
          BY <1>0, <1>7, <2>1, SubmitEffect
        <4> QED
          BY <4>1, OrderOfQueued DEF Queued
      <3> QED
        BY <1>0, <1>7, <2>1, <2>3, <3>1, SubmitEffect DEF SessionInv, Open, Positions, SessionState
    <2> QED
      BY <2>2, <2>3
  <1>8. CASE Crash
    BY <1>8, IdleState DEF Crash, SessionInv, Open
  <1>9. CASE UNCHANGED vars
    BY <1>9, StillSession DEF vars
  <1> QED
    BY <1>1, <1>2, <1>3, <1>4, <1>5, <1>6, <1>7, <1>8, <1>9 DEF Next, Server

-----------------------------------------------------------------------------
(* Transactions                                                            *)

\* The steps of Session.Data leave the transactions and the queue alone.
Working ==
  /\ waiting' = waiting /\ queue' = queue /\ timeouts' = timeouts
  /\ \A s \in Sessions :
       /\ session'[s].mail = session[s].mail /\ session'[s].recipients = session[s].recipients
       /\ Open(s)' <=> Open(s)

LEMMA WorkOrTransaction ==
  ASSUME TypeOK, [Next]_vars
  PROVE  \/ Working
         \/ \E s \in Sessions : Reply(s) \/ GiveUp(s)
         \/ \E s \in Sessions, m \in Mails : Submit(s, m)
         \/ Crash
  <1>0. session \in [Sessions -> SessionState]
    BY DEF TypeOK
  <1>1. ASSUME NEW s \in Sessions, Check(s) PROVE Working
    BY <1>0, <1>1, GoEffect, AdvanceEffect DEF Check, Fail, Skip, Working, Open, environment
  <1>2. ASSUME NEW s \in Sessions, Store(s) PROVE Working
    BY <1>0, <1>2, GoEffect, AdvanceEffect DEF Store, Fail, Working, Open, environment
  <1>3. ASSUME NEW s \in Sessions, EndOfData(s) PROVE Working
    BY <1>0, <1>3, GoEffect DEF EndOfData, Working, Open, environment
  <1>4. ASSUME NEW s \in Sessions, FailStatement(s) PROVE Working
    BY <1>0, <1>4, GoEffect DEF FailStatement, Fail, Working, Open
  <1>5. CASE UNCHANGED vars
    BY <1>5 DEF vars, environment, Working, Open
  <1> QED
    BY <1>1, <1>2, <1>3, <1>4, <1>5 DEF Next, Server

\* An answer only takes recipients out of the queue.
LEMMA ReplyQueue ==
  ASSUME TypeOK, NEW s \in Sessions, SessionInv(s), Reply(s), NEW m \in Mails, NEW a \in Envelope[m]
  PROVE  \/ queue'[m][a] = queue[m][a]
         \/ /\ queue[m][a] = "queued" /\ m = session[s].mail /\ waiting[s]
            /\ queue'[m][a] = IF session[s].at = "ok" THEN "sent" ELSE "bounced"
  <1>1. session[s].mail \in Mails
    BY DEF Reply, SessionInv, Open
  <1>2. CASE m # session[s].mail
    BY <1>2 DEF Reply, TypeOK
  <1>3. CASE m = session[s].mail
    <2>1. queue'[m] = [b \in Envelope[m] |->
            IF waiting[s] /\ queue[m][b] = "queued"
            THEN IF session[s].at = "ok" THEN "sent" ELSE "bounced" ELSE queue[m][b]]
      BY <1>1, <1>3 DEF Reply, TypeOK
    <2> QED
      BY <1>3, <2>1
  <1> QED
    BY <1>2, <1>3

LEMMA CoveredStep ==
  ASSUME EnvelopeAssumption, TypeOK, \A s \in Sessions : SessionInv(s), Covered, [Next]_vars
  PROVE  Covered'
  <1>0. session \in [Sessions -> SessionState] /\ waiting \in [Sessions -> BOOLEAN]
    BY DEF TypeOK
  <1> SUFFICES ASSUME NEW t \in Sessions, waiting'[t], NEW a \in Queued(session[t].mail)'
               PROVE  \E i \in Positions(t)' : session'[t].recipients[i] = a
    BY DEF Covered
  <1>1. CASE Working
    <2>1. waiting[t] /\ a \in Queued(session[t].mail)
      BY <1>1 DEF Working, Queued
    <2> QED
      BY <1>1, <2>1 DEF Working, Covered, Positions
  <1>2. ASSUME NEW s \in Sessions, Reply(s) PROVE \E i \in Positions(t)' : session'[t].recipients[i] = a
    <2>1. t # s /\ waiting[t]
      BY <1>0, <1>2 DEF Reply
    <2>2. session'[t] = session[t]
      BY <1>0, <1>2, <2>1, ReplyEffect
    <2>3. session[t].mail \in Mails
      BY <2>1 DEF SessionInv
    <2>4. a \in Queued(session[t].mail)
      <3>1. a \in Envelope[session[t].mail] /\ queue'[session[t].mail][a] = "queued"
        BY <2>2 DEF Queued
      <3> QED
        BY <1>2, <2>3, <3>1, ReplyQueue DEF Queued
    <2>5. PICK i \in Positions(t) : session[t].recipients[i] = a
      BY <2>1, <2>4 DEF Covered
    <2>6. i \in Positions(t)' /\ session'[t].recipients[i] = a
      BY <2>2, <2>5 DEF Positions
    <2> QED
      BY <2>6, Zenon
  <1>3. ASSUME NEW s \in Sessions, GiveUp(s) PROVE \E i \in Positions(t)' : session'[t].recipients[i] = a
    <2>1. waiting[t] /\ session' = session /\ queue' = queue
      BY <1>0, <1>3 DEF GiveUp
    <2> QED
      BY <2>1 DEF Covered, Positions, Queued
  <1>4. ASSUME NEW s \in Sessions, NEW m \in Mails, Submit(s, m)
        PROVE  \E i \in Positions(t)' : session'[t].recipients[i] = a
    <2>0. session[s].recipients = << >> /\ queue' = queue
      BY <1>4 DEF Submit, SessionInv, Open
    <2>1. CASE t = s
      <3>1. session'[s].mail = m /\ session'[s].recipients \in Orders(Queued(m))
        BY <1>0, <1>4, <2>0, SubmitEffect
      <3>2. a \in Queued(m)
        BY <2>0, <2>1, <3>1 DEF Queued
      <3>3. \E i \in 1 .. Len(session'[s].recipients) : session'[s].recipients[i] = a
        BY <3>1, <3>2, OrderOfQueued
      <3> QED
        BY <2>1, <3>3 DEF Positions
    <2>2. CASE t # s
      <3>1. session'[t] = session[t] /\ waiting[t]
        BY <1>0, <1>4, <2>0, <2>2, SubmitEffect DEF Submit
      <3>2. a \in Queued(session[t].mail)
        BY <2>0, <3>1 DEF Queued
      <3>3. PICK i \in Positions(t) : session[t].recipients[i] = a
        BY <3>1, <3>2 DEF Covered
      <3>4. i \in Positions(t)' /\ session'[t].recipients[i] = a
        BY <3>1, <3>3 DEF Positions
      <3> QED
        BY <3>4, Zenon
    <2> QED
      BY <2>1, <2>2
  <1>5. CASE Crash
    BY <1>5 DEF Crash
  <1> QED
    BY <1>1, <1>2, <1>3, <1>4, <1>5, WorkOrTransaction

LEMMA TransactionStep ==
  ASSUME EnvelopeAssumption, BoundAssumption, TypeOK, \A s \in Sessions : SessionInv(s),
         OneTransaction, NobodyLate, [Next]_vars
  PROVE  OneTransaction' /\ NobodyLate'
  <1>0. session \in [Sessions -> SessionState] /\ waiting \in [Sessions -> BOOLEAN] /\ timeouts \in Nat
    BY DEF TypeOK, BoundAssumption
  <1>1. CASE Working
    BY <1>1 DEF Working, OneTransaction, NobodyLate
  <1>2. ASSUME NEW s \in Sessions, Reply(s) PROVE OneTransaction' /\ NobodyLate'
    <2>1. waiting' = [waiting EXCEPT ![s] = FALSE] /\ timeouts' = timeouts
      BY <1>2 DEF Reply, environment
    <2> QED
      BY <1>0, <1>2, <2>1, ReplyEffect, IdleState DEF OneTransaction, NobodyLate, Open
  <1>3. ASSUME NEW s \in Sessions, GiveUp(s) PROVE OneTransaction' /\ NobodyLate'
    BY <1>0, <1>3 DEF GiveUp, OneTransaction, NobodyLate
  <1>4. ASSUME NEW s \in Sessions, NEW m \in Mails, Submit(s, m) PROVE OneTransaction' /\ NobodyLate'
    <2>1. /\ session[s].recipients = << >> /\ waiting' = [waiting EXCEPT ![s] = TRUE]
          /\ ~InTransaction(m) /\ timeouts' = timeouts
      BY <1>4 DEF Submit, SessionInv, Open, environment
    <2>2. session'[s].mail = m /\ \A t \in Sessions \ {s} : session'[t] = session[t]
      BY <1>0, <1>4, <2>1, SubmitEffect
    <2>3. OneTransaction'
      BY <1>0, <2>1, <2>2 DEF OneTransaction, InTransaction
    <2>4. NobodyLate'
      BY <1>0, <2>1, <2>2 DEF NobodyLate, Open
    <2> QED
      BY <2>3, <2>4
  <1>5. CASE Crash
    BY <1>5, IdleState DEF Crash, OneTransaction, NobodyLate, Open
  <1> QED
    BY <1>1, <1>2, <1>3, <1>4, <1>5, WorkOrTransaction

-----------------------------------------------------------------------------
(* Reports and reasons                                                     *)

\* A row that is new is of the mail and the test a session is at.
LEMMA NewRowOfSession ==
  ASSUME [Next]_vars, NEW row \in reports' \ reports
  PROVE  \E s \in Sessions :
           /\ session[s].at = "analyzing" /\ ~Exists(reports, Test(s))
           /\ row.testID = Test(s) /\ row.raw = session[s].mail
           /\ Advance(s) /\ timeouts' = timeouts
  <1>1. ASSUME NEW s \in Sessions, Store(s), reports' # reports
        PROVE  /\ session[s].at = "analyzing" /\ ~Exists(reports, Test(s))
               /\ row.testID = Test(s) /\ row.raw = session[s].mail
               /\ Advance(s) /\ timeouts' = timeouts
    BY <1>1 DEF Store, Insertable, Insert, NewRow, environment
  <1>2. \E s \in Sessions : Store(s)
    BY DEF Next, Server, Check, EndOfData, Reply, FailStatement, GiveUp, Submit, Crash, vars
  <1> QED
    BY <1>1, <1>2

\* Another mail in a test stays there, and keeps this one out.
LEMMA BadRecipientStays ==
  ASSUME [Next]_vars, NEW m, NEW a, BadRecipient(m, a)
  PROVE  BadRecipient(m, a)'
  <1>1. CASE TestOf[a] = None
    BY <1>1 DEF BadRecipient
  <1>2. CASE Exists(reports, TestOf[a]) /\ ~HasReport(m, a)
    <2>1. Exists(reports', TestOf[a])
      BY <1>2, ReportsGrow, ExistsGrows
    <2>2. ASSUME NEW row \in reports', row.testID = TestOf[a], row.raw = m PROVE FALSE
      <3>1. row \in reports' \ reports
        BY <1>2, <2>2 DEF HasReport
      <3> QED
        BY <1>2, <2>2, <3>1, NewRowOfSession
    <2> QED
      BY <2>1, <2>2 DEF BadRecipient, HasReport
  <1> QED
    BY <1>1, <1>2 DEF BadRecipient

LEMMA CountersGrow ==
  ASSUME TypeOK, BoundAssumption, [Next]_vars
  PROVE  /\ failures \in Nat /\ failures' \in Nat /\ failures' >= failures
         /\ timeouts \in Nat /\ timeouts' \in Nat /\ timeouts' >= timeouts
  <1> USE DEF TypeOK, BoundAssumption, environment, vars
  <1>1. ASSUME NEW s \in Sessions, Server(s) PROVE failures' = failures /\ timeouts' = timeouts
    BY <1>1 DEF Server, Check, Store, EndOfData, Reply
  <1>2. ASSUME NEW s \in Sessions, FailStatement(s) PROVE failures' = failures + 1 /\ timeouts' = timeouts
    BY <1>2 DEF FailStatement
  <1>3. ASSUME NEW s \in Sessions, GiveUp(s) PROVE failures' = failures /\ timeouts' = timeouts + 1
    BY <1>3 DEF GiveUp
  <1>4. ASSUME NEW s \in Sessions, NEW m \in Mails, Submit(s, m)
        PROVE  failures' = failures /\ timeouts' = timeouts
    BY <1>4 DEF Submit
  <1>5. CASE Crash
    BY <1>5 DEF Crash
  <1> QED
    BY <1>1, <1>2, <1>3, <1>4, <1>5 DEF Next

LEMMA ReasonStays ==
  ASSUME TypeOK, BoundAssumption, [Next]_vars, NEW m, Reason(m)
  PROVE  Reason(m)'
  BY BadRecipientStays, CountersGrow DEF Reason

LEMMA FreshTestStep ==
  ASSUME EnvelopeAssumption, BoundAssumption, TypeOK, \A s \in Sessions : SessionInv(s),
         OneTransaction, NobodyLate, FreshTest, [Next]_vars
  PROVE  FreshTest'
  <1>0. session \in [Sessions -> SessionState] /\ timeouts \in Nat
    BY DEF TypeOK, BoundAssumption
  <1> SUFFICES ASSUME timeouts' = 0, NEW t \in Sessions, session'[t].at = "analyzing",
                      NEW row \in reports', row.testID = Test(t)', row.raw = session'[t].mail
               PROVE  FALSE
    BY DEF FreshTest, HasReport, Test
  <1>1. timeouts = 0
    BY CountersGrow
  <1>2. CASE session'[t] # session[t]
    \* It has just looked for a report of its test.
    <2>1. ASSUME NEW s \in Sessions, Check(s) PROVE FALSE
      <3>1. t = s /\ ~Exists(reports, Test(s)) /\ Go(s, "analyzing") /\ reports' = reports
        BY <1>0, <1>2, <2>1, GoEffect, AdvanceEffect DEF Check, Fail, Skip
      <3>2. Test(t)' = Test(t)
        BY <1>0, <3>1, GoEffect DEF Test, Recipient
      <3> QED
        BY <3>1, <3>2 DEF Exists, Matching
    <2>2. ASSUME NEW s \in Sessions, Store(s) PROVE FALSE
      BY <1>0, <1>2, <2>2, GoEffect, AdvanceEffect DEF Store, Fail
    <2>3. ASSUME NEW s \in Sessions, EndOfData(s) PROVE FALSE
      BY <1>0, <1>2, <2>3, GoEffect DEF EndOfData
    <2>4. ASSUME NEW s \in Sessions, Reply(s) PROVE FALSE
      BY <1>0, <1>2, <2>4, ReplyEffect, IdleState
    <2>5. ASSUME NEW s \in Sessions, FailStatement(s) PROVE FALSE
      BY <1>0, <1>2, <2>5, GoEffect DEF FailStatement, Fail
    <2>6. ASSUME NEW s \in Sessions, NEW m \in Mails, Submit(s, m) PROVE FALSE
      <3>1. session[s].recipients = << >>
        BY <2>6 DEF Submit, SessionInv, Open
      <3> QED
        BY <1>0, <1>2, <2>6, <3>1, SubmitEffect
    <2>7. CASE Crash
      BY <2>7, IdleState DEF Crash
    <2> QED
      BY <1>2, <2>1, <2>2, <2>3, <2>4, <2>5, <2>6, <2>7 DEF Next, Server, GiveUp, vars
  <1>3. CASE session'[t] = session[t]
    \* Only another mail can have come into the test meanwhile.
    <2>1. ~HasReport(session[t].mail, Recipient(t))
      BY <1>1, <1>3 DEF FreshTest
    <2>2. Test(t)' = TestOf[Recipient(t)]
      BY <1>3 DEF Test, Recipient
    <2>3. row \in reports' \ reports
      BY <1>3, <2>1, <2>2 DEF HasReport
    <2>4. PICK s \in Sessions : session[s].at = "analyzing" /\ row.raw = session[s].mail /\ Advance(s)
      BY <2>3, NewRowOfSession
    <2>5. t # s
      BY <1>0, <1>3, <2>4, AdvanceEffect
    <2>6. waiting[s] /\ waiting[t]
      BY <1>1, <1>3, <2>4 DEF NobodyLate, Open
    <2> QED
      BY <1>3, <2>4, <2>5, <2>6 DEF OneTransaction
  <1> QED
    BY <1>2, <1>3

LEMMA ErrorStep ==
  ASSUME EnvelopeAssumption, BoundAssumption, TypeOK, \A s \in Sessions : SessionInv(s),
         FreshTest, ErrorHasReason, [Next]_vars
  PROVE  ErrorHasReason'
  <1>0. session \in [Sessions -> SessionState]
    BY DEF TypeOK
  <1> SUFFICES ASSUME NEW t \in Sessions, session'[t].at = "error"
               PROVE  Reason(session[t].mail)'
    BY DEF ErrorHasReason
  <1>1. CASE session'[t] = session[t]
    BY <1>1, ReasonStays DEF ErrorHasReason
  <1>2. ASSUME session'[t] # session[t], NEW s \in Sessions, Check(s) PROVE Reason(session[t].mail)'
    <2>1. t = s /\ Test(s) = None /\ Fail(s)
      BY <1>0, <1>2, GoEffect, AdvanceEffect DEF Check, Skip, Fail
    <2>2. session'[t].mail = session[t].mail
      BY <1>0, <2>1, GoEffect DEF Fail
    <2>3. session[t].next \in Positions(t) /\ Recipient(t) \in Envelope[session[t].mail]
      BY <1>0, <1>2, <2>1 DEF Check, SessionInv, Open, Positions, Recipient, SessionState
    <2>4. Reason(session[t].mail)
      BY <2>1, <2>3 DEF Reason, BadRecipient, Test
    <2> QED
      BY <2>2, <2>4, ReasonStays
  <1>3. ASSUME session'[t] # session[t], NEW s \in Sessions, Store(s) PROVE Reason(session[t].mail)'
    <2>1. /\ t = s /\ session[s].at = "analyzing" /\ Fail(s)
          /\ session[s].mail \in Unparsable \/ Exists(reports, Test(s))
      BY <1>0, <1>3, GoEffect, AdvanceEffect DEF Store, Insertable, Fail
    <2>2. session'[t].mail = session[t].mail
      BY <1>0, <2>1, GoEffect DEF Fail
    <2>3. session[t].next \in Positions(t) /\ Recipient(t) \in Envelope[session[t].mail]
      BY <1>0, <2>1 DEF SessionInv, Open, Positions, Recipient, SessionState
    <2>4. timeouts > 0 \/ ~HasReport(session[t].mail, Recipient(t))
      BY <2>1, CountersGrow DEF FreshTest
    <2>5. Reason(session[t].mail)
      BY <2>1, <2>3, <2>4 DEF Reason, BadRecipient, Test
    <2> QED
      BY <2>2, <2>5, ReasonStays
  <1>4. ASSUME session'[t] # session[t], NEW s \in Sessions, EndOfData(s) PROVE Reason(session[t].mail)'
    BY <1>0, <1>4, GoEffect DEF EndOfData
  <1>5. ASSUME session'[t] # session[t], NEW s \in Sessions, Reply(s) PROVE Reason(session[t].mail)'
    BY <1>0, <1>5, ReplyEffect, IdleState
  <1>6. ASSUME NEW s \in Sessions, FailStatement(s) PROVE Reason(session[t].mail)'
    BY <1>6, CountersGrow DEF FailStatement, Reason
  <1>7. ASSUME session'[t] # session[t], NEW s \in Sessions, NEW m \in Mails, Submit(s, m)
        PROVE  Reason(session[t].mail)'
    <2>1. session[s].recipients = << >>
      BY <1>7 DEF Submit, SessionInv, Open
    <2>2. session'[t].mail \in Oversized
      BY <1>0, <1>7, <2>1, SubmitEffect
    <2> QED
      BY <2>2 DEF Reason
  <1>8. CASE Crash
    BY <1>8, IdleState DEF Crash
  <1> QED
    BY <1>1, <1>2, <1>3, <1>4, <1>5, <1>6, <1>7, <1>8 DEF Next, Server, GiveUp, vars

\* What an answer says of a recipient is what the transaction has done.
LEMMA OutcomeStep ==
  ASSUME EnvelopeAssumption, BoundAssumption, TypeOK, \A s \in Sessions : SessionInv(s),
         Covered, ErrorHasReason, [Next]_vars,
         NEW m \in Mails, NEW a \in Envelope[m], queue'[m][a] # queue[m][a]
  PROVE  \/ queue'[m][a] = "sent" /\ Answered(reports', a)
         \/ queue'[m][a] = "bounced" /\ Reason(m)'
  <1>1. PICK s \in Sessions : Reply(s)
    BY WorkOrTransaction DEF Working, GiveUp, Submit, Crash
  <1>2. /\ queue[m][a] = "queued" /\ m = session[s].mail /\ waiting[s]
        /\ queue'[m][a] = IF session[s].at = "ok" THEN "sent" ELSE "bounced"
    BY <1>1, ReplyQueue
  <1>3. CASE session[s].at = "ok"
    <2>1. PICK i \in Positions(s) : session[s].recipients[i] = a
      BY <1>2 DEF Covered, Queued
    <2>2. session[s].next \in Nat /\ i \in 1 .. session[s].next - 1
      BY <1>3, <2>1 DEF SessionInv, Positions, TypeOK, SessionState
    <2>3. Answered(reports, a)
      BY <1>3, <2>1, <2>2 DEF SessionInv, Open
    <2> QED
      BY <1>2, <1>3, <2>3, ReportsGrow, ExistsGrows DEF Answered
  <1>4. CASE session[s].at # "ok"
    <2>1. session[s].at = "error"
      BY <1>1, <1>4 DEF Reply
    <2> QED
      BY <1>2, <1>4, <2>1, ReasonStays DEF ErrorHasReason
  <1> QED
    BY <1>3, <1>4

LEMMA SentStep ==
  ASSUME EnvelopeAssumption, BoundAssumption, TypeOK, \A s \in Sessions : SessionInv(s),
         Covered, ErrorHasReason, SentMeansReported, [Next]_vars
  PROVE  SentMeansReported'
  <1> SUFFICES ASSUME NEW m \in Mails, NEW a \in Envelope[m], queue'[m][a] = "sent"
               PROVE  Answered(reports', a)
    BY DEF SentMeansReported, Answered
  <1>1. CASE queue'[m][a] = queue[m][a]
    BY <1>1, ReportsGrow, ExistsGrows DEF SentMeansReported, Answered
  <1>2. CASE queue'[m][a] # queue[m][a]
    BY <1>2, OutcomeStep
  <1> QED
    BY <1>1, <1>2

LEMMA BouncedStep ==
  ASSUME EnvelopeAssumption, BoundAssumption, TypeOK, \A s \in Sessions : SessionInv(s),
         Covered, ErrorHasReason, BouncedForAReason, [Next]_vars
  PROVE  BouncedForAReason'
  <1> SUFFICES ASSUME NEW m \in Mails, NEW a \in Envelope[m], queue'[m][a] = "bounced"
               PROVE  Reason(m)'
    BY DEF BouncedForAReason, Reason
  <1>1. CASE queue'[m][a] = queue[m][a]
    <2>1. Reason(m)
      BY <1>1 DEF BouncedForAReason, Reason
    <2> QED
      BY <2>1, ReasonStays
  <1>2. CASE queue'[m][a] # queue[m][a]
    BY <1>2, OutcomeStep
  <1> QED
    BY <1>1, <1>2

LEMMA CrossStep ==
  ASSUME EnvelopeAssumption, TypeOK, \A s \in Sessions : SessionInv(s), NoCrossDelivery, [Next]_vars
  PROVE  NoCrossDelivery'
  <1> SUFFICES ASSUME NEW row \in reports'
               PROVE  row.testID \in {TestOf[a] : a \in Envelope[row.raw]}
    BY DEF NoCrossDelivery
  <1>1. CASE row \in reports
    BY <1>1 DEF NoCrossDelivery
  <1>2. CASE row \notin reports
    <2>1. PICK s \in Sessions :
            session[s].at = "analyzing" /\ row.testID = Test(s) /\ row.raw = session[s].mail
      BY <1>2, NewRowOfSession
    <2>2. session[s].next \in Positions(s)
      BY <2>1 DEF TypeOK, SessionState, SessionInv, Positions
    <2>3. Recipient(s) \in Envelope[session[s].mail]
      BY <2>1, <2>2 DEF SessionInv, Open, Recipient
    <2> QED
      BY <2>1, <2>3 DEF Test
  <1> QED
    BY <1>1, <1>2

-----------------------------------------------------------------------------
(* The specification                                                       *)

\* The invariant holds at first ...
LEMMA DeliveryInit == EnvelopeAssumption /\ BoundAssumption /\ Init => DeliveryInv
  <1> SUFFICES ASSUME EnvelopeAssumption, BoundAssumption, Init PROVE DeliveryInv
    OBVIOUS
  <1>1. \A s \in Sessions : SessionInv(s) /\ session[s].at = "idle" /\ ~waiting[s]
    BY IdleState DEF Init, SessionInv, Open
  <1>2. Covered /\ OneTransaction /\ NobodyLate /\ FreshTest /\ ErrorHasReason
    BY <1>1 DEF Covered, OneTransaction, NobodyLate, Open, FreshTest, ErrorHasReason
  <1>3. SentMeansReported /\ NoCrossDelivery /\ BouncedForAReason
    BY DEF Init, SentMeansReported, NoCrossDelivery, BouncedForAReason
  <1> QED
    BY <1>1, <1>2, <1>3, TypeInit DEF DeliveryInv

\* ... and every step keeps it.
LEMMA DeliveryStep ==
  EnvelopeAssumption /\ BoundAssumption /\ DeliveryInv /\ [Next]_vars => DeliveryInv'
  <1> SUFFICES ASSUME EnvelopeAssumption, BoundAssumption, DeliveryInv, [Next]_vars PROVE DeliveryInv'
    OBVIOUS
  <1> USE DEF DeliveryInv
  <1>1. TypeOK' /\ \A s \in Sessions : SessionInv(s)'
    BY TypeStep, SessionStep
  <1>2. Covered' /\ OneTransaction' /\ NobodyLate'
    BY CoveredStep, TransactionStep
  <1>3. FreshTest' /\ ErrorHasReason'
    BY FreshTestStep, ErrorStep
  <1>4. SentMeansReported' /\ NoCrossDelivery' /\ BouncedForAReason'
    BY SentStep, CrossStep, BouncedStep
  <1> QED
    BY <1>1, <1>2, <1>3, <1>4

\* The inductive invariant holds in every state of every behaviour.
THEOREM Delivery == Spec => []DeliveryInv
  <1>1. Init => DeliveryInv
    BY DeliveryInit, EnvelopeAssumption, BoundAssumption
  <1>2. DeliveryInv /\ [Next]_vars => DeliveryInv'
    BY DeliveryStep, EnvelopeAssumption, BoundAssumption
  <1> QED
    BY <1>1, <1>2, PTL DEF Spec

\* A recipient the sender takes off its queue as delivered has a test, and
\* that test has a report.
THEOREM SentIsReported == Spec => []SentMeansReported
  <1>1. DeliveryInv => SentMeansReported
    BY DEF DeliveryInv
  <1> QED
    BY <1>1, Delivery, PTL

\* A mail is only ever the report of a test it was addressed to, whatever
\* transactions the session carried before.
THEOREM DeliveredAsAddressed == Spec => []NoCrossDelivery
  <1>1. DeliveryInv => NoCrossDelivery
    BY DEF DeliveryInv
  <1> QED
    BY <1>1, Delivery, PTL

\* No crash and no redelivery makes a recipient bounce: there is a mail, a
\* recipient, a statement or a late answer to blame.
THEOREM BouncesHaveReasons == Spec => []BouncedForAReason
  <1>1. DeliveryInv => BouncedForAReason
    BY DEF DeliveryInv
  <1> QED
    BY <1>1, Delivery, PTL
==============================================================================

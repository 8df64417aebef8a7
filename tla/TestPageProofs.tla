---------------------------- MODULE TestPageProofs ----------------------------
(***************************************************************************)
(* The page of a test and the server under it, for any number of calls in  *)
(* flight, navigations and faults.  The induction carries the types of the *)
(* Maps, of the page and of the calls; that an answer to the page is about *)
(* the test in its address, unless the page is reused; and that such a     *)
(* page has one interval or none.                                          *)
(***************************************************************************)
EXTENDS TestPage, NodeServerProofs

\* The state of a component, its numbers unbounded.
Shape == [test : {"none", "pending", "analyzed"}, report : Report \cup {NoReport},
          loading : BOOLEAN, error : Nat, reanalyzing : BOOLEAN, fetching : BOOLEAN,
          next : Int, n : Nat, timers : Int, held : BOOLEAN, cool : Nat, reused : BOOLEAN]

Answers == {Asked, Lost} \cup [kind : {"refused"}, code : Refusals]
             \cup [kind : {"data"}, data : {"pending", "analyzed"} \cup Ids \cup Report]
CallSet == [op : {"test", "report", "reanalyze", "create"}, id : Ids \cup {Closed},
            answer : Answers, orphan : BOOLEAN]

PageTypes ==
  /\ url \in Ids \cup {Closed}
  /\ pg \in Shape
  /\ calls \in [Slots -> CallSet \cup {NoCall}]

\* What a call k is about, on page p at address u.
AboutPage(k, u, p) ==
  k.op # "create" => /\ k.id \in Ids
                     /\ ~k.orphan => u # Closed /\ (p.reused \/ k.id = u)
\* What it is answered with.
AboutCall(k) ==
  k.answer.kind = "data" =>
    /\ k.op = "test" => k.answer.data \in {"pending", "analyzed"}
    /\ k.op \in {"report", "reanalyze"} => k.answer.data \in Report /\ k.answer.data.test = k.id
    /\ k.op = "create" => k.answer.data \in Ids
CallsOK == \A c \in Slots : calls[c] # NoCall => AboutPage(calls[c], url, pg) /\ AboutCall(calls[c])

\* One interval or none, and one as long as there is nothing to show.
Polled(p) == /\ p.timers = (IF p.held THEN 1 ELSE 0)
             /\ p.held \/ p.report # NoReport \/ p.error # 0
\* The report of a page at address u is about u.
Own(p, u) == p.report # NoReport => p.report.test = u
PageOK == url # Closed /\ ~pg.reused => Polled(pg) /\ Own(pg, url)

Inv == ServerTypeOK /\ FiledInv /\ PageTypes /\ CallsOK /\ PageOK

-----------------------------------------------------------------------------
(* What the page does to itself.                                           *)

\* What fetching and counting leave as it is.
Keeps(p, q) == /\ q \in Shape
               /\ q.report = p.report /\ q.timers = p.timers
               /\ q.held = p.held /\ q.reused = p.reused

LEMMA FreshOK == Fresh \in Shape /\ Fresh.report = NoReport /\ Fresh.timers = 0 /\ ~Fresh.reused
<1>1. FirstWait \in Nat
  BY BoundsAssumption
<1>2. QED
  BY <1>1 DEF Fresh, Shape

LEMMA StartOK ==
  ASSUME NEW p \in Shape
  PROVE /\ StartPolling(p) \in Shape
        /\ StartPolling(p).timers = p.timers + 1 /\ StartPolling(p).held
        /\ StartPolling(p).report = p.report /\ StartPolling(p).reused = p.reused
<1>1. p.timers + 1 \in Int
  BY DEF Shape
<1>2. QED
  BY <1>1 DEF StartPolling, Shape

LEMMA StopOK ==
  ASSUME NEW p \in Shape
  PROVE /\ StopPolling(p) \in Shape
        /\ StopPolling(p).timers = p.timers - (IF p.held THEN 1 ELSE 0) /\ ~StopPolling(p).held
        /\ StopPolling(p).report = p.report /\ StopPolling(p).reused = p.reused
<1>1. p.timers - 1 \in Int /\ p.timers \in Int /\ p.held \in BOOLEAN
  BY DEF Shape
<1>2. CASE p.held
  <2>1. StopPolling(p) = [p EXCEPT !.timers = p.timers - 1, !.held = FALSE]
    BY <1>2 DEF StopPolling
  <2>2. QED
    BY <1>1, <1>2, <2>1 DEF Shape
<1>3. CASE ~p.held
  BY <1>1, <1>3 DEF StopPolling
<1>4. QED
  BY <1>2, <1>3

LEMMA FailOK ==
  ASSUME NEW p \in Shape, NEW s \in Nat
  PROVE /\ Fail(p, s) \in Shape
        /\ Fail(p, s).timers = p.timers - (IF p.held THEN 1 ELSE 0) /\ ~Fail(p, s).held
        /\ Fail(p, s).report = p.report /\ Fail(p, s).reused = p.reused
        /\ Fail(p, s).error = s
<1> DEFINE q == StopPolling(p)
<1>1. /\ q \in Shape /\ q.report = p.report /\ q.reused = p.reused /\ ~q.held
      /\ q.timers = p.timers - (IF p.held THEN 1 ELSE 0)
  BY StopOK
<1> DEFINE r == [q EXCEPT !.error = s, !.loading = FALSE]
           w == [r EXCEPT !.fetching = FALSE, !.cool = 0]
<1>2. Fail(p, s) = w
  BY DEF Fail
<1> HIDE DEF q
<1>3. Keeps(q, r) /\ r.error = s
  BY <1>1 DEF Shape, Keeps
<1> HIDE DEF r
<1>4. Keeps(r, w) /\ w.error = r.error
  BY <1>3 DEF Shape, Keeps
<1> HIDE DEF w
<1>5. QED
  BY <1>1, <1>2, <1>3, <1>4 DEF Keeps

LEMMA BeginOK == ASSUME NEW p \in Shape PROVE Keeps(p, BeginFetch(p)) /\ BeginFetch(p).error = 0
<1> DEFINE wait == IF p.n > 0 THEN AtLeast(p.next, 3 + p.n \div 2) ELSE p.next
           count == IF p.n < MaxFetches THEN p.n + 1 ELSE p.n
<1>1. p.next \in Int /\ p.n \in Nat
  BY DEF Shape
<1>2. wait \in Int /\ count \in Nat
  BY <1>1 DEF AtLeast
<1> DEFINE q == [p EXCEPT !.next = wait, !.n = count]
           w == [q EXCEPT !.error = 0, !.fetching = TRUE]
<1>3. BeginFetch(p) = w
  BY DEF BeginFetch
<1> HIDE DEF wait, count
<1>4. Keeps(p, q)
  BY <1>2 DEF Shape, Keeps
<1> HIDE DEF q
<1>5. Keeps(q, w) /\ w.error = 0
  BY <1>4 DEF Shape, Keeps
<1> HIDE DEF w
<1>6. QED
  BY <1>3, <1>4, <1>5 DEF Keeps

LEMMA CoolOK == ASSUME NEW p \in Shape PROVE Keeps(p, CoolDown(p)) /\ CoolDown(p).error = p.error
<1>1. (IF p.cool > 0 THEN p.cool - 1 ELSE 0) \in Nat
  BY DEF Shape
<1>2. CoolDown(p) = [p EXCEPT !.cool = IF p.cool > 0 THEN p.cool - 1 ELSE 0]
  BY DEF CoolDown
<1>3. QED
  BY <1>1, <1>2 DEF Shape, Keeps

LEMMA CountOK == ASSUME NEW p \in Shape PROVE Keeps(p, CountDown(p))
<1>1. p.next \in Int /\ p.timers \in Int
  BY DEF Shape
<1>2. CASE ~Due
  <2>1. CountDown(p) = [p EXCEPT !.next = p.next - p.timers] /\ p.next - p.timers \in Int
    BY <1>1, <1>2 DEF CountDown
  <2>2. QED
    BY <2>1 DEF Shape, Keeps
<1>3. CASE Due /\ hidden
  <2>1. CountDown(p) = [p EXCEPT !.next = 1]
    BY <1>3 DEF CountDown
  <2>2. QED
    BY <2>1 DEF Shape, Keeps
<1>4. CASE Due /\ ~hidden
  <2> DEFINE zero == [p EXCEPT !.next = 0]
             q == BeginFetch(zero)
             left == q.next - (p.timers - p.next)
  <2>1. Keeps(p, zero)
    BY DEF Shape, Keeps
  <2>2. Keeps(zero, q)
    BY <2>1, BeginOK DEF Keeps
  <2>3. left \in Int
    BY <1>1, <2>2 DEF Keeps, Shape
  <2>4. CountDown(p) = [q EXCEPT !.next = left]
    BY <1>4 DEF CountDown
  <2> HIDE DEF zero, q, left
  <2>5. Keeps(q, CountDown(p))
    BY <2>2, <2>3, <2>4 DEF Keeps, Shape
  <2>6. QED
    BY <2>1, <2>2, <2>5 DEF Keeps
<1>5. QED
  BY <1>2, <1>3, <1>4

-----------------------------------------------------------------------------
(* Calls.                                                                  *)

LEMMA CallIsThere == \A k \in CallSet : k # NoCall
<1>1. SUFFICES ASSUME NEW k \in CallSet PROVE k # NoCall
  OBVIOUS
<1>2. k.op # "none"
  BY DEF CallSet
<1>3. QED
  BY <1>2 DEF NoCall

LEMMA NewCall ==
  ASSUME NEW op \in {"test", "report", "reanalyze", "create"}, NEW id \in Ids \cup {Closed}
  PROVE /\ Call(op, id) \in CallSet
        /\ Call(op, id).op = op /\ Call(op, id).id = id
        /\ AboutCall(Call(op, id))
<1>1. Asked \in Answers /\ Asked.kind # "data"
  BY DEF Answers, Asked
<1>2. Call(op, id) \in CallSet
  BY <1>1 DEF Call, CallSet
<1>3. QED
  BY <1>1, <1>2 DEF Call, AboutCall

LEMMA OrphanOK ==
  ASSUME NEW k \in CallSet
  PROVE /\ Orphaned(k) \in CallSet
        /\ Orphaned(k).op = k.op /\ Orphaned(k).id = k.id /\ Orphaned(k).answer = k.answer
        /\ Orphaned(k).orphan
<1>1. k # NoCall
  BY CallIsThere
<1>2. Orphaned(k) = [k EXCEPT !.orphan = TRUE]
  BY <1>1 DEF Orphaned
<1>3. QED
  BY <1>2 DEF CallSet

LEMMA AnswerOK ==
  ASSUME NEW k \in CallSet, NEW a \in Answers
  PROVE /\ [k EXCEPT !.answer = a] \in CallSet
        /\ [k EXCEPT !.answer = a].op = k.op /\ [k EXCEPT !.answer = a].id = k.id
        /\ [k EXCEPT !.answer = a].answer = a /\ [k EXCEPT !.answer = a].orphan = k.orphan
BY DEF CallSet

\* The calls stay right while the page stays the one it is.
LEMMA CallsKept ==
  ASSUME PageTypes, CallsOK, url' = url, pg'.reused = pg.reused,
         calls' \in [Slots -> CallSet \cup {NoCall}],
         \A d \in Slots : calls'[d] # NoCall /\ calls'[d] # calls[d] =>
           AboutPage(calls'[d], url, pg) /\ AboutCall(calls'[d])
  PROVE CallsOK'
<1>1. ASSUME NEW d \in Slots, calls'[d] # NoCall
      PROVE AboutPage(calls'[d], url, pg) /\ AboutCall(calls'[d])
  BY <1>1 DEF CallsOK
<1>2. ASSUME NEW d \in Slots, calls'[d] # NoCall
      PROVE AboutPage(calls'[d], url', pg') /\ AboutCall(calls'[d])
  BY <1>1, <1>2 DEF AboutPage
<1>3. QED
  BY <1>2 DEF CallsOK

\* A call the open page sends.
LEMMA SentOK ==
  ASSUME Inv, url # Closed, NEW op \in {"test", "report", "reanalyze"},
         url' = url, pg'.reused = pg.reused, Send(op, url)
  PROVE calls' \in [Slots -> CallSet \cup {NoCall}] /\ CallsOK'
<1>1. url \in Ids
  BY DEF Inv, PageTypes
<1>2. Call(op, url) \in CallSet /\ Call(op, url).id = url /\ AboutCall(Call(op, url))
  BY <1>1, NewCall
<1>3. AboutPage(Call(op, url), url, pg)
  BY <1>1, <1>2 DEF AboutPage
<1>4. PICK c \in Free : calls' = [calls EXCEPT ![c] = Call(op, url)]
  BY DEF Send
<1>5. calls' \in [Slots -> CallSet \cup {NoCall}]
  BY <1>2, <1>4 DEF Inv, PageTypes
<1>6. \A d \in Slots : calls'[d] # NoCall /\ calls'[d] # calls[d] => calls'[d] = Call(op, url)
  BY <1>4 DEF Inv, PageTypes
<1>7. QED
  BY <1>2, <1>3, <1>5, <1>6, CallsKept DEF Inv

\* A call whose answer the page has taken.
LEMMA DoneOK ==
  ASSUME Inv, NEW c \in Slots, url' = url, pg'.reused = pg.reused, Done(c)
  PROVE calls' \in [Slots -> CallSet \cup {NoCall}] /\ CallsOK'
<1>1. calls' \in [Slots -> CallSet \cup {NoCall}]
  BY DEF Done, Inv, PageTypes
<1>2. \A d \in Slots : calls'[d] = NoCall \/ calls'[d] = calls[d]
  BY DEF Done, Inv, PageTypes
<1>3. QED
  BY <1>1, <1>2, CallsKept DEF Inv

\* A call the server, or a fault, answers.
LEMMA AnsweredOK ==
  ASSUME Inv, NEW c \in Slots, calls[c] # NoCall, NEW a \in Answers, Answered(c, a),
         AboutCall([calls[c] EXCEPT !.answer = a]), url' = url, pg' = pg
  PROVE calls' \in [Slots -> CallSet \cup {NoCall}] /\ CallsOK'
<1> DEFINE k == calls[c]
           k2 == [k EXCEPT !.answer = a]
<1>1. k \in CallSet
  BY DEF Inv, PageTypes
<1>2. k2 \in CallSet /\ k2.op = k.op /\ k2.id = k.id /\ k2.orphan = k.orphan
  BY <1>1, AnswerOK
<1>3. AboutPage(k, url, pg)
  BY DEF Inv, CallsOK
<1>4. AboutPage(k2, url, pg) /\ AboutCall(k2)
  BY <1>2, <1>3 DEF AboutPage
<1>5. calls' = [calls EXCEPT ![c] = IF k.orphan THEN NoCall ELSE k2]
  BY DEF Answered
<1> HIDE DEF k2
<1>6. calls' \in [Slots -> CallSet \cup {NoCall}]
  BY <1>2, <1>5 DEF Inv, PageTypes
<1>7. \A d \in Slots : calls'[d] # NoCall /\ calls'[d] # calls[d] => calls'[d] = k2
  BY <1>5 DEF Inv, PageTypes
<1>8. QED
  BY <1>4, <1>6, <1>7, CallsKept DEF Inv

-----------------------------------------------------------------------------
(* The server under the page.                                              *)

LEMMA ReportServed ==
  ASSUME ServerTypeOK, FiledInv, ServerTypeOK', FiledInv', NEW id \in Ids,
         GetReport(id) \/ Reanalyze(id)
  PROVE reports'[id] \in Report /\ reports'[id].test = id
<1>1. reports'[id] # NoReport
  <2>1. CASE GetReport(id) /\ reports[id] = NoReport
    BY <2>1, FileOK, ExampleComplete DEF GetReport
  <2>2. CASE GetReport(id) /\ reports[id] # NoReport
    BY <2>2 DEF GetReport
  <2>3. CASE Reanalyze(id)
    BY <2>3, FileOK, ExampleComplete DEF Reanalyze
  <2>4. QED
    BY <2>1, <2>2, <2>3
<1>2. QED
  BY <1>1 DEF ServerTypeOK, FiledInv, Keyed

LEMMA TestServed ==
  ASSUME ServerTypeOK, NEW id \in Ids, GetTest(id)
  PROVE tests'[id].status \in {"pending", "analyzed"}
<1>1. PICK t \in Entries(id) : SetTest(id, IF Ready(t) THEN AnalyzedTest(t) ELSE t)
  BY DEF GetTest
<1> DEFINE u == IF Ready(t) THEN AnalyzedTest(t) ELSE t
<1>2. u \in Test
  BY AskedOK, AnalyzedOK
<1>3. SetTest(id, u)
  BY <1>1
<1>4. tests'[id] = u
  BY <1>2, <1>3, SetTestOK
<1>5. QED
  BY <1>2, <1>4 DEF Test

LEMMA DataOK ==
  ASSUME NEW d \in {"pending", "analyzed"} \cup Ids \cup Report
  PROVE [kind |-> "data", data |-> d] \in Answers
BY DEF Answers

-----------------------------------------------------------------------------
(* Every step of the page is one of the server, or leaves it alone.        *)

LEMMA ServerStep == Inv /\ [Next]_vars => [ServerNext]_serverVars
<1>1. SUFFICES ASSUME Inv, [Next]_vars PROVE [ServerNext]_serverVars
  OBVIOUS
<1>2. ASSUME NEW c \in Slots, Serve(c) PROVE ServerNext
  <2>1. calls[c].op # "create" => calls[c].id \in Ids
    BY <1>1, <1>2 DEF Inv, CallsOK, AboutPage, Serve
  <2>2. QED
    BY <1>2, <2>1 DEF Serve, ServerNext, ServerOp
<1>3. ASSUME NEW c \in Slots, Disturb(c) \/ Answer(c) PROVE UNCHANGED serverVars
  BY <1>3 DEF Disturb, Answer, TestAnswered, ReportAnswered, ReanalyzeAnswered,
              CreateAnswered, Kept, serverVars
<1>4. CASE User
  <2>1. CASE ViewRaw
    BY <1>1, <2>1 DEF ViewRaw, ServerNext, ServerOp, Inv, PageTypes
  <2>2. CASE Elsewhere
    BY <2>2 DEF Elsewhere, ServerNext
  <2>3. CASE ~ViewRaw /\ ~Elsewhere
    BY <1>4, <2>3 DEF User, Open, TestAnother, Leave, CheckNow, AskReanalysis, Hide, serverVars
  <2>4. QED
    BY <2>1, <2>2, <2>3
<1>5. CASE Second
  BY <1>5 DEF Second, ServerNext
<1>6. CASE UNCHANGED vars
  BY <1>6 DEF vars
<1>7. QED
  BY <1>1, <1>2, <1>3, <1>4, <1>5, <1>6 DEF Next


-----------------------------------------------------------------------------
(* The induction.                                                          *)

\* Whoever keeps the Maps, the page and the calls right keeps the invariant.
LEMMA ByParts ==
  ASSUME Inv, [Next]_vars, PageTypes', CallsOK', PageOK'
  PROVE Inv'
<1>1. [ServerNext]_serverVars
  BY ServerStep
<1>2. ServerTypeOK' /\ FiledInv'
  BY <1>1, MapsStep, FiledStep DEF Inv
<1>3. QED
  BY <1>2 DEF Inv

\* The page and the address are what they were, the calls are in order.
LEMMA PageUntouched ==
  ASSUME Inv, [Next]_vars, url' = url, pg' = pg,
         calls' \in [Slots -> CallSet \cup {NoCall}], CallsOK'
  PROVE Inv'
<1>1. PageTypes'
  BY DEF Inv, PageTypes
<1>2. PageOK'
  BY DEF Inv, PageOK, Polled, Own
<1>3. QED
  BY <1>1, <1>2, ByParts

LEMMA InvInit == Init => Inv
<1>1. SUFFICES ASSUME Init PROVE Inv
  OBVIOUS
<1>2. ServerTypeOK /\ FiledInv
  BY <1>1, InitOK, FiledInit DEF Init
<1>3. PageTypes
  BY <1>1, FreshOK DEF Init, PageTypes
<1>4. CallsOK /\ PageOK
  BY <1>1 DEF Init, CallsOK, PageOK
<1>5. QED
  BY <1>2, <1>3, <1>4 DEF Inv

LEMMA ServeInv == ASSUME Inv, [Next]_vars, NEW c \in Slots, Serve(c) PROVE Inv'
<1> DEFINE k == calls[c]
           id == k.id
<1>1. k # NoCall /\ k \in CallSet /\ AboutPage(k, url, pg) /\ AboutCall(k)
  BY DEF Inv, PageTypes, CallsOK, Serve
<1>2. ServerTypeOK' /\ FiledInv'
  BY ServerStep, MapsStep, FiledStep DEF Inv
<1>3. ASSUME NEW d \in {"pending", "analyzed"} \cup Ids \cup Report,
             Answered(c, [kind |-> "data", data |-> d]),
             k.op = "test" => d \in {"pending", "analyzed"},
             k.op \in {"report", "reanalyze"} => d \in Report /\ d.test = id,
             k.op = "create" => d \in Ids
      PROVE Inv'
  <2> DEFINE a == [kind |-> "data", data |-> d]
             k2 == [k EXCEPT !.answer = a]
  <2>1. a \in Answers /\ a.data = d
    BY DataOK
  <2>2. k2.op = k.op /\ k2.id = id /\ k2.answer = a
    BY <1>1, <2>1, AnswerOK
  <2>3. Answered(c, a)
    BY <1>3
  <2> HIDE DEF a
  <2>4. AboutCall(k2)
    BY <1>3, <2>1, <2>2 DEF AboutCall
  <2>5. url' = url /\ pg' = pg
    BY DEF Serve
  <2>6. calls' \in [Slots -> CallSet \cup {NoCall}] /\ CallsOK'
    BY <1>1, <2>1, <2>3, <2>4, <2>5, AnsweredOK
  <2>7. QED
    BY <2>5, <2>6, PageUntouched
<1>4. CASE k.op = "test"
  <2>1. id \in Ids /\ GetTest(id)
        /\ Answered(c, [kind |-> "data", data |-> tests'[id].status])
    BY <1>1, <1>4 DEF Serve, AboutPage
  <2>2. tests'[id].status \in {"pending", "analyzed"}
    BY <2>1, TestServed DEF Inv
  <2>3. QED
    BY <1>3, <1>4, <2>1, <2>2
<1>5. CASE k.op \in {"report", "reanalyze"}
  <2>1. id \in Ids /\ (GetReport(id) \/ Reanalyze(id))
        /\ Answered(c, [kind |-> "data", data |-> reports'[id]])
    BY <1>1, <1>5 DEF Serve, AboutPage
  <2>2. reports'[id] \in Report /\ reports'[id].test = id
    BY <1>2, <2>1, ReportServed DEF Inv
  <2>3. QED
    BY <1>3, <1>5, <2>1, <2>2
<1>6. CASE k.op = "create"
  <2>1. PICK new \in Ids : Answered(c, [kind |-> "data", data |-> new])
    BY <1>6 DEF Serve
  <2>2. QED
    BY <1>3, <1>6, <2>1
<1>7. QED
  BY <1>1, <1>4, <1>5, <1>6 DEF CallSet

LEMMA DisturbInv == ASSUME Inv, [Next]_vars, NEW c \in Slots, Disturb(c) PROVE Inv'
<1> DEFINE k == calls[c]
<1>1. k # NoCall /\ k \in CallSet
  BY DEF Inv, PageTypes, Disturb
<1>2. url' = url /\ pg' = pg
  BY DEF Disturb
<1>3. ASSUME NEW a \in Answers, a.kind # "data", Answered(c, a) PROVE Inv'
  <2>1. [k EXCEPT !.answer = a].answer = a
    BY <1>1, AnswerOK
  <2>2. AboutCall([k EXCEPT !.answer = a])
    BY <1>3, <2>1 DEF AboutCall
  <2>3. calls' \in [Slots -> CallSet \cup {NoCall}] /\ CallsOK'
    BY <1>1, <1>2, <1>3, <2>2, AnsweredOK
  <2>4. QED
    BY <1>2, <2>3, PageUntouched
<1>4. CASE Answered(c, Lost)
  BY <1>3, <1>4 DEF Answers, Lost
<1>5. ASSUME NEW code \in Refusals, Answered(c, [kind |-> "refused", code |-> code]) PROVE Inv'
  <2>1. [kind |-> "refused", code |-> code] \in Answers
    BY DEF Answers
  <2>2. QED
    BY <1>3, <1>5, <2>1
<1>6. QED
  BY <1>4, <1>5 DEF Disturb

\* An answer to an open page: the call is one of its own.
LEMMA GotOK ==
  ASSUME Inv, NEW c \in Slots, NEW op \in {"test", "report", "reanalyze"}, Got(c, op)
  PROVE /\ calls[c] \in CallSet /\ calls[c].op = op
        /\ url # Closed /\ url \in Ids /\ (pg.reused \/ calls[c].id = url)
        /\ AboutCall(calls[c])
BY DEF Inv, CallsOK, AboutPage, PageTypes, Got

LEMMA StatusOK == \A c \in Slots : Status(c) \in Nat /\ Status(c) # 0
BY DEF Status, ErrorStatus

\* An answer that fails: polling stops and the error is there.
LEMMA FailInv ==
  ASSUME Inv, NEW s \in Nat, s # 0, pg' = Fail(pg, s), url' = url
  PROVE pg' \in Shape /\ pg'.reused = pg.reused /\ PageOK'
<1>1. pg \in Shape
  BY DEF Inv, PageTypes
<1>2. /\ pg' \in Shape
      /\ pg'.timers = pg.timers - (IF pg.held THEN 1 ELSE 0) /\ ~pg'.held
      /\ pg'.report = pg.report /\ pg'.reused = pg.reused
      /\ pg'.error # 0
  BY <1>1, FailOK
<1>3. ASSUME url # Closed, ~pg.reused PROVE Polled(pg') /\ Own(pg', url)
  <2>1. Polled(pg) /\ Own(pg, url)
    BY <1>3 DEF Inv, PageOK
  <2>2. pg'.timers = 0
    BY <1>2, <2>1 DEF Polled
  <2>3. QED
    BY <1>2, <2>1, <2>2 DEF Polled, Own
<1>4. QED
  BY <1>2, <1>3 DEF PageOK

LEMMA TestAnsweredInv == ASSUME Inv, [Next]_vars, NEW c \in Slots, TestAnswered(c) PROVE Inv'
<1>1. Got(c, "test") /\ url' = url
  BY DEF TestAnswered, Kept
<1>2. url \in Ids /\ pg \in Shape /\ AboutCall(calls[c]) /\ calls[c].op = "test"
  BY <1>1, GotOK DEF Inv, PageTypes
\* The page changes its test, and what else is not Keeps.
<1>3. ASSUME Keeps(pg, pg'), pg'.error = pg.error PROVE pg' \in Shape /\ pg'.reused = pg.reused /\ PageOK'
  BY <1>1, <1>3 DEF Keeps, Inv, PageOK, Polled, Own
<1>4. CASE Kind(c) = "data" /\ Data(c) = "analyzed"
  <2>1. pg' = [pg EXCEPT !.test = "analyzed"] /\ calls' = [calls EXCEPT ![c] = Call("report", url)]
    BY <1>4 DEF TestAnswered
  <2>2. Keeps(pg, pg') /\ pg'.error = pg.error
    BY <1>2, <2>1 DEF Keeps, Shape
  <2>3. Call("report", url) \in CallSet /\ AboutCall(Call("report", url))
        /\ Call("report", url).id = url
    BY <1>2, NewCall
  <2>4. AboutPage(Call("report", url), url, pg)
    BY <1>1, <1>2, <2>3, GotOK DEF AboutPage
  <2>5. calls' \in [Slots -> CallSet \cup {NoCall}]
    BY <2>1, <2>3 DEF Inv, PageTypes
  <2>6. \A d \in Slots : calls'[d] # NoCall /\ calls'[d] # calls[d] => calls'[d] = Call("report", url)
    BY <2>1 DEF Inv, PageTypes
  <2>7. CallsOK'
    BY <1>1, <1>3, <2>2, <2>3, <2>4, <2>5, <2>6, CallsKept DEF Inv
  <2>8. PageTypes'
    BY <1>1, <1>2, <1>3, <2>2, <2>5 DEF PageTypes
  <2>9. QED
    BY <1>3, <2>2, <2>7, <2>8, ByParts
<1>5. CASE Kind(c) = "data" /\ Data(c) # "analyzed"
  <2>1. Data(c) = "pending"
    BY <1>2, <1>5 DEF AboutCall, Kind, Data
  <2>2. pg' = [pg EXCEPT !.test = "pending", !.loading = FALSE, !.fetching = FALSE] /\ Done(c)
    BY <1>5, <2>1 DEF TestAnswered
  <2>3. Keeps(pg, pg') /\ pg'.error = pg.error
    BY <1>2, <2>2 DEF Keeps, Shape
  <2>4. calls' \in [Slots -> CallSet \cup {NoCall}] /\ CallsOK'
    BY <1>1, <1>3, <2>2, <2>3, DoneOK
  <2>5. PageTypes'
    BY <1>1, <1>2, <1>3, <2>3, <2>4 DEF PageTypes
  <2>6. QED
    BY <1>3, <2>3, <2>4, <2>5, ByParts
<1>6. CASE Kind(c) # "data"
  <2>1. pg' = Fail(pg, Status(c)) /\ Done(c)
    BY <1>6 DEF TestAnswered
  <2>2. pg' \in Shape /\ pg'.reused = pg.reused /\ PageOK'
    BY <1>1, <2>1, FailInv, StatusOK
  <2>3. calls' \in [Slots -> CallSet \cup {NoCall}] /\ CallsOK'
    BY <1>1, <2>1, <2>2, DoneOK
  <2>4. PageTypes'
    BY <1>1, <1>2, <2>2, <2>3 DEF PageTypes
  <2>5. QED
    BY <2>2, <2>3, <2>4, ByParts
<1>7. QED
  BY <1>4, <1>5, <1>6


LEMMA ReportAnsweredInv == ASSUME Inv, [Next]_vars, NEW c \in Slots, ReportAnswered(c) PROVE Inv'
<1>1. Got(c, "report") /\ Done(c) /\ url' = url
  BY DEF ReportAnswered, Kept
<1>2. /\ url \in Ids /\ pg \in Shape /\ (pg.reused \/ calls[c].id = url)
      /\ AboutCall(calls[c]) /\ calls[c].op = "report"
  BY <1>1, GotOK DEF Inv, PageTypes
<1>3. ASSUME pg' \in Shape, pg'.reused = pg.reused, PageOK' PROVE Inv'
  <2>1. calls' \in [Slots -> CallSet \cup {NoCall}] /\ CallsOK'
    BY <1>1, <1>3, DoneOK
  <2>2. PageTypes'
    BY <1>1, <1>2, <1>3, <2>1 DEF PageTypes
  <2>3. QED
    BY <1>3, <2>1, <2>2, ByParts
\* The report of the call's test, and one interval less.
<1>4. CASE Kind(c) = "data"
  <2> DEFINE q == StopPolling(pg)
  <2>1. /\ q \in Shape /\ q.reused = pg.reused /\ ~q.held
        /\ q.timers = pg.timers - (IF pg.held THEN 1 ELSE 0)
    BY <1>2, StopOK
  <2>2. Data(c) \in Report /\ Data(c).test = calls[c].id /\ Data(c) # NoReport
    <3>1. Data(c) \in Report /\ Data(c).test = calls[c].id
      BY <1>2, <1>4 DEF AboutCall, Kind, Data
    <3>2. Data(c).test # NoReport.test
      BY <3>1, ServerAssumption DEF Report, NoReport
    <3>3. QED
      BY <3>1, <3>2
  <2>3. pg' = [q EXCEPT !.report = Data(c), !.loading = FALSE, !.fetching = FALSE]
    BY <1>4 DEF ReportAnswered
  <2> HIDE DEF q
  <2>4. /\ pg' \in Shape /\ pg'.reused = q.reused /\ pg'.held = q.held
        /\ pg'.timers = q.timers /\ pg'.report = Data(c)
    BY <2>1, <2>2, <2>3 DEF Shape
  <2>5. ASSUME url # Closed, ~pg.reused PROVE Polled(pg') /\ Own(pg', url)
    <3>1. Polled(pg)
      BY <2>5 DEF Inv, PageOK
    <3>2. pg'.timers = 0 /\ ~pg'.held
      BY <2>1, <2>4, <3>1 DEF Polled
    <3>3. pg'.report # NoReport /\ pg'.report.test = url
      BY <1>2, <2>2, <2>4, <2>5
    <3>4. QED
      BY <3>2, <3>3 DEF Polled, Own
  <2>6. PageOK'
    BY <1>1, <2>1, <2>4, <2>5 DEF PageOK
  <2>7. QED
    BY <1>3, <2>1, <2>4, <2>6
<1>5. CASE Kind(c) = "refused"
  <2>1. pg' = [pg EXCEPT !.loading = FALSE, !.fetching = FALSE]
    BY <1>5 DEF ReportAnswered
  <2>2. Keeps(pg, pg') /\ pg'.error = pg.error
    BY <1>2, <2>1 DEF Keeps, Shape
  <2>3. PageOK'
    BY <1>1, <2>2 DEF Keeps, Inv, PageOK, Polled, Own
  <2>4. QED
    BY <1>3, <2>2, <2>3 DEF Keeps
<1>6. CASE Kind(c) \notin {"data", "refused"}
  <2>1. pg' = Fail(pg, 500)
    BY <1>6 DEF ReportAnswered
  <2>2. QED
    BY <1>1, <1>3, <2>1, FailInv
<1>7. QED
  BY <1>4, <1>5, <1>6

LEMMA ReanalyzeAnsweredInv ==
  ASSUME Inv, [Next]_vars, NEW c \in Slots, ReanalyzeAnswered(c) PROVE Inv'
<1>1. Got(c, "reanalyze") /\ Done(c) /\ url' = url
  BY DEF ReanalyzeAnswered, Kept
<1>2. /\ url \in Ids /\ pg \in Shape /\ (pg.reused \/ calls[c].id = url)
      /\ AboutCall(calls[c]) /\ calls[c].op = "reanalyze"
  BY <1>1, GotOK DEF Inv, PageTypes
<1>3. /\ pg' \in Shape /\ pg'.reused = pg.reused /\ PageOK'
  <2>1. CASE Kind(c) = "data"
    <3>1. Data(c) \in Report /\ Data(c).test = calls[c].id
      BY <1>2, <2>1 DEF AboutCall, Kind, Data
    <3>2. Data(c).test # NoReport.test
      BY <3>1, ServerAssumption DEF Report, NoReport
    <3>3. pg' = [pg EXCEPT !.report = Data(c), !.reanalyzing = FALSE]
      BY <2>1 DEF ReanalyzeAnswered
    <3>4. /\ pg' \in Shape /\ pg'.reused = pg.reused /\ pg'.held = pg.held
          /\ pg'.timers = pg.timers /\ pg'.report = Data(c)
      BY <1>2, <3>1, <3>3 DEF Shape
    <3>5. QED
      BY <1>1, <1>2, <3>1, <3>2, <3>4 DEF Inv, PageOK, Polled, Own
  <2>2. CASE Kind(c) # "data"
    <3>1. pg' = [pg EXCEPT !.error = Status(c), !.cool = 0, !.reanalyzing = FALSE]
      BY <2>2 DEF ReanalyzeAnswered
    <3>2. Status(c) \in Nat /\ Status(c) # 0
      BY StatusOK
    <3>3. Keeps(pg, pg') /\ pg'.error # 0
      BY <1>2, <3>1, <3>2 DEF Keeps, Shape
    <3>4. QED
      BY <1>1, <3>3 DEF Keeps, Inv, PageOK, Polled, Own
  <2>3. QED
    BY <2>1, <2>2
<1>4. calls' \in [Slots -> CallSet \cup {NoCall}] /\ CallsOK'
  BY <1>1, <1>3, DoneOK
<1>5. PageTypes'
  BY <1>1, <1>2, <1>3, <1>4 DEF PageTypes
<1>6. QED
  BY <1>3, <1>4, <1>5, ByParts

\* A page that is opened: every call still to be answered is gone, of an
\* orphan, or of the page that is reused.
LEMMA OpenedInv ==
  ASSUME Inv, [Next]_vars, NEW id \in Ids, NEW others \in [Slots -> CallSet \cup {NoCall}],
         Opened(id, others),
         \A d \in Slots : others[d] # NoCall =>
           /\ AboutCall(others[d])
           /\ others[d].op # "create" => AboutPage(others[d], url, pg)
  PROVE Inv'
<1> DEFINE q == BeginFetch(IF url = Closed THEN Fresh
                           ELSE [pg EXCEPT !.test = "none", !.cool = 0, !.reused = TRUE])
<1>1. pg \in Shape /\ id # Closed
  BY BoundsAssumption DEF Inv, PageTypes
<1>2. /\ q \in Shape
      /\ url = Closed => q.timers = 0 /\ q.report = NoReport
      /\ url # Closed => q.reused
  <2>1. CASE url = Closed
    BY <2>1, FreshOK, BeginOK DEF Keeps
  <2>2. CASE url # Closed
    <3> DEFINE p == [pg EXCEPT !.test = "none", !.cool = 0, !.reused = TRUE]
    <3>1. p \in Shape /\ p.reused
      BY <1>1 DEF Shape
    <3>2. QED
      BY <2>2, <3>1, BeginOK DEF Keeps
  <2>3. QED
    BY <2>1, <2>2
<1>3. url' = id /\ pg' = StartPolling(q)
  BY DEF Opened
<1> HIDE DEF q
<1>4. /\ pg' \in Shape /\ pg'.timers = q.timers + 1 /\ pg'.held
      /\ pg'.report = q.report /\ pg'.reused = q.reused
  BY <1>2, <1>3, StartOK
<1>5. PageOK'
  <2>1. CASE url = Closed
    BY <1>2, <1>4, <2>1 DEF PageOK, Polled, Own
  <2>2. CASE url # Closed
    BY <1>2, <1>4, <2>2 DEF PageOK
  <2>3. QED
    BY <2>1, <2>2
<1>6. PICK c \in Slots : calls' = [others EXCEPT ![c] = Call("test", id)]
  BY DEF Opened
<1>7. /\ Call("test", id) \in CallSet /\ Call("test", id).id = id
      /\ AboutCall(Call("test", id))
  BY NewCall
<1>8. calls' \in [Slots -> CallSet \cup {NoCall}]
  BY <1>6, <1>7
<1>9. ASSUME NEW d \in Slots, calls'[d] # NoCall
      PROVE AboutPage(calls'[d], url', pg') /\ AboutCall(calls'[d])
  <2>1. CASE d = c
    BY <1>1, <1>3, <1>6, <1>7, <2>1 DEF AboutPage
  <2>2. CASE d # c
    <3>1. calls'[d] = others[d]
      BY <1>6, <2>2
    <3>2. AboutCall(others[d]) /\ (others[d].op # "create" => AboutPage(others[d], url, pg))
      BY <1>9, <3>1
    <3>3. AboutPage(others[d], url', pg')
      BY <1>1, <1>2, <1>3, <1>4, <3>2 DEF AboutPage
    <3>4. QED
      BY <3>1, <3>2, <3>3
  <2>3. QED
    BY <2>1, <2>2
<1>10. CallsOK'
  BY <1>9 DEF CallsOK
<1>11. PageTypes'
  BY <1>3, <1>4, <1>8 DEF PageTypes
<1>12. QED
  BY <1>5, <1>10, <1>11, ByParts

LEMMA OpenInv == ASSUME Inv, [Next]_vars, NEW id \in Ids, Open(id) PROVE Inv'
<1>1. \A d \in Slots : calls[d] # NoCall => calls[d] \in CallSet
  BY DEF Inv, PageTypes
<1>2. WithoutCreate \in [Slots -> CallSet \cup {NoCall}]
  BY <1>1, OrphanOK DEF WithoutCreate
<1>3. ASSUME NEW d \in Slots, WithoutCreate[d] # NoCall
      PROVE /\ AboutCall(WithoutCreate[d])
            /\ WithoutCreate[d].op # "create" => AboutPage(WithoutCreate[d], url, pg)
  <2>1. CASE calls[d] # NoCall /\ calls[d].op = "create"
    <3>1. /\ WithoutCreate[d].op = calls[d].op /\ WithoutCreate[d].answer = calls[d].answer
          /\ WithoutCreate[d].id = calls[d].id
      BY <1>1, <2>1, OrphanOK DEF WithoutCreate
    <3>2. AboutCall(calls[d])
      BY <2>1 DEF Inv, CallsOK
    <3>3. QED
      BY <2>1, <3>1, <3>2 DEF AboutCall
  <2>2. CASE ~(calls[d] # NoCall /\ calls[d].op = "create")
    BY <1>3, <2>2 DEF WithoutCreate, Inv, CallsOK
  <2>3. QED
    BY <2>1, <2>2
<1>4. Opened(id, WithoutCreate)
  BY DEF Open
<1>5. QED
  BY <1>2, <1>3, <1>4, OpenedInv

\* Calls that are all orphans say nothing about a page.
LEMMA AllOrphans ==
  ASSUME Inv, [Next]_vars, url' = Closed, pg' = Fresh,
         calls' \in [Slots -> CallSet \cup {NoCall}],
         \A d \in Slots : calls'[d] = NoCall \/ (calls[d] # NoCall /\ calls'[d] = Orphaned(calls[d]))
  PROVE Inv'
<1>1. PageTypes' /\ PageOK'
  BY FreshOK DEF PageTypes, PageOK
<1>2. ASSUME NEW d \in Slots, calls'[d] # NoCall
      PROVE AboutPage(calls'[d], url', pg') /\ AboutCall(calls'[d])
  <2>1. calls[d] \in CallSet /\ AboutPage(calls[d], url, pg) /\ AboutCall(calls[d])
    BY <1>2 DEF Inv, PageTypes, CallsOK
  <2>2. /\ calls'[d].op = calls[d].op /\ calls'[d].id = calls[d].id
        /\ calls'[d].answer = calls[d].answer /\ calls'[d].orphan
    BY <1>2, <2>1, OrphanOK
  <2>3. QED
    BY <2>1, <2>2 DEF AboutPage, AboutCall
<1>3. CallsOK'
  BY <1>2 DEF CallsOK
<1>4. QED
  BY <1>1, <1>3, ByParts

LEMMA LeaveInv == ASSUME Inv, [Next]_vars, Leave PROVE Inv'
<1>1. \A d \in Slots : calls[d] # NoCall => Orphaned(calls[d]) \in CallSet
  BY OrphanOK DEF Inv, PageTypes
<1>2. /\ calls' = [d \in Slots |-> Orphaned(calls[d])]
      /\ url' = Closed /\ pg' = Fresh
  BY DEF Leave
<1>3. Orphaned(NoCall) = NoCall
  BY DEF Orphaned
<1>4. calls' \in [Slots -> CallSet \cup {NoCall}]
  BY <1>1, <1>2, <1>3
<1>5. QED
  BY <1>2, <1>3, <1>4, AllOrphans

LEMMA CreateAnsweredInv == ASSUME Inv, [Next]_vars, NEW c \in Slots, CreateAnswered(c) PROVE Inv'
<1>1. /\ calls[c] # NoCall /\ calls[c].op = "create" /\ AboutCall(calls[c])
      /\ \A d \in Slots : calls[d] # NoCall =>
           calls[d] \in CallSet /\ AboutPage(calls[d], url, pg) /\ AboutCall(calls[d])
  BY DEF CreateAnswered, Got, Inv, PageTypes, CallsOK
<1>2. CASE Kind(c) = "data"
  <2> DEFINE others == [calls EXCEPT ![c] = NoCall]
  <2>1. Data(c) \in Ids
    BY <1>1, <1>2 DEF AboutCall, Kind, Data
  <2>2. Opened(Data(c), others)
    BY <1>2 DEF CreateAnswered
  <2>3. others \in [Slots -> CallSet \cup {NoCall}]
    BY DEF Inv, PageTypes
  <2>4. \A d \in Slots : others[d] # NoCall => others[d] = calls[d]
    BY DEF Inv, PageTypes
  <2> HIDE DEF others
  <2>5. QED
    BY <1>1, <2>1, <2>2, <2>3, <2>4, OpenedInv
<1>3. CASE Kind(c) # "data"
  <2>1. /\ calls' = [d \in Slots |-> IF d = c THEN NoCall ELSE Orphaned(calls[d])]
        /\ url' = Closed /\ pg' = Fresh
    BY <1>3 DEF CreateAnswered
  <2>2. \A d \in Slots : calls[d] # NoCall => Orphaned(calls[d]) \in CallSet
    BY <1>1, OrphanOK
  <2>3. Orphaned(NoCall) = NoCall
    BY DEF Orphaned
  <2>4. calls' \in [Slots -> CallSet \cup {NoCall}]
    BY <2>1, <2>2, <2>3
  <2>5. QED
    BY <2>1, <2>3, <2>4, AllOrphans
<1>4. QED
  BY <1>2, <1>3

LEMMA TestAnotherInv == ASSUME Inv, [Next]_vars, TestAnother PROVE Inv'
<1> DEFINE k == Call("create", Closed)
<1>1. k \in CallSet /\ k.op = "create" /\ AboutCall(k)
  BY NewCall
<1>2. AboutPage(k, url, pg)
  BY <1>1 DEF AboutPage
<1>3. PICK c \in Free : calls' = [calls EXCEPT ![c] = k]
  BY DEF TestAnother, Send
<1> HIDE DEF k
<1>4. url' = url /\ pg' = pg
  BY DEF TestAnother
<1>5. calls' \in [Slots -> CallSet \cup {NoCall}]
  BY <1>1, <1>3 DEF Inv, PageTypes
<1>6. \A d \in Slots : calls'[d] # NoCall /\ calls'[d] # calls[d] => calls'[d] = k
  BY <1>3 DEF Inv, PageTypes
<1>7. CallsOK'
  BY <1>1, <1>2, <1>4, <1>5, <1>6, CallsKept DEF Inv
<1>8. QED
  BY <1>4, <1>5, <1>7, PageUntouched

LEMMA CheckNowInv == ASSUME Inv, [Next]_vars, CheckNow PROVE Inv'
<1> DEFINE q == BeginFetch(pg)
<1>1. pg \in Shape /\ url # Closed /\ url' = url /\ Send("test", url)
  BY DEF Inv, PageTypes, CheckNow
<1>2. Keeps(pg, q)
  BY <1>1, BeginOK
<1>3. pg' = [q EXCEPT !.cool = Cooldown] /\ pg.error = 0
  BY DEF CheckNow, Display
<1> HIDE DEF q
<1>4. Cooldown \in Nat
  BY BoundsAssumption
<1>5. Keeps(q, pg')
  BY <1>2, <1>3, <1>4 DEF Keeps, Shape
<1>6. Keeps(pg, pg')
  BY <1>2, <1>5 DEF Keeps
<1>7. PageOK'
  BY <1>1, <1>3, <1>6 DEF Keeps, Inv, PageOK, Polled, Own
<1>8. calls' \in [Slots -> CallSet \cup {NoCall}] /\ CallsOK'
  BY <1>1, <1>6, SentOK DEF Keeps
<1>9. PageTypes'
  BY <1>1, <1>6, <1>8 DEF Inv, PageTypes, Keeps
<1>10. QED
  BY <1>7, <1>8, <1>9, ByParts

LEMMA AskReanalysisInv == ASSUME Inv, [Next]_vars, AskReanalysis PROVE Inv'
<1>1. /\ pg \in Shape /\ url # Closed /\ url' = url /\ Send("reanalyze", url)
      /\ pg' = [pg EXCEPT !.reanalyzing = TRUE, !.error = 0] /\ pg.report # NoReport
  BY DEF Inv, PageTypes, AskReanalysis, Display
<1>2. Keeps(pg, pg')
  BY <1>1 DEF Keeps, Shape
<1>3. PageOK'
  BY <1>1, <1>2 DEF Keeps, Inv, PageOK, Polled, Own
<1>4. calls' \in [Slots -> CallSet \cup {NoCall}] /\ CallsOK'
  BY <1>1, <1>2, SentOK DEF Keeps
<1>5. PageTypes'
  BY <1>1, <1>2, <1>4 DEF Inv, PageTypes, Keeps
<1>6. QED
  BY <1>3, <1>4, <1>5, ByParts

\* A second counts the intervals of the page down, and may fetch.
LEMMA SecondInv == ASSUME Inv, [Next]_vars, Second PROVE Inv'
<1>1. pg \in Shape /\ url' = url
  BY DEF Inv, PageTypes, Second
<1>2. CASE url = Closed \/ pg.timers = 0
  <2>1. pg' = CoolDown(pg) /\ calls' = calls
    BY <1>2 DEF Second
  <2>2. Keeps(pg, pg') /\ pg'.error = pg.error
    BY <1>1, <2>1, CoolOK
  <2>3. PageOK'
    BY <1>1, <2>2 DEF Keeps, Inv, PageOK, Polled, Own
  <2>4. PageTypes'
    BY <1>1, <2>1, <2>2 DEF Inv, PageTypes, Keeps
  <2>5. CallsOK'
    BY <1>1, <2>1, <2>2, <2>4, CallsKept DEF Inv, Keeps, PageTypes
  <2>6. QED
    BY <2>3, <2>4, <2>5, ByParts
<1>3. CASE url # Closed /\ pg.timers # 0
  <2>1. /\ pg' = CoolDown(CountDown(pg))
        /\ Send("test", url) \/ calls' = calls
    BY <1>3 DEF Second
  <2>2. Keeps(pg, pg')
    BY <1>1, <2>1, CountOK, CoolOK DEF Keeps
  <2>3. PageOK'
    BY <1>1, <1>3, <2>2 DEF Keeps, Inv, PageOK, Polled, Own
  <2>4. calls' \in [Slots -> CallSet \cup {NoCall}] /\ CallsOK'
    <3>1. CASE Send("test", url)
      BY <1>1, <1>3, <2>2, <3>1, SentOK DEF Keeps
    <3>2. CASE calls' = calls
      <4>1. calls' \in [Slots -> CallSet \cup {NoCall}]
        BY <3>2 DEF Inv, PageTypes
      <4>2. QED
        BY <1>1, <2>2, <3>2, <4>1, CallsKept DEF Inv, Keeps
    <3>3. QED
      BY <2>1, <3>1, <3>2
  <2>5. PageTypes'
    BY <1>1, <2>2, <2>4 DEF Inv, PageTypes, Keeps
  <2>6. QED
    BY <2>3, <2>4, <2>5, ByParts
<1>4. QED
  BY <1>2, <1>3

LEMMA StillInv ==
  ASSUME Inv, [Next]_vars, UNCHANGED <<url, pg, calls>>
  PROVE Inv'
<1>1. calls' \in [Slots -> CallSet \cup {NoCall}]
  BY DEF Inv, PageTypes
<1>2. CallsOK'
  BY <1>1, CallsKept DEF Inv
<1>3. QED
  BY <1>1, <1>2, PageUntouched

LEMMA InvStep == Inv /\ [Next]_vars => Inv'
<1>1. SUFFICES ASSUME Inv, [Next]_vars PROVE Inv'
  OBVIOUS
<1>2. ASSUME NEW c \in Slots, Serve(c) \/ Disturb(c) PROVE Inv'
  BY <1>1, <1>2, ServeInv, DisturbInv
<1>3. ASSUME NEW c \in Slots, Answer(c) PROVE Inv'
  BY <1>1, <1>3, TestAnsweredInv, ReportAnsweredInv, ReanalyzeAnsweredInv, CreateAnsweredInv
     DEF Answer
<1>4. CASE User
  <2>1. ASSUME NEW id \in Ids, Open(id) PROVE Inv'
    BY <1>1, <2>1, OpenInv
  <2>2. CASE TestAnother \/ Leave \/ CheckNow \/ AskReanalysis
    BY <1>1, <2>2, TestAnotherInv, LeaveInv, CheckNowInv, AskReanalysisInv
  <2>3. CASE Hide \/ ViewRaw \/ Elsewhere
    BY <1>1, <2>3, StillInv DEF Hide, ViewRaw, Elsewhere, pageVars
  <2>4. QED
    BY <1>4, <2>1, <2>2, <2>3 DEF User
<1>5. CASE Second
  BY <1>1, <1>5, SecondInv
<1>6. CASE UNCHANGED vars
  BY <1>1, <1>6, StillInv DEF vars, pageVars
<1>7. QED
  BY <1>1, <1>2, <1>3, <1>4, <1>5, <1>6 DEF Next

LEMMA SpecInv == Spec => []Inv
BY InvInit, InvStep, PTL DEF Spec

-----------------------------------------------------------------------------
(* What the page promises.                                                 *)

\* The page over the server is the server with one client more: nothing the
\* page does to the Maps is out of the server's own reach.
THEOREM PageIsAClient == Spec => ServerSpec
<1>1. Init => ServerInit
  BY DEF Init
<1>2. QED
  BY <1>1, ServerStep, SpecInv, PTL DEF Spec, ServerSpec

\* So what is told to be analyzed has its report and its raw email, and the
\* raw email next to a report is the mail it is about, behind the page too.
THEOREM ServerPromises == Spec => []AnalyzedIsFiled /\ []RawIsOfReport
<1>1. Spec => []AnalyzedIsFiled
  BY PageIsAClient, AnalyzedFiled, PTL
<1>2. Keyed /\ RawIsOfReport => RawIsOfReport
  OBVIOUS
<1>3. Spec => []RawIsOfReport
  BY <1>2, PageIsAClient, ReportsFiled, PTL
<1>4. QED
  BY <1>1, <1>3

\* A page opened on its test keeps one interval until it has its report or an
\* error, however many of its requests overlap, fail or come back late.
THEOREM Waiting == Spec => []WaitingIsPolled
<1>1. Inv => WaitingIsPolled
  BY DEF Inv, PageOK, Polled, WaitingIsPolled
<1>2. QED
  BY <1>1, SpecInv, PTL

\* What such a page holds is the report of the test in its address.
THEOREM ShowsItsOwn == Spec => []FreshShowsItsOwn
<1>1. Inv => FreshShowsItsOwn
  BY DEF Inv, PageOK, Own, FreshShowsItsOwn
<1>2. QED
  BY <1>1, SpecInv, PTL

-----------------------------------------------------------------------------
(* The numbers of the page.                                                *)

\* A page polls only after its first fetch, and nextfetch is never zero
\* between two seconds.
Sized(p) ==
  /\ p.error \in {0, 404, 429, 500}
  /\ p.next \in 1 .. FirstWait + 3 + MaxFetches
  /\ p.n \in 0 .. MaxFetches
  /\ p.cool \in 0 .. Cooldown
  /\ p.timers >= (IF p.held THEN 1 ELSE 0)
  /\ p.timers > 0 => p.n > 0

\* Each navigation leaks one interval at most: one that waits for its test has
\* not yet added its own.
Creating(c) == calls[c] # NoCall /\ calls[c].op = "create"
Spent ==
  /\ opens \in 0 .. MaxOpens
  /\ pg.timers <= opens
  /\ \A c \in Slots : Creating(c) /\ ~calls[c].orphan => pg.timers < opens
  /\ \A c, d \in Slots : Creating(c) /\ Creating(d) => c = d

Counted == hidden \in BOOLEAN /\ Sized(pg) /\ Spent

LEMMA Bounds == /\ FirstWait \in Nat \ {0} /\ MaxFetches \in Nat \ {0} /\ Cooldown \in Nat
                /\ MaxOpens \in Nat \ {0}
BY BoundsAssumption

LEMMA FreshSized == Sized(Fresh)
BY Bounds DEF Sized, Fresh

\* The fields of a page that stops polling.
LEMMA StopSized == ASSUME NEW p \in Shape, Sized(p)
                   PROVE Sized(StopPolling(p)) /\ StopPolling(p).timers <= p.timers
<1>1. p.timers \in Int /\ p.held \in BOOLEAN
  BY DEF Shape
<1>2. CASE p.held
  <2>1. StopPolling(p) = [p EXCEPT !.timers = p.timers - 1, !.held = FALSE]
    BY <1>2 DEF StopPolling
  <2>2. /\ StopPolling(p).timers = p.timers - 1 /\ ~StopPolling(p).held
        /\ StopPolling(p).error = p.error /\ StopPolling(p).next = p.next
        /\ StopPolling(p).n = p.n /\ StopPolling(p).cool = p.cool
    BY <2>1 DEF Shape
  <2>3. QED
    BY <1>1, <1>2, <2>2 DEF Sized
<1>3. CASE ~p.held
  BY <1>1, <1>3 DEF StopPolling
<1>4. QED
  BY <1>2, <1>3

LEMMA FailSized ==
  ASSUME NEW p \in Shape, Sized(p), NEW s \in {404, 429, 500}
  PROVE Sized(Fail(p, s)) /\ Fail(p, s).timers <= p.timers
<1> DEFINE q == StopPolling(p)
<1>1. q \in Shape /\ Sized(q) /\ q.timers <= p.timers
  BY StopOK, StopSized
<1>2. Fail(p, s) = [q EXCEPT !.error = s, !.loading = FALSE, !.fetching = FALSE, !.cool = 0]
  BY DEF Fail
<1> HIDE DEF q
<1>3. /\ Fail(p, s).error = s /\ Fail(p, s).next = q.next /\ Fail(p, s).n = q.n
      /\ Fail(p, s).cool = 0 /\ Fail(p, s).timers = q.timers /\ Fail(p, s).held = q.held
  BY <1>1, <1>2 DEF Shape
<1>4. QED
  BY <1>1, <1>3, Bounds DEF Sized

\* The fields of a page that fetches.
LEMMA BeginFields ==
  ASSUME NEW p \in Shape
  PROVE LET q == BeginFetch(p) IN
        /\ q.next = IF p.n > 0 THEN AtLeast(p.next, 3 + p.n \div 2) ELSE p.next
        /\ q.n = IF p.n < MaxFetches THEN p.n + 1 ELSE p.n
        /\ q.error = 0 /\ q.cool = p.cool /\ q.timers = p.timers /\ q.held = p.held
BY DEF BeginFetch, Shape

LEMMA BeginSized ==
  ASSUME NEW p \in Shape, Sized(p)
  PROVE LET q == BeginFetch(p) IN Sized(q) /\ q.n > 0 /\ q.timers = p.timers
<1> DEFINE q == BeginFetch(p)
<1>1. /\ q.next = IF p.n > 0 THEN AtLeast(p.next, 3 + p.n \div 2) ELSE p.next
      /\ q.n = IF p.n < MaxFetches THEN p.n + 1 ELSE p.n
      /\ q.error = 0 /\ q.cool = p.cool /\ q.timers = p.timers /\ q.held = p.held
  BY BeginFields
<1> HIDE DEF q
<1>2. p.n \in 0 .. MaxFetches /\ p.timers \in Int
  BY DEF Sized, Shape
<1>3. p.n \div 2 \in 0 .. MaxFetches
  BY <1>2, Bounds
<1>4. q.next \in 1 .. FirstWait + 3 + MaxFetches
  BY <1>1, <1>2, <1>3, Bounds DEF Sized, AtLeast
<1>5. q.n \in 1 .. MaxFetches
  BY <1>1, <1>2, Bounds
<1>6. QED
  BY <1>1, <1>4, <1>5, Bounds DEF Sized, q

LEMMA StartSized ==
  ASSUME NEW p \in Shape, Sized(p), p.n > 0
  PROVE Sized(StartPolling(p)) /\ StartPolling(p).timers = p.timers + 1
<1> DEFINE q == StartPolling(p)
<1>1. /\ q.timers = p.timers + 1 /\ q.held /\ q.error = p.error /\ q.next = p.next
      /\ q.n = p.n /\ q.cool = p.cool
  BY DEF StartPolling, Shape
<1>2. p.timers \in Int /\ p.timers >= 0
  BY DEF Sized, Shape
<1> HIDE DEF q
<1>3. QED
  BY <1>1, <1>2 DEF Sized, q

LEMMA CoolSized == ASSUME NEW p \in Shape, Sized(p)
                   PROVE Sized(CoolDown(p)) /\ CoolDown(p).timers = p.timers
<1> DEFINE q == CoolDown(p)
<1>1. /\ q.timers = p.timers /\ q.held = p.held /\ q.error = p.error /\ q.next = p.next
      /\ q.n = p.n /\ q.cool = IF p.cool > 0 THEN p.cool - 1 ELSE 0
  BY DEF CoolDown, Shape
<1> HIDE DEF q
<1>2. q.cool \in 0 .. Cooldown
  BY <1>1, Bounds DEF Sized
<1>3. QED
  BY <1>1, <1>2 DEF Sized, q

\* Three intervals cannot use up what a fetch sets nextfetch to.
LEMMA CountSized ==
  ASSUME NEW p \in Shape, Sized(p), p.timers \in 1 .. 3, Due <=> p.next <= p.timers
  PROVE Sized(CountDown(p)) /\ CountDown(p).timers = p.timers
<1>1. p.next \in Int /\ p.timers \in Int /\ p.n \in 1 .. MaxFetches /\ p.next >= 1
      /\ p.next <= FirstWait + 3 + MaxFetches
  BY Bounds DEF Sized, Shape
<1>2. CASE ~Due
  <2>1. CountDown(p) = [p EXCEPT !.next = p.next - p.timers]
    BY <1>2 DEF CountDown
  <2>2. /\ CountDown(p).next = p.next - p.timers /\ CountDown(p).n = p.n
        /\ CountDown(p).error = p.error /\ CountDown(p).cool = p.cool
        /\ CountDown(p).timers = p.timers /\ CountDown(p).held = p.held
    BY <2>1 DEF Shape
  <2>3. p.next - p.timers \in 1 .. FirstWait + 3 + MaxFetches
    BY <1>1, <1>2, Bounds
  <2>4. QED
    BY <2>2, <2>3 DEF Sized
<1>3. CASE Due /\ hidden
  <2>1. CountDown(p) = [p EXCEPT !.next = 1]
    BY <1>3 DEF CountDown
  <2>2. /\ CountDown(p).next = 1 /\ CountDown(p).n = p.n
        /\ CountDown(p).error = p.error /\ CountDown(p).cool = p.cool
        /\ CountDown(p).timers = p.timers /\ CountDown(p).held = p.held
    BY <2>1 DEF Shape
  <2>3. QED
    BY <2>2, Bounds DEF Sized
<1>4. CASE Due /\ ~hidden
  <2> DEFINE zero == [p EXCEPT !.next = 0]
             q == BeginFetch(zero)
             left == q.next - (p.timers - p.next)
  <2>1. /\ zero \in Shape /\ zero.n = p.n /\ zero.next = 0 /\ zero.cool = p.cool
        /\ zero.timers = p.timers /\ zero.held = p.held
    BY DEF Shape
  <2> HIDE DEF zero
  <2>2. /\ q \in Shape
        /\ q.next = AtLeast(0, 3 + p.n \div 2)
        /\ q.n = IF p.n < MaxFetches THEN p.n + 1 ELSE p.n
        /\ q.error = 0 /\ q.cool = p.cool /\ q.timers = p.timers /\ q.held = p.held
    BY <1>1, <2>1, BeginFields, BeginOK DEF Keeps
  <2>3. CountDown(p) = [q EXCEPT !.next = left]
    BY <1>4 DEF CountDown, zero
  <2> HIDE DEF q
  <2>4. p.n \div 2 \in 0 .. MaxFetches
    BY <1>1, Bounds
  <2>5. left \in 1 .. FirstWait + 3 + MaxFetches
    BY <1>1, <1>4, <2>2, <2>4, Bounds DEF AtLeast
  <2> HIDE DEF left
  <2>6. /\ CountDown(p).next = left /\ CountDown(p).n = q.n
        /\ CountDown(p).error = 0 /\ CountDown(p).cool = p.cool
        /\ CountDown(p).timers = p.timers /\ CountDown(p).held = p.held
    BY <2>2, <2>3 DEF Shape
  <2>7. q.n \in 1 .. MaxFetches
    BY <1>1, <2>2, Bounds
  <2>8. QED
    BY <2>5, <2>6, <2>7, Bounds DEF Sized
<1>5. QED
  BY <1>2, <1>3, <1>4

\* No test is newly asked for, and no interval started.
LEMMA SpentKept ==
  ASSUME Spent, opens' \in 0 .. MaxOpens, opens' >= opens, pg.timers \in Int, pg'.timers \in Int,
         pg'.timers <= pg.timers,
         \A d \in Slots : calls'[d] # NoCall /\ calls'[d].op = "create" =>
           /\ calls[d] # NoCall /\ calls[d].op = "create"
           /\ ~calls'[d].orphan => ~calls[d].orphan
  PROVE Spent'
<1>1. opens \in Int /\ opens' \in Int
  BY Bounds DEF Spent
<1>2. pg'.timers <= opens'
  BY <1>1 DEF Spent
<1>3. \A d \in Slots : Creating(d)' => Creating(d) /\ (~calls'[d].orphan => ~calls[d].orphan)
  BY DEF Creating
<1>4. \A d \in Slots : Creating(d)' /\ ~calls'[d].orphan => pg'.timers < opens'
  BY <1>1, <1>3 DEF Spent
<1>5. \A c, d \in Slots : Creating(c)' /\ Creating(d)' => c = d
  BY <1>3 DEF Spent
<1>6. QED
  BY <1>2, <1>4, <1>5 DEF Spent

\* The call answered by the server or a fault is the call it was.
LEMMA AnsweredCounted ==
  ASSUME Inv, Counted, NEW c \in Slots, calls[c] # NoCall, NEW a, Answered(c, a),
         pg' = pg, hidden' = hidden, opens' = opens
  PROVE Counted'
<1> DEFINE k == calls[c]
           k2 == [k EXCEPT !.answer = a]
<1>1. calls' = [calls EXCEPT ![c] = IF k.orphan THEN NoCall ELSE k2] /\ k \in CallSet
  BY DEF Answered, Inv, PageTypes
<1>2. k2.op = k.op /\ k2.orphan = k.orphan
  BY <1>1 DEF CallSet
<1> HIDE DEF k2
<1>3. \A d \in Slots : calls'[d] # NoCall /\ calls'[d].op = "create" =>
        calls[d] # NoCall /\ calls[d].op = "create" /\ (~calls'[d].orphan => ~calls[d].orphan)
  BY <1>1, <1>2 DEF Inv, PageTypes
<1>4. pg.timers \in Int /\ opens \in 0 .. MaxOpens
  BY DEF Inv, PageTypes, Shape, Counted, Spent
<1>5. Spent'
  BY <1>3, <1>4, Bounds, SpentKept DEF Counted
<1>6. QED
  BY <1>5 DEF Counted, Sized

LEMMA ServeCounted == ASSUME Inv, Counted, NEW c \in Slots, Serve(c) \/ Disturb(c) PROVE Counted'
<1>1. calls[c] # NoCall /\ pg' = pg /\ hidden' = hidden /\ opens' = opens
  BY DEF Serve, Disturb
<1>2. \E a : Answered(c, a)
  BY Zenon DEF Serve, Disturb
<1>3. QED
  BY <1>1, <1>2, AnsweredCounted

\* The page goes on, and the calls it sends or takes the answer of are not for a new test.
LEMMA PageCounted ==
  ASSUME Inv, Counted, Sized(pg'), pg'.timers <= pg.timers, pg'.timers \in Int,
         hidden' = hidden, opens' = opens,
         \A d \in Slots : calls'[d] = calls[d] \/ calls'[d] = NoCall \/ calls'[d].op # "create"
  PROVE Counted'
<1>1. pg.timers \in Int /\ opens \in 0 .. MaxOpens /\ opens \in Int
  BY Bounds DEF Inv, PageTypes, Shape, Counted, Spent
<1>2. Spent'
  BY <1>1, SpentKept DEF Counted
<1>3. QED
  BY <1>2 DEF Counted

LEMMA DoneCalls ==
  ASSUME Inv, NEW c \in Slots, Done(c)
  PROVE \A d \in Slots : calls'[d] = calls[d] \/ calls'[d] = NoCall
BY DEF Done, Inv, PageTypes

LEMMA SentCalls ==
  ASSUME Inv, NEW op, op # "create", NEW id, Send(op, id)
  PROVE \A d \in Slots : calls'[d] = calls[d] \/ calls'[d].op # "create"
<1>1. PICK c \in Free : calls' = [calls EXCEPT ![c] = Call(op, id)]
  BY DEF Send
<1>2. Call(op, id).op = op
  BY DEF Call
<1>3. QED
  BY <1>1, <1>2 DEF Inv, PageTypes

LEMMA StatusSized == \A c \in Slots : Status(c) \in {404, 429, 500}
BY DEF Status, ErrorStatus

LEMMA AnswerCounted ==
  ASSUME Inv, Counted, NEW c \in Slots, TestAnswered(c) \/ ReportAnswered(c) \/ ReanalyzeAnswered(c)
  PROVE Counted'
<1>1. pg \in Shape /\ Sized(pg) /\ pg.timers \in Int
  BY DEF Inv, PageTypes, Shape, Counted
<1>2. hidden' = hidden /\ opens' = opens
  BY DEF TestAnswered, ReportAnswered, ReanalyzeAnswered, Kept
<1>3. \A d \in Slots : calls'[d] = calls[d] \/ calls'[d] = NoCall \/ calls'[d].op # "create"
  <2>1. CASE Done(c)
    BY <2>1, DoneCalls
  <2>2. CASE calls' = [calls EXCEPT ![c] = Call("report", url)]
    <3>1. Call("report", url).op = "report"
      BY DEF Call
    <3>2. QED
      BY <2>2, <3>1 DEF Inv, PageTypes
  <2>3. QED
    BY <2>1, <2>2 DEF TestAnswered, ReportAnswered, ReanalyzeAnswered
\* Fields the numbers do not depend on, and an error.
<1>4. ASSUME pg'.next = pg.next, pg'.n = pg.n, pg'.timers = pg.timers, pg'.held = pg.held,
             pg'.error = pg.error \/ pg'.error \in {404, 429, 500},
             pg'.cool = pg.cool \/ pg'.cool = 0
      PROVE Sized(pg') /\ pg'.timers <= pg.timers /\ pg'.timers \in Int
  BY <1>1, <1>4, Bounds DEF Sized
<1>5. Sized(pg') /\ pg'.timers <= pg.timers /\ pg'.timers \in Int
  <2>1. ASSUME NEW s \in {404, 429, 500}, pg' = Fail(pg, s)
        PROVE Sized(pg') /\ pg'.timers <= pg.timers /\ pg'.timers \in Int
    <3>1. Sized(pg') /\ pg'.timers <= pg.timers
      BY <1>1, <2>1, FailSized
    <3>2. pg' \in Shape
      BY <1>1, <2>1, FailOK
    <3>3. QED
      BY <3>1, <3>2 DEF Shape
  <2>2. CASE TestAnswered(c)
    <3>1. CASE Kind(c) = "data" /\ Data(c) = "analyzed"
      <4>1. pg' = [pg EXCEPT !.test = "analyzed"]
        BY <2>2, <3>1 DEF TestAnswered
      <4>2. QED
        BY <1>1, <1>4, <4>1 DEF Shape
    <3>2. CASE Kind(c) = "data" /\ Data(c) # "analyzed"
      <4>1. pg' = [pg EXCEPT !.test = Data(c), !.loading = FALSE, !.fetching = FALSE]
        BY <2>2, <3>2 DEF TestAnswered
      <4>2. QED
        BY <1>1, <1>4, <4>1 DEF Shape
    <3>3. CASE Kind(c) # "data"
      BY <2>1, <2>2, <3>3, StatusSized DEF TestAnswered
    <3>4. QED
      BY <3>1, <3>2, <3>3
  <2>3. CASE ReportAnswered(c)
    <3>1. CASE Kind(c) = "data"
      <4> DEFINE q == StopPolling(pg)
      <4>1. q \in Shape /\ Sized(q) /\ q.timers <= pg.timers
        BY <1>1, StopOK, StopSized
      <4>2. pg' = [q EXCEPT !.report = Data(c), !.loading = FALSE, !.fetching = FALSE]
        BY <2>3, <3>1 DEF ReportAnswered
      <4> HIDE DEF q
      <4>3. /\ pg'.next = q.next /\ pg'.n = q.n /\ pg'.timers = q.timers /\ pg'.held = q.held
            /\ pg'.error = q.error /\ pg'.cool = q.cool /\ pg'.timers \in Int
        BY <4>1, <4>2 DEF Shape
      <4>4. QED
        BY <4>1, <4>3 DEF Sized
    <3>2. CASE Kind(c) = "refused"
      <4>1. pg' = [pg EXCEPT !.loading = FALSE, !.fetching = FALSE]
        BY <2>3, <3>2 DEF ReportAnswered
      <4>2. QED
        BY <1>1, <1>4, <4>1 DEF Shape
    <3>3. CASE Kind(c) \notin {"data", "refused"}
      BY <2>1, <2>3, <3>3 DEF ReportAnswered
    <3>4. QED
      BY <3>1, <3>2, <3>3
  <2>4. CASE ReanalyzeAnswered(c)
    <3>1. CASE Kind(c) = "data"
      <4>1. pg' = [pg EXCEPT !.report = Data(c), !.reanalyzing = FALSE]
        BY <2>4, <3>1 DEF ReanalyzeAnswered
      <4>2. QED
        BY <1>1, <1>4, <4>1 DEF Shape
    <3>2. CASE Kind(c) # "data"
      <4>1. pg' = [pg EXCEPT !.error = Status(c), !.cool = 0, !.reanalyzing = FALSE]
        BY <2>4, <3>2 DEF ReanalyzeAnswered
      <4>2. QED
        BY <1>1, <1>4, <4>1, StatusSized DEF Shape
    <3>3. QED
      BY <3>1, <3>2
  <2>5. QED
    BY <2>2, <2>3, <2>4
<1>6. QED
  BY <1>2, <1>3, <1>5, PageCounted

\* The page that is opened has one interval more than it had.
LEMMA OpenedSized ==
  ASSUME Inv, Counted, NEW id, NEW others, Opened(id, others)
  PROVE Sized(pg') /\ pg'.timers \in Int /\ pg'.timers <= pg.timers + 1
<1> DEFINE p == IF url = Closed THEN Fresh ELSE [pg EXCEPT !.test = "none", !.cool = 0,
                                                           !.reused = TRUE]
           q == BeginFetch(p)
<1>1. pg \in Shape /\ Sized(pg) /\ pg.timers \in Int
  BY DEF Inv, PageTypes, Counted, Shape
<1>2. p \in Shape /\ Sized(p) /\ p.timers <= pg.timers
  <2>1. CASE url = Closed
    <3>1. Fresh.timers = 0 /\ pg.timers >= 0
      BY <1>1, FreshOK DEF Sized
    <3>2. QED
      BY <2>1, <3>1, FreshOK, FreshSized
  <2>2. CASE url # Closed
    <3> DEFINE r == [pg EXCEPT !.test = "none", !.cool = 0, !.reused = TRUE]
    <3>1. /\ r \in Shape /\ r.next = pg.next /\ r.n = pg.n /\ r.timers = pg.timers
          /\ r.held = pg.held /\ r.error = pg.error /\ r.cool = 0
      BY <1>1 DEF Shape
    <3>2. Sized(r)
      BY <1>1, <3>1, Bounds DEF Sized
    <3>3. QED
      BY <1>1, <2>2, <3>1, <3>2
  <2>3. QED
    BY <2>1, <2>2
<1> HIDE DEF p
<1>3. q \in Shape /\ Sized(q) /\ q.n > 0 /\ q.timers = p.timers
  BY <1>2, BeginOK, BeginSized DEF Keeps
<1>4. pg' = StartPolling(q)
  BY DEF Opened, p
<1> HIDE DEF q
<1>5. Sized(pg') /\ pg'.timers = q.timers + 1 /\ pg' \in Shape
  BY <1>3, <1>4, StartSized, StartOK
<1>6. QED
  BY <1>1, <1>2, <1>3, <1>5 DEF Shape

LEMMA OpenedCalls ==
  ASSUME NEW id, NEW others, DOMAIN others = Slots, Opened(id, others)
  PROVE \A d \in Slots : calls'[d] = others[d] \/ calls'[d].op # "create"
<1>1. PICK c \in Slots : calls' = [others EXCEPT ![c] = Call("test", id)]
  BY DEF Opened
<1>2. Call("test", id).op = "test"
  BY DEF Call
<1>3. QED
  BY <1>1, <1>2

LEMMA OpenCounted == ASSUME Inv, Counted, NEW id \in Ids, Open(id) PROVE Counted'
<1>1. /\ opens < MaxOpens /\ opens' = opens + 1 /\ hidden' = hidden
      /\ Opened(id, WithoutCreate)
  BY DEF Open
<1>2. Sized(pg') /\ pg'.timers \in Int /\ pg'.timers <= pg.timers + 1
  BY <1>1, OpenedSized
<1>3. pg.timers <= opens /\ opens \in 0 .. MaxOpens /\ pg.timers \in Int
  BY DEF Counted, Spent, Inv, PageTypes, Shape
<1>4. ASSUME NEW d \in Slots, calls'[d] # NoCall, calls'[d].op = "create"
      PROVE calls[d] # NoCall /\ calls[d].op = "create" /\ calls'[d].orphan
  <2>1. calls'[d] = WithoutCreate[d]
    BY <1>1, <1>4, OpenedCalls DEF WithoutCreate
  <2>2. CASE calls[d] # NoCall /\ calls[d].op = "create"
    BY <2>1, <2>2, OrphanOK DEF WithoutCreate, Inv, PageTypes
  <2>3. CASE ~(calls[d] # NoCall /\ calls[d].op = "create")
    BY <1>4, <2>1, <2>3 DEF WithoutCreate
  <2>4. QED
    BY <2>2, <2>3
<1>5. Spent'
  <2>1. opens' \in 0 .. MaxOpens /\ pg'.timers <= opens'
    BY <1>1, <1>2, <1>3, Bounds
  <2>2. \A c, d \in Slots : Creating(c)' /\ Creating(d)' => c = d
    BY <1>4 DEF Counted, Spent, Creating
  <2>3. QED
    BY <1>4, <2>1, <2>2 DEF Spent, Creating
<1>6. QED
  BY <1>1, <1>2, <1>5 DEF Counted

LEMMA CreateCounted == ASSUME Inv, Counted, NEW c \in Slots, CreateAnswered(c) PROVE Counted'
<1>1. Creating(c) /\ ~calls[c].orphan /\ hidden' = hidden /\ opens' = opens
  BY DEF CreateAnswered, Got, Creating
<1>2. \A d \in Slots : Creating(d) => d = c
  BY <1>1 DEF Counted, Spent
<1>3. pg.timers < opens /\ opens \in 0 .. MaxOpens /\ pg.timers \in Int /\ pg.timers >= 0
  BY <1>1 DEF Counted, Spent, Sized, Inv, PageTypes, Shape
<1>4. Sized(pg') /\ pg'.timers \in Int /\ pg'.timers <= opens
  <2>1. CASE Kind(c) = "data"
    <3>1. Opened(Data(c), [calls EXCEPT ![c] = NoCall])
      BY <2>1 DEF CreateAnswered
    <3>2. Sized(pg') /\ pg'.timers \in Int /\ pg'.timers <= pg.timers + 1
      BY <3>1, OpenedSized
    <3>3. QED
      BY <1>3, <3>2, Bounds
  <2>2. CASE Kind(c) # "data"
    <3>1. pg' = Fresh
      BY <2>2 DEF CreateAnswered
    <3>2. QED
      BY <1>3, <3>1, FreshOK, FreshSized
  <2>3. QED
    BY <2>1, <2>2
<1>5. \A d \in Slots : ~Creating(d)'
  <2>1. CASE Kind(c) = "data"
    <3> DEFINE others == [calls EXCEPT ![c] = NoCall]
    <3>1. Opened(Data(c), others) /\ DOMAIN others = Slots
      BY <2>1 DEF CreateAnswered, Inv, PageTypes
    <3>2. \A d \in Slots : others[d] = NoCall \/ (d # c /\ others[d] = calls[d])
      BY DEF Inv, PageTypes
    <3> HIDE DEF others
    <3>3. \A d \in Slots : calls'[d] = others[d] \/ calls'[d].op # "create"
      BY <3>1, OpenedCalls
    <3>4. QED
      BY <1>2, <3>2, <3>3 DEF Creating
  <2>2. CASE Kind(c) # "data"
    <3>1. calls' = [d \in Slots |-> IF d = c THEN NoCall ELSE Orphaned(calls[d])]
      BY <2>2 DEF CreateAnswered
    <3>2. ASSUME NEW d \in Slots, d # c PROVE ~(calls'[d] # NoCall /\ calls'[d].op = "create")
      <4>1. CASE calls[d] = NoCall
        BY <3>1, <3>2, <4>1 DEF Orphaned
      <4>2. CASE calls[d] # NoCall
        BY <1>2, <3>1, <3>2, <4>2, OrphanOK DEF Creating, Inv, PageTypes
      <4>3. QED
        BY <4>1, <4>2
    <3>3. QED
      BY <3>1, <3>2 DEF Creating
  <2>3. QED
    BY <2>1, <2>2
<1>6. Spent'
  BY <1>1, <1>3, <1>4, <1>5 DEF Spent
<1>7. QED
  BY <1>1, <1>4, <1>6 DEF Counted

LEMMA SecondCounted == ASSUME MaxOpens <= 3, Inv, Counted, Second PROVE Counted'
<1>1. pg \in Shape /\ Sized(pg) /\ hidden' = hidden /\ opens' = opens
  BY DEF Inv, PageTypes, Counted, Second
<1>2. pg.timers \in Int /\ pg.timers >= 0 /\ pg.timers <= 3
  BY <1>1, Bounds DEF Shape, Sized, Counted, Spent
<1>3. CASE url = Closed \/ pg.timers = 0
  <2>1. pg' = CoolDown(pg) /\ calls' = calls
    BY <1>3 DEF Second
  <2>2. Sized(pg') /\ pg'.timers = pg.timers
    BY <1>1, <2>1, CoolSized
  <2>3. QED
    BY <1>1, <1>2, <2>1, <2>2, PageCounted
<1>4. CASE url # Closed /\ pg.timers # 0
  <2>1. /\ pg' = CoolDown(CountDown(pg))
        /\ Send("test", url) \/ calls' = calls
    BY <1>4 DEF Second
  <2>2. Due <=> pg.next <= pg.timers
    BY DEF Due
  <2>3. Sized(CountDown(pg)) /\ CountDown(pg).timers = pg.timers /\ CountDown(pg) \in Shape
    BY <1>1, <1>2, <1>4, <2>2, CountSized, CountOK DEF Keeps
  <2>4. Sized(pg') /\ pg'.timers = pg.timers
    BY <2>1, <2>3, CoolSized
  <2>5. \A d \in Slots : calls'[d] = calls[d] \/ calls'[d].op # "create"
    BY <2>1, SentCalls
  <2>6. QED
    BY <1>1, <1>2, <2>4, <2>5, PageCounted
<1>5. QED
  BY <1>3, <1>4

LEMMA UserCounted == ASSUME Inv, Counted, User PROVE Counted'
<1>1. /\ pg \in Shape /\ Sized(pg) /\ pg.timers \in Int /\ pg.timers >= 0
      /\ opens \in 0 .. MaxOpens /\ opens \in Int /\ pg.timers <= opens
  BY DEF Inv, PageTypes, Counted, Shape, Sized, Spent
<1>2. CASE \E id \in Ids : Open(id)
  BY <1>2, OpenCounted
<1>3. CASE TestAnother
  <2>1. PICK c \in Free : calls' = [calls EXCEPT ![c] = Call("create", Closed)]
    BY <1>3 DEF TestAnother, Send
  <2>2. /\ \A d \in Slots : ~Creating(d)
        /\ opens < MaxOpens /\ opens' = opens + 1 /\ pg' = pg /\ hidden' = hidden
    BY <1>3 DEF TestAnother, Creating
  <2>3. \A d \in Slots : Creating(d)' => d = c
    BY <2>1, <2>2 DEF Creating, Inv, PageTypes
  <2>4. opens' \in 0 .. MaxOpens /\ pg'.timers < opens'
    BY <1>1, <2>2, Bounds
  <2>5. Spent'
    BY <1>1, <2>2, <2>3, <2>4 DEF Spent
  <2>6. QED
    BY <1>1, <2>2, <2>5 DEF Counted
<1>4. CASE Leave
  <2>1. /\ pg' = Fresh /\ hidden' = hidden /\ opens' = opens
        /\ calls' = [c \in Slots |-> Orphaned(calls[c])]
    BY <1>4 DEF Leave
  <2>2. \A d \in Slots : calls[d] # NoCall => calls[d] \in CallSet
    BY DEF Inv, PageTypes
  <2>3. \A d \in Slots : calls'[d] # NoCall =>
          calls[d] # NoCall /\ calls'[d].op = calls[d].op /\ calls'[d].orphan
    <3>1. Orphaned(NoCall) = NoCall
      BY DEF Orphaned
    <3>2. QED
      BY <2>1, <2>2, <3>1, OrphanOK
  <2>4. Spent'
    BY <1>1, <2>1, <2>3, FreshOK, SpentKept DEF Counted
  <2>5. QED
    BY <2>1, <2>4, FreshSized DEF Counted
<1>5. CASE CheckNow
  <2> DEFINE q == BeginFetch(pg)
  <2>1. /\ pg' = [q EXCEPT !.cool = Cooldown] /\ hidden' = hidden /\ opens' = opens
        /\ Send("test", url)
    BY <1>5 DEF CheckNow
  <2>2. q \in Shape /\ Sized(q) /\ q.timers = pg.timers
    BY <1>1, BeginOK, BeginSized DEF Keeps
  <2> HIDE DEF q
  <2>3. /\ pg'.next = q.next /\ pg'.n = q.n /\ pg'.timers = q.timers /\ pg'.held = q.held
        /\ pg'.error = q.error /\ pg'.cool = Cooldown
    BY <2>1, <2>2 DEF Shape
  <2>4. Sized(pg')
    BY <2>2, <2>3, Bounds DEF Sized
  <2>5. \A d \in Slots : calls'[d] = calls[d] \/ calls'[d].op # "create"
    BY <2>1, SentCalls
  <2>6. QED
    BY <1>1, <2>1, <2>2, <2>3, <2>4, <2>5, PageCounted
<1>6. CASE AskReanalysis
  <2>1. /\ pg' = [pg EXCEPT !.reanalyzing = TRUE, !.error = 0] /\ hidden' = hidden
        /\ opens' = opens /\ Send("reanalyze", url)
    BY <1>6 DEF AskReanalysis
  <2>2. /\ pg'.next = pg.next /\ pg'.n = pg.n /\ pg'.timers = pg.timers /\ pg'.held = pg.held
        /\ pg'.error = 0 /\ pg'.cool = pg.cool
    BY <1>1, <2>1 DEF Shape
  <2>3. Sized(pg')
    BY <1>1, <2>2 DEF Sized
  <2>4. \A d \in Slots : calls'[d] = calls[d] \/ calls'[d].op # "create"
    BY <2>1, SentCalls
  <2>5. QED
    BY <1>1, <2>1, <2>2, <2>3, <2>4, PageCounted
<1>7. CASE Hide
  <2>1. hidden' = ~hidden /\ UNCHANGED <<pg, calls, opens>>
    BY <1>7 DEF Hide
  <2>2. hidden' \in BOOLEAN
    BY <2>1
  <2>3. Spent'
    BY <1>1, <2>1, SpentKept DEF Counted
  <2>4. QED
    BY <2>1, <2>2, <2>3 DEF Counted
<1>8. CASE ViewRaw
  BY <1>8 DEF ViewRaw, pageVars, Counted, Spent, Creating
<1>9. CASE Elsewhere
  <2>1. opens < MaxOpens /\ opens' = opens + 1 /\ UNCHANGED <<pg, calls, hidden>>
    BY <1>9 DEF Elsewhere
  <2>2. opens' \in 0 .. MaxOpens /\ opens' >= opens
    BY <1>1, <2>1, Bounds
  <2>3. Spent'
    BY <1>1, <2>1, <2>2, SpentKept DEF Counted
  <2>4. QED
    BY <2>1, <2>3 DEF Counted
<1>10. QED
  BY <1>2, <1>3, <1>4, <1>5, <1>6, <1>7, <1>8, <1>9 DEF User

LEMMA CountedInit == Init => Counted
<1>1. SUFFICES ASSUME Init PROVE Counted
  OBVIOUS
<1>2. \A c \in Slots : ~Creating(c)
  BY <1>1 DEF Init, Creating
<1>3. opens = 0 /\ pg.timers = 0
  BY <1>1, FreshOK DEF Init
<1>4. Spent
  BY <1>2, <1>3, Bounds DEF Spent
<1>5. QED
  BY <1>1, <1>4, FreshSized DEF Init, Counted

LEMMA CountedStep == ASSUME MaxOpens <= 3 PROVE Inv /\ Counted /\ [Next]_vars => Counted'
<1>1. SUFFICES ASSUME Inv, Counted, [Next]_vars PROVE Counted'
  OBVIOUS
<1>2. ASSUME NEW c \in Slots, Serve(c) \/ Disturb(c) \/ Answer(c) PROVE Counted'
  BY <1>1, <1>2, ServeCounted, AnswerCounted, CreateCounted DEF Answer
<1>3. CASE User
  BY <1>1, <1>3, UserCounted
<1>4. CASE Second
  BY <1>1, <1>4, SecondCounted
<1>5. CASE UNCHANGED vars
  BY <1>1, <1>5 DEF vars, pageVars, Counted, Spent, Creating
<1>6. QED
  BY <1>1, <1>2, <1>3, <1>4, <1>5 DEF Next

\* The state of the page and of the server is what TypeOK says it may be, and
\* nextfetch is never left at zero or below, while no more than three
\* navigations are made: a page that leaks a fourth interval may count past it.
THEOREM Types == MaxOpens <= 3 => (Spec => []TypeOK)
<1>1. SUFFICES ASSUME MaxOpens <= 3 PROVE Spec => []TypeOK
  OBVIOUS
<1>2. Inv /\ Counted /\ [Next]_vars => Counted'
  BY <1>1, CountedStep
<1>3. Inv /\ Counted => TypeOK
  <2>1. SUFFICES ASSUME Inv, Counted PROVE pg \in Page
    BY CallIsThere DEF Inv, PageTypes, Counted, TypeOK, CallSet
  <2>2. pg \in Shape /\ Sized(pg) /\ pg.timers \in 0 .. MaxOpens
    <3>1. pg \in Shape /\ Sized(pg) /\ pg.timers <= opens /\ opens \in 0 .. MaxOpens
      BY <2>1 DEF Inv, PageTypes, Counted, Spent
    <3>2. pg.timers \in Int /\ pg.timers >= 0
      BY <3>1 DEF Shape, Sized
    <3>3. QED
      BY <3>1, <3>2, Bounds
  <2>3. QED
    BY <2>2 DEF Shape, Sized, Page
<1>4. Spec => []Counted
  BY <1>2, CountedInit, SpecInv, PTL DEF Spec
<1>5. QED
  BY <1>3, <1>4, SpecInv, PTL

===============================================================================

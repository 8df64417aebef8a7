------------------------------- MODULE TestPage -------------------------------
(***************************************************************************)
(* The page of a test in a browser tab, over the Node server: it polls the *)
(* test, fetches the report once there is one, lets the user reanalyze it, *)
(* and is reused, with the state it has, when the user goes from one test  *)
(* to another.  Every request is a call in flight: it reaches the server   *)
(* and its answer reaches the page at moments of their own, in any order.  *)
(*                                                                         *)
(* The intervals a reused page leaks outlive the component.  Once the user *)
(* has left the page they fetch for a component nobody sees and are not    *)
(* followed.  The 500 ms for which "fetching" outlasts an answer are not   *)
(* modelled either.                                                        *)
(***************************************************************************)
EXTENDS NodeServer, FiniteSets

CONSTANTS
  MaxCalls,    \* bound on the calls in flight
  MaxOpens,    \* bound on navigations
  MaxFaults,   \* bound on the calls that are refused or lost
  MaxFetches,  \* nbfetch above it is not told apart
  FirstWait,   \* the initial nextfetch: 23 in the code
  Cooldown,    \* seconds between two checks the user forces: 10 in the code
  Refusals,    \* error codes the API may answer with
  Closed       \* no test page is open

ASSUME BoundsAssumption ==
  /\ MaxCalls \in Nat \ {0}
  /\ MaxOpens \in Nat \ {0}
  /\ MaxFetches \in Nat \ {0}
  /\ FirstWait \in Nat \ {0}
  /\ Cooldown \in Nat
  /\ Closed \notin Ids

VARIABLES
  url,      \* page.params.test
  pg,       \* the state of the mounted component
  calls,    \* calls[c]: the call in slot c, or NoCall
  hidden,   \* document.hidden
  opens,    \* navigations so far
  faults    \* faults so far

pageVars == <<url, pg, calls, hidden, opens, faults>>
vars     == <<serverVars, pageVars>>

Slots  == 1 .. MaxCalls
NoCall == [op |-> "none"]
Lost   == [kind |-> "lost"]
Asked  == [kind |-> "asked"]

\* A component just mounted.
Fresh == [test |-> "none", report |-> NoReport, loading |-> TRUE, error |-> 0,
          reanalyzing |-> FALSE, fetching |-> FALSE, next |-> FirstWait, n |-> 0,
          timers |-> 0, held |-> FALSE, cool |-> 0, reused |-> FALSE]

Init ==
  /\ ServerInit
  /\ url = Closed
  /\ pg = Fresh
  /\ calls = [c \in Slots |-> NoCall]
  /\ hidden = FALSE
  /\ opens = 0
  /\ faults = 0

-----------------------------------------------------------------------------
(* What the page does to itself.                                           *)

\* handleApiError: the status shown for an error the API answered with; an
\* exception is shown as 500.
ErrorStatus(code) == CASE code = "rate_limit_exceeded" -> 429
                       [] code = "not_found"           -> 404
                       [] OTHER                        -> 500

\* The branch of the template.
Display == CASE pg.loading             -> "loading"
             [] ~pg.loading /\ pg.error # 0 -> "error"
             [] ~pg.loading /\ pg.error = 0 /\ pg.test = "pending" -> "pending"
             [] ~pg.loading /\ pg.error = 0 /\ pg.test # "pending"
                  /\ pg.report # NoReport -> "report"
             [] OTHER -> "nothing"

StartPolling(p) == [p EXCEPT !.timers = @ + 1, !.held = TRUE]
StopPolling(p)  == IF p.held THEN [p EXCEPT !.timers = @ - 1, !.held = FALSE] ELSE p

\* Mutant: the status is not kept.
FailSilently(p, status) == [StopPolling(p) EXCEPT !.loading = FALSE, !.fetching = FALSE]
Fail(p, status) == [StopPolling(p) EXCEPT !.error = status, !.loading = FALSE,
                                          !.fetching = FALSE, !.cool = 0]

\* The part of fetchTest before its first await.
AtLeast(a, b) == IF a >= b THEN a ELSE b
BeginFetch(p) ==
  [p EXCEPT !.next = IF p.n > 0 THEN AtLeast(@, 3 + p.n \div 2) ELSE @,
            !.n = IF @ < MaxFetches THEN @ + 1 ELSE @,
            !.error = 0, !.fetching = TRUE]

-----------------------------------------------------------------------------
(* Calls.                                                                  *)

Free == {c \in Slots : calls[c] = NoCall}
Call(op, id) == [op |-> op, id |-> id, answer |-> Asked, orphan |-> FALSE]
Send(op, id) == \E c \in Free : /\ \A d \in Free : c <= d
                                /\ calls' = [calls EXCEPT ![c] = Call(op, id)]

\* What the calls of a page become once the page is gone.
\* Mutant: a component that is gone still takes the report it asked for.
OrphanedUnlessReport(call) ==
  IF call = NoCall \/ call.op = "report" THEN call ELSE [call EXCEPT !.orphan = TRUE]
Orphaned(call) == IF call = NoCall THEN NoCall ELSE [call EXCEPT !.orphan = TRUE]

Answered(c, answer) ==
  calls' = [calls EXCEPT ![c] = IF @.orphan THEN NoCall ELSE [@ EXCEPT !.answer = answer]]

\* The server handles a call.
Serve(c) ==
  LET id == calls[c].id IN
  /\ calls[c] # NoCall /\ calls[c].answer = Asked
  /\ \/ /\ calls[c].op = "test"
        /\ GetTest(id)
        /\ Answered(c, [kind |-> "data", data |-> tests'[id].status])
     \/ /\ calls[c].op = "report"
        /\ GetReport(id)
        /\ Answered(c, [kind |-> "data", data |-> reports'[id]])
     \/ /\ calls[c].op = "reanalyze"
        /\ Reanalyze(id)
        /\ Answered(c, [kind |-> "data", data |-> reports'[id]])
     \/ /\ calls[c].op = "create"
        /\ \E new \in Ids : /\ CreateTest(new)
                            /\ Answered(c, [kind |-> "data", data |-> new])
  /\ UNCHANGED <<url, pg, hidden, opens, faults>>

\* The API refuses a call, or the network loses it or its answer.
Disturb(c) ==
  /\ calls[c] # NoCall /\ calls[c].answer.kind \in {"asked", "data"}
  /\ faults < MaxFaults
  /\ \/ Answered(c, Lost)
     \/ calls[c].answer = Asked /\ \E code \in Refusals :
          Answered(c, [kind |-> "refused", code |-> code])
  /\ faults' = faults + 1
  /\ UNCHANGED <<serverVars, url, pg, hidden, opens>>

-----------------------------------------------------------------------------
(* Answers.                                                                *)

Got(c, op) == calls[c] # NoCall /\ ~calls[c].orphan /\ calls[c].op = op
                /\ calls[c].answer # Asked
Kind(c)  == calls[c].answer.kind
Data(c)  == calls[c].answer.data
Done(c)  == calls' = [calls EXCEPT ![c] = NoCall]
Status(c) == IF Kind(c) = "refused" THEN ErrorStatus(calls[c].answer.code) ELSE 500
Kept == UNCHANGED <<serverVars, url, hidden, opens, faults>>

\* getTest answered: fetchTest goes on to the report of the test the page is
\* open on by now, which need not be the one it asked about.
\* Mutant: the interval is cleared as soon as the test is analyzed.
TestAnsweredEager(c) ==
  /\ Got(c, "test")
  /\ \/ /\ Kind(c) = "data" /\ Data(c) = "analyzed"
        /\ pg' = StopPolling([pg EXCEPT !.test = "analyzed"])
        /\ calls' = [calls EXCEPT ![c] = Call("report", url)]
     \/ /\ Kind(c) = "data" /\ Data(c) # "analyzed"
        /\ pg' = [pg EXCEPT !.test = Data(c), !.loading = FALSE, !.fetching = FALSE]
        /\ Done(c)
     \/ /\ Kind(c) # "data"
        /\ pg' = Fail(pg, Status(c))
        /\ Done(c)
  /\ Kept
TestAnswered(c) ==
  /\ Got(c, "test")
  /\ \/ /\ Kind(c) = "data" /\ Data(c) = "analyzed"
        /\ pg' = [pg EXCEPT !.test = "analyzed"]
        /\ calls' = [calls EXCEPT ![c] = Call("report", url)]
     \/ /\ Kind(c) = "data" /\ Data(c) # "analyzed"
        /\ pg' = [pg EXCEPT !.test = Data(c), !.loading = FALSE, !.fetching = FALSE]
        /\ Done(c)
     \/ /\ Kind(c) # "data"
        /\ pg' = Fail(pg, Status(c))
        /\ Done(c)
  /\ Kept

\* getReport answered: a refusal is ignored, the next poll tries again.
ReportAnswered(c) ==
  /\ Got(c, "report")
  /\ pg' = CASE Kind(c) = "data"    -> [StopPolling(pg) EXCEPT !.report = Data(c),
                                          !.loading = FALSE, !.fetching = FALSE]
             [] Kind(c) = "refused" -> [pg EXCEPT !.loading = FALSE, !.fetching = FALSE]
             [] OTHER               -> Fail(pg, 500)
  /\ Done(c)
  /\ Kept

\* reanalyzeReport answered.
ReanalyzeAnswered(c) ==
  /\ Got(c, "reanalyze")
  /\ pg' = IF Kind(c) = "data"
           THEN [pg EXCEPT !.report = Data(c), !.reanalyzing = FALSE]
           ELSE [pg EXCEPT !.error = Status(c), !.cool = 0, !.reanalyzing = FALSE]
  /\ Done(c)
  /\ Kept

-----------------------------------------------------------------------------
(* The user and the clock.                                                 *)

\* The page of test id, mounted or reused: testChange.
Opened(id, others) ==
  LET p == IF url = Closed THEN Fresh ELSE [pg EXCEPT !.test = "none", !.cool = 0,
                                                      !.reused = TRUE] IN
  /\ url' = id
  /\ pg' = StartPolling(BeginFetch(p))
  /\ \E c \in Slots : /\ others[c] = NoCall
                      /\ \A d \in Slots : others[d] = NoCall => c <= d
                      /\ calls' = [others EXCEPT ![c] = Call("test", id)]

\* A navigation cancels the one to /test/ that is still waiting for its test.
WithoutCreate == [c \in Slots |-> IF calls[c] # NoCall /\ calls[c].op = "create"
                                  THEN Orphaned(calls[c]) ELSE calls[c]]

\* A link, or the history of the browser.
Open(id) ==
  /\ id # url
  /\ opens < MaxOpens
  /\ opens' = opens + 1
  /\ Opened(id, WithoutCreate)
  /\ UNCHANGED <<serverVars, hidden, faults>>

\* /test/, which creates a test and redirects to it.
TestAnother ==
  /\ opens < MaxOpens
  /\ \A c \in Slots : calls[c] # NoCall => calls[c].op # "create"
  /\ opens' = opens + 1
  /\ Send("create", Closed)
  /\ UNCHANGED <<serverVars, url, pg, hidden, faults>>

CreateAnswered(c) ==
  /\ Got(c, "create")
  /\ IF Kind(c) = "data"
     THEN Opened(Data(c), [calls EXCEPT ![c] = NoCall])
     ELSE \* the error page
          /\ url' = Closed
          /\ pg' = Fresh
          /\ calls' = [d \in Slots |-> IF d = c THEN NoCall ELSE Orphaned(calls[d])]
  /\ UNCHANGED <<serverVars, hidden, opens, faults>>

Leave ==
  /\ url # Closed
  /\ url' = Closed
  /\ pg' = Fresh
  /\ calls' = [c \in Slots |-> Orphaned(calls[c])]
  /\ UNCHANGED <<serverVars, hidden, opens, faults>>

\* "Check now", in PendingState.
CheckNow ==
  /\ url # Closed
  /\ Display = "pending" /\ ~pg.fetching /\ pg.next # 0 /\ pg.n > 0
  /\ pg.cool = 0
  /\ pg' = [BeginFetch(pg) EXCEPT !.cool = Cooldown]
  /\ Send("test", url)
  /\ UNCHANGED <<serverVars, url, hidden, opens, faults>>

\* "Reanalyze with Latest Version".
AskReanalysis ==
  /\ url # Closed
  /\ Display = "report" /\ ~pg.reanalyzing
  /\ pg' = [pg EXCEPT !.reanalyzing = TRUE, !.error = 0]
  /\ Send("reanalyze", url)
  /\ UNCHANGED <<serverVars, url, hidden, opens, faults>>

Hide == hidden' = ~hidden /\ UNCHANGED <<serverVars, url, pg, calls, opens, faults>>

\* Each running interval counts nextfetch down once a second; the one that
\* brings it to zero fetches, and the others count on from the new value.
Due == pg.next <= pg.timers
\* Mutant: a hidden page counts on.
CountDownPastZero(p) ==
  IF Due /\ ~hidden
  THEN [BeginFetch([p EXCEPT !.next = 0]) EXCEPT !.next = @ - (p.timers - p.next)]
  ELSE [p EXCEPT !.next = @ - p.timers]
CountDown(p) ==
  CASE ~Due            -> [p EXCEPT !.next = @ - p.timers]
    [] Due /\ hidden   -> [p EXCEPT !.next = 1]
    [] Due /\ ~hidden  -> [BeginFetch([p EXCEPT !.next = 0]) EXCEPT !.next = @ - (p.timers - p.next)]
CoolDown(p) == [p EXCEPT !.cool = IF @ > 0 THEN @ - 1 ELSE 0]
Second ==
  /\ ServerSecond
  /\ IF url = Closed \/ pg.timers = 0
     THEN pg' = CoolDown(pg) /\ UNCHANGED calls
     ELSE /\ pg' = CoolDown(CountDown(pg))
          /\ IF Due /\ ~hidden THEN Send("test", url) ELSE UNCHANGED calls
  /\ UNCHANGED <<url, hidden, opens, faults>>

\* "View Raw Email".
ViewRaw ==
  /\ url # Closed /\ Display = "report"
  /\ GetRaw(url)
  /\ UNCHANGED pageVars

\* Any other client of the API.
Elsewhere ==
  /\ opens < MaxOpens
  /\ opens' = opens + 1
  /\ \E id \in Ids : ServerOp(id)
  /\ UNCHANGED <<url, pg, calls, hidden, faults>>

-----------------------------------------------------------------------------
Answer(c) == TestAnswered(c) \/ ReportAnswered(c) \/ ReanalyzeAnswered(c) \/ CreateAnswered(c)
User == (\E id \in Ids : Open(id)) \/ TestAnother \/ Leave \/ CheckNow \/ AskReanalysis
          \/ Hide \/ ViewRaw \/ Elsewhere

Next ==
  \/ \E c \in Slots : Serve(c) \/ Disturb(c) \/ Answer(c)
  \/ User
  \/ Second

Spec == Init /\ [][Next]_vars

\* Node and the browser run what is due: a request that was not lost is
\* handled, its answer is delivered, and the interval fires.
Fairness ==
  /\ \A c \in Slots : WF_vars(Serve(c)) /\ WF_vars(Answer(c))
  /\ WF_vars(Second)
FairSpec == Spec /\ Fairness

-----------------------------------------------------------------------------
(* Properties.                                                             *)

Page == [test : {"none", "pending", "analyzed"}, report : Report \cup {NoReport},
         loading : BOOLEAN, error : {0, 404, 429, 500}, reanalyzing : BOOLEAN,
         fetching : BOOLEAN, next : 1 .. FirstWait + 3 + MaxFetches, n : 0 .. MaxFetches,
         timers : 0 .. MaxOpens, held : BOOLEAN, cool : 0 .. Cooldown, reused : BOOLEAN]

\* The state is what the page's variables and the server's Maps may hold.
TypeOK ==
  /\ ServerTypeOK
  /\ url \in Ids \cup {Closed}
  /\ pg \in Page
  /\ hidden \in BOOLEAN
  /\ \A c \in Slots : calls[c] # NoCall => calls[c].op \in {"test", "report", "reanalyze", "create"}

\* A page that was opened on its test, not reused, and has neither its report
\* nor an error keeps an interval running ([test]/+page.svelte:69-139): however
\* its requests overlap, none of them stops the polling too early.
WaitingIsPolled ==
  url # Closed /\ ~pg.reused /\ pg.report = NoReport /\ pg.error = 0 => pg.held /\ pg.timers = 1

\* An answer about another test never becomes a report of a page that was
\* opened on its test ([test]/+page.svelte:85-93): what such a page holds is
\* the report of the test in its address.
FreshShowsItsOwn ==
  url # Closed /\ ~pg.reused /\ pg.report # NoReport => pg.report.test = url

\* A page left open on its test, in the foreground, gets the report or an error
\* ([test]/+page.svelte:69-132), whatever is lost on the way.  What a page before it
\* had does not count.
ReportArrives ==
  \A id \in Ids :
    <>[](url = id /\ ~pg.reused /\ ~hidden) => []<>(pg.report # NoReport \/ pg.error # 0)

\* The export names its file after the test in the address
\* ([test]/+page.svelte:189: report-${testId}.json): what is shown there is its report.
ShownIsOfThisTest == url # Closed /\ Display = "report" => pg.report.test = url

===============================================================================

------------------------------ MODULE WebPages ------------------------------
(***************************************************************************)
(* The pages of the web interface around the page of a test, in one tab    *)
(* over the Node server: the front page, the history, the dashboard, and   *)
(* the lookups of a domain and of an address.  Each call of the API is in  *)
(* flight until its answer is delivered, and answers come in any order.    *)
(* A component that is gone ignores what it asked for, but a test created  *)
(* or a mail uploaded still leads to its page.                             *)
(***************************************************************************)
EXTENDS NodeServer, ApiClient, FiniteSets, FiniteSetsExt

CONSTANTS
  PageSize,     \* limit of the history: 20 in the code
  RecentSize,   \* limit of the front page: 5 in the code
  Names,        \* what may be looked up, domains and addresses
  Dotted,       \* those with a dot, which the server takes for a domain
  Records,      \* what may be found at a domain: a subset of mx, spf, dmarc, bimi
  MaxCalls,     \* bound on the calls in flight
  MaxClicks,    \* bound on what the user does
  MaxFaults,    \* bound on the calls that are refused or lost
  Refusals      \* what the API may refuse a call with: records [status, code]

ASSUME SizesAssumption ==
  /\ PageSize \in Nat \ {0}
  /\ RecentSize \in Nat \ {0}
  /\ MaxCalls \in Nat \ {0}
  /\ Dotted \subseteq Names

\* To refuse is not to succeed.
ASSUME RefusalsAssumption == \A r \in Refusals : r.status \notin 200 .. 299

VARIABLES
  route,    \* which page is open
  arg,      \* its parameter: a domain, an address, a test, or "none"
  ui,       \* the state of the mounted component
  calls,    \* calls[c]: the call in slot c, or NoCall
  clicks,   \* what the user did so far, counted
  faults    \* faults so far

tabVars == <<route, arg, ui, calls, clicks, faults>>
vars    == <<serverVars, tabVars>>

Routes  == {"home", "history", "dashboard", "domain", "blacklist", "test"}
Lookups == {"domain", "blacklist"}
Lists   == {"home", "history", "dashboard"}
Slots   == 1 .. MaxCalls
NoCall  == [op |-> "none"]
Asked   == [kind |-> "asked"]
NoResult == [score |-> 0]

\* A component just mounted.  What the front page calls loading is creating.
Fresh(r) == [tests |-> <<>>, total |-> 0, offset |-> 0, loading |-> r \notin {"home", "test"},
             refreshing |-> FALSE, error |-> "none", creating |-> FALSE, uploading |-> FALSE,
             uploadError |-> "none", result |-> NoResult]

-----------------------------------------------------------------------------
(* Calls.                                                                  *)

Free(cs)   == {c \in Slots : cs[c] = NoCall}
First(cs)  == CHOOSE c \in Free(cs) : \A d \in Free(cs) : c <= d
Call(op, args) == [sent |-> Sent(op, args), op |-> op, answer |-> Asked, mine |-> TRUE]
With(cs, call) == [cs EXCEPT ![First(cs)] = call]
Send(op, args) == /\ Free(calls) # {}
                  /\ calls' = With(calls, Call(op, args))

DashboardSize == 100
ListCall(offset, limit) == Call("listTests", [offset |-> offset, limit |-> limit])

\* What a page asks for when it is mounted.
FirstCall(r, a) ==
  CASE r = "home"      -> ListCall(0, RecentSize)
    [] r = "history"   -> ListCall(0, PageSize)
    [] r = "dashboard" -> ListCall(0, DashboardSize)
    [] r = "domain"    -> Call("testDomain", a)
    [] r = "blacklist" -> Call("checkBlacklist", a)

\* The calls that outlive their page.
Left(cs) == [c \in Slots |-> IF cs[c] # NoCall /\ cs[c].op \in {"createTest", "uploadEml"}
                             THEN [cs[c] EXCEPT !.mine = FALSE] ELSE NoCall]

Mounted(r, a, cs) ==
  /\ route' = r
  /\ arg' = a
  /\ ui' = Fresh(r)
  /\ IF r = "test" THEN calls' = Left(cs)
     ELSE Free(Left(cs)) # {} /\ calls' = With(Left(cs), FirstCall(r, a))

Init ==
  /\ ServerInit
  /\ route = "home" /\ arg = "none"
  /\ ui = Fresh("home")
  /\ calls = [c \in Slots |-> IF c = 1 THEN FirstCall("home", "none") ELSE NoCall]
  /\ clicks = 0
  /\ faults = 0

-----------------------------------------------------------------------------
(* The server's side of a call.                                            *)

\* Express parses a body by the type the request names; an upload that is
\* not a form has no file, a lookup that is not JSON asks about nothing.
Understood(sent) == sent.op \in Bodied =>
                      sent.type = IF sent.op = "uploadEml" THEN "form" ELSE "json"

Reply(sent) ==
  CASE sent.op = "listTests"      ->
         {Response(200, "json", ListPage(sent.args.offset, sent.args.limit))}
    [] sent.op = "checkBlacklist" ->
         {IF Understood(sent) THEN Response(200, "json", PostBlacklist(sent.args))
                              ELSE Refusal(400, "invalid_ip")}
    [] sent.op = "testDomain"     ->
         IF Understood(sent) /\ sent.args \in Dotted
         THEN {Response(200, "json", PostDomain(sent.args, found)) : found \in SUBSET Records}
         ELSE {Refusal(400, "invalid_domain")}

Delivered(c, response) == calls' = [calls EXCEPT ![c].answer = Outcome(response)]

Serve(c) ==
  /\ calls[c] # NoCall /\ calls[c].answer = Asked
  /\ \/ /\ calls[c].op \in {"listTests", "checkBlacklist", "testDomain"}
        /\ \E r \in Reply(calls[c].sent) : Delivered(c, r)
        /\ UNCHANGED serverVars
     \/ /\ calls[c].op = "createTest"
        /\ \E id \in Ids : CreateTest(id) /\ Delivered(c, Response(201, "json", [id |-> id]))
     \/ /\ calls[c].op = "uploadEml" /\ Understood(calls[c].sent)
        /\ \E id \in Ids : /\ UploadTest(id, calls[c].sent.args)
                           /\ Delivered(c, Response(201, "json", [id |-> id]))
     \/ /\ calls[c].op = "uploadEml" /\ ~Understood(calls[c].sent)
        /\ Delivered(c, Refusal(400, "missing_file"))
        /\ UNCHANGED serverVars
  /\ UNCHANGED <<route, arg, ui, clicks, faults>>

\* A gateway or a limit refuses the call, the server fails, or the network does.
Disturb(c) ==
  /\ calls[c] # NoCall /\ calls[c].answer = Asked
  /\ faults < MaxFaults
  /\ faults' = faults + 1
  /\ \/ \E r \in Refusals : Delivered(c, Refusal(r.status, r.code))
     \/ Delivered(c, Response(500, "html", [page |-> "html"]))
     \/ calls' = [calls EXCEPT ![c].answer = NetworkFailure]
  /\ UNCHANGED <<serverVars, route, arg, ui, clicks>>

-----------------------------------------------------------------------------
(* Answers.                                                                *)

Got(c, op) == calls[c] # NoCall /\ calls[c].op = op /\ calls[c].answer # Asked
Answer(c)  == calls[c].answer
Gone(c)    == [calls EXCEPT ![c] = NoCall]
Settle(c)  == /\ calls' = Gone(c)
              /\ UNCHANGED <<serverVars, route, arg, clicks, faults>>

\* The message of an error object; a body that is a page has none.
Message(a) == CASE a.kind = "thrown" -> a.text
                [] a.kind = "error" /\ "message" \in DOMAIN a.error -> a.error.message
                [] OTHER -> "failed"
Disabled(a) == a.kind = "error" /\ "error" \in DOMAIN a.error /\ a.error.error = "feature_disabled"

\* loadTests of the history and the dashboard, loadRecentTests of the front page.
\* Mutant: loading ends with the rows only.
ListAnsweredNoFinally(c) ==
  /\ Got(c, "listTests")
  /\ IF Answer(c).kind = "data"
     THEN ui' = [ui EXCEPT !.tests = Answer(c).data.rows, !.total = Answer(c).data.total,
                           !.loading = FALSE, !.refreshing = FALSE]
     ELSE ui' = [ui EXCEPT !.error = "failed"]
  /\ Settle(c)
ListAnswered(c) ==
  /\ Got(c, "listTests")
  /\ LET done == [ui EXCEPT !.loading = FALSE, !.refreshing = FALSE] IN
     ui' = CASE Answer(c).kind = "data" -> [done EXCEPT !.tests = Answer(c).data.rows,
                                                        !.total = Answer(c).data.total]
             [] Answer(c).kind # "data" /\ route = "home" -> ui
             [] Answer(c).kind # "data" /\ route # "home" -> [done EXCEPT !.error =
                  IF Disabled(Answer(c)) THEN "disabled" ELSE "failed"]
  /\ Settle(c)

\* createTest of the three pages: only the history stops waiting when the API
\* refuses.
CreateAnswered(c) ==
  LET settled == CASE Answer(c).kind = "thrown" -> [ui EXCEPT !.creating = FALSE,
                                                              !.error = Answer(c).text]
                   [] Answer(c).kind = "error" /\ route = "history" ->
                        [ui EXCEPT !.creating = FALSE]
                   [] OTHER -> ui IN
  /\ Got(c, "createTest")
  /\ IF Answer(c).kind = "data"
     THEN /\ Mounted("test", Answer(c).data.id, Gone(c))
          /\ UNCHANGED <<serverVars, clicks, faults>>
     ELSE /\ ui' = IF calls[c].mine THEN settled ELSE ui
          /\ Settle(c)

\* handleFileSelected.
UploadAnswered(c) ==
  /\ Got(c, "uploadEml")
  /\ IF Answer(c).kind = "data"
     THEN /\ Mounted("test", Answer(c).data.id, Gone(c))
          /\ UNCHANGED <<serverVars, clicks, faults>>
     ELSE /\ ui' = IF calls[c].mine THEN [ui EXCEPT !.uploading = FALSE,
                                                    !.uploadError = Message(Answer(c))] ELSE ui
          /\ Settle(c)

\* analyzeDomain, analyzeIP.
LookupAnswered(c) ==
  /\ Got(c, "testDomain") \/ Got(c, "checkBlacklist")
  /\ ui' = IF Answer(c).kind = "data"
           THEN [ui EXCEPT !.result = Answer(c).data, !.loading = FALSE]
           ELSE [ui EXCEPT !.error = Message(Answer(c)), !.loading = FALSE]
  /\ Settle(c)

-----------------------------------------------------------------------------
(* The user.                                                               *)

Click == clicks < MaxClicks /\ clicks' = clicks + 1
InPage == UNCHANGED <<serverVars, route, arg, faults>>

\* A link, a form, a row of a table, or the history of the browser.  handleSubmit
\* of the two forms lets pass what Names holds.
Visit(r, a) ==
  /\ Click
  /\ r # route
  /\ Mounted(r, a, calls)
  /\ UNCHANGED <<serverVars, faults>>

\* A jump of several entries in the history of the browser, from one lookup to
\* another of its kind: the component stays and analyzes on mount only.
Jump(a) ==
  /\ Click
  /\ route \in Lookups /\ a # arg
  /\ arg' = a
  /\ UNCHANGED <<serverVars, route, ui, calls, faults>>

\* What the list pages show.
Display == CASE ui.loading                                        -> "loading"
             [] ~ui.loading /\ ui.error # "none"                  -> "error"
             [] ~ui.loading /\ ui.error = "none" /\ ui.tests = <<>> -> "empty"
             [] OTHER                                             -> "rows"

TotalPages  == (ui.total + PageSize - 1) \div PageSize
CurrentPage == ui.offset \div PageSize + 1
Reload(offset) == [ui EXCEPT !.offset = offset, !.loading = TRUE, !.error = "none"]

\* goToPage asks, and so does the effect that reads offset: twice the same.
GoToPage(offset) ==
  /\ Cardinality(Free(calls)) >= 2
  /\ ui' = Reload(offset)
  /\ calls' = With(With(calls, ListCall(offset, PageSize)), ListCall(offset, PageSize))
PreviousPage == /\ CurrentPage # 1
                /\ GoToPage(IF ui.offset > PageSize THEN ui.offset - PageSize ELSE 0)
NextPage     == CurrentPage # TotalPages /\ GoToPage(ui.offset + PageSize)
TurnPage ==
  /\ Click
  /\ route = "history" /\ Display = "rows" /\ TotalPages > 1
  /\ PreviousPage \/ NextPage
  /\ InPage

\* The refresh of the dashboard, and what offers to try again.
Refresh ==
  /\ Click
  /\ route = "dashboard" /\ ~ui.refreshing /\ ~ui.loading
  /\ ui' = [ui EXCEPT !.refreshing = TRUE, !.error = "none"]
  /\ Send("listTests", [offset |-> 0, limit |-> DashboardSize])
  /\ InPage
TryAgain ==
  /\ Click
  /\ route \in Lookups \cup {"dashboard"} /\ Display = "error"
  /\ ui' = [Reload(0) EXCEPT !.result = NoResult]
  /\ Free(calls) # {} /\ calls' = With(calls, FirstCall(route, arg))
  /\ InPage

ClickCreate ==
  /\ Click
  /\ route \in Lists /\ ~ui.creating
  /\ ui' = [ui EXCEPT !.creating = TRUE, !.error = IF route = "history" THEN @ ELSE "none"]
  /\ Send("createTest", "none")
  /\ InPage
ClickUpload(file) ==
  /\ Click
  /\ route = "dashboard" /\ ~ui.uploading
  /\ ui' = [ui EXCEPT !.uploading = TRUE, !.uploadError = "none"]
  /\ Send("uploadEml", file)
  /\ InPage
CloseError ==
  /\ route = "dashboard" /\ ui.uploadError # "none"
  /\ ui' = [ui EXCEPT !.uploadError = "none"]
  /\ UNCHANGED <<calls, clicks>>
  /\ InPage

\* Any other client of the API.
Elsewhere ==
  /\ Click
  /\ \E id \in Ids : ServerOp(id)
  /\ UNCHANGED <<route, arg, ui, calls, faults>>

-----------------------------------------------------------------------------
Links == {<<r, "none">> : r \in Lists} \cup {<<r, a>> : r \in Lookups, a \in Names}
           \cup {<<"test", ui.tests[i].id>> : i \in DOMAIN ui.tests}

AnyAnswer(c) == ListAnswered(c) \/ CreateAnswered(c) \/ UploadAnswered(c) \/ LookupAnswered(c)
User ==
  \/ \E link \in Links : Visit(link[1], link[2])
  \/ \E a \in Names : Jump(a)
  \/ TurnPage
  \/ Refresh
  \/ TryAgain
  \/ ClickCreate
  \/ \E file \in Files : ClickUpload(file)
  \/ CloseError
  \/ Elsewhere

Next ==
  \/ \E c \in Slots : Serve(c) \/ Disturb(c) \/ AnyAnswer(c)
  \/ User

\* The server handles what reaches it and the browser delivers what comes back.
Spec == Init /\ [][Next]_vars /\ \A c \in Slots : WF_vars(Serve(c)) /\ WF_vars(AnyAnswer(c))

-----------------------------------------------------------------------------
(* What the dashboard makes of its rows.                                   *)

Rate(n, of) == IF of = 0 THEN 0 ELSE (200 * n + of) \div (2 * of)
Among(rows, letters) == Cardinality({i \in DOMAIN rows : rows[i].grade \in letters})

High == {"A+", "A"}
GradeCounts(rows) == [g \in Letters |-> Among(rows, {g})]
HighGradeRate(rows) == Rate(Among(rows, High), Len(rows))
DmarcPassRate(rows) == Rate(Cardinality({i \in DOMAIN rows : rows[i].dmarc = "pass"}), Len(rows))
\* The points of all rows: there are as many as the scores add up to.
Points(rows) == UNION {{i} \X (1 .. rows[i].score) : i \in DOMAIN rows}
AverageScore(rows) ==
  IF rows = <<>> THEN 0 ELSE Rate(Cardinality(Points(rows)), 100 * Len(rows))

\* The letters a choice of the grade filter lets pass.
\* Mutant: a letter no choice covers.
PassingNoC(choice) == CASE choice = "all"    -> Letters
                        [] choice = "high"   -> High
                        [] choice = "medium" -> {"B"}
                        [] choice = "low"    -> {"D", "E", "F"}
                        [] OTHER             -> {choice}
Passing(choice) == CASE choice = "all"    -> Letters
                     [] choice = "high"   -> High
                     [] choice = "medium" -> {"B", "C"}
                     [] choice = "low"    -> {"D", "E", "F"}
                     [] OTHER             -> {choice}

\* What the order asked for puts first, by created_at or by score; the sort is stable.
\* Mutant: the rows are taken as they come, which is not by date.
AheadUnsorted(rows, by, i, j) ==
  CASE by = "score_desc" -> rows[i].score > rows[j].score \/ (rows[i].score = rows[j].score /\ i < j)
    [] by = "score_asc"  -> rows[i].score < rows[j].score \/ (rows[i].score = rows[j].score /\ i < j)
    [] by = "date_asc"   -> i > j
    [] OTHER             -> i < j
Ahead(rows, by, i, j) ==
  LET a == rows[i]
      b == rows[j] IN
  CASE by = "score_desc" -> a.score > b.score \/ (a.score = b.score /\ i < j)
    [] by = "score_asc"  -> a.score < b.score \/ (a.score = b.score /\ i < j)
    [] by = "date_asc"   -> a.created < b.created \/ (a.created = b.created /\ i < j)
    [] by = "date_desc"  -> a.created > b.created \/ (a.created = b.created /\ i < j)
Selected(rows, choice, source) ==
  {i \in DOMAIN rows : rows[i].grade \in Passing(choice) /\ source \in {"all", rows[i].source}}
\* The k-th row shown is the one that k - 1 of those selected are ahead of.
FilteredTests(rows, choice, source, by) ==
  LET left    == Selected(rows, choice, source)
      Rank(i) == Cardinality({j \in left : Ahead(rows, by, j, i)}) IN
  [k \in 1 .. Cardinality(left) |-> rows[CHOOSE i \in left : Rank(i) = k - 1]]

-----------------------------------------------------------------------------
(* Properties.                                                             *)

\* A list or a lookup does not load for ever (history/+page.svelte:16-42,
\* dashboard/+page.svelte:36-67, domain/[domain]/+page.svelte:15-41), whatever
\* is refused, lost or answered out of order.
LoadingEnds == ui.loading ~> ~ui.loading

\* What turns has something to wait for (dashboard/+page.svelte:36-67, 94-108,
\* history/+page.svelte:16-42, domain/[domain]/+page.svelte:15-41): a list, a lookup
\* or an upload that shows as under way is, in a call of the page that is open,
\* whichever answers came before and whichever pages were left.
LoadOp(r) == CASE r \in Lists    -> "listTests"
               [] r = "domain"    -> "testDomain"
               [] r = "blacklist" -> "checkBlacklist"
               [] OTHER           -> "none"
UnderWay(op) == \E c \in Slots : calls[c] # NoCall /\ calls[c].op = op /\ calls[c].mine
SpinnersHaveCalls ==
  /\ ui.loading \/ ui.refreshing => UnderWay(LoadOp(route))
  /\ ui.uploading => UnderWay("uploadEml")

\* Where row i of the list belongs, the latest first.
Made(rows)      == {i \in DOMAIN rows : rows[i].id \notin SeedSet}
ByDate(rows, i) == IF i \in Made(rows) THEN i
                   ELSE Len(rows) + Cardinality(Made(rows)) + 1 - i

\* The numbers on the pills and badges of the dashboard are those of the rows
\* the pills select (dashboard/+page.svelte:165-280): no row is counted and not
\* shown or shown under two pills, a rate of 100 % leaves no row out, the average
\* lies between the scores, and a filter or an order never loses a row.  By default
\* the tests made since the start stay where the server lists them, and the seeds, whose
\* dates run against the list (server.js:351-433, 603), follow the other way round.
FiltersAgree ==
  route = "dashboard" =>
    LET rows == ui.tests
        Shown(choice) == Len(FilteredTests(rows, choice, "all", "date_desc")) IN
    /\ \A g \in Letters : Shown(g) = GradeCounts(rows)[g]
    /\ Shown("high") + Shown("medium") + Shown("low") = Len(rows)
    /\ (HighGradeRate(rows) = 100) = (rows # <<>> /\ Shown("high") = Len(rows))
    /\ (DmarcPassRate(rows) = 100) = (rows # <<>> /\ \A i \in DOMAIN rows : rows[i].dmarc = "pass")
    /\ rows # <<>> =>
         \E i, j \in DOMAIN rows : AverageScore(rows) \in rows[i].score .. rows[j].score
    /\ \A by \in {"date_desc", "date_asc", "score_desc", "score_asc"} :
         Range(FilteredTests(rows, "all", "received", by))
           \cup Range(FilteredTests(rows, "all", "uploaded", by)) = Range(rows)
    /\ \A i \in DOMAIN rows :
         FilteredTests(rows, "all", "all", "date_desc")[ByDate(rows, i)] = rows[i]

\* api/schemas.yaml:1391 gives an error a "Human-readable error message", and
\* domain/[domain]/+page.svelte:34 shows it.
RefusalIsShown ==
  [][\A c \in Slots :
       LookupAnswered(c) /\ calls[c].sent.args \notin Dotted /\ route = "domain" /\ faults = 0
         => ui'.error = "invalid_domain"]_vars
===============================================================================

# happyDeliver in TLA+

happyDeliver hands out throw-away addresses, receives one mail at each, analyzes
it (DNS, SPF, DKIM, DMARC, BIMI, blacklists, spam filters, content) and keeps a
report under the id in the address. The repository holds two servers behind one API, in
Go (`internal`, `pkg`) and in JavaScript (`server.js`, three Maps and sample reports), and one
web interface (`web/src`). This directory models both servers and the interface: TLA+
modules translated from the source, TLC configurations that check them on
small instances, and TLAPS proofs for every size.

How to run, in this directory:

    tlc -workers 2 -config MCReportServiceRace.cfg MCReportService
    tlapm ReportServiceProofs.tla

`PROJECT.json` lists components, runs, mutants (a bug for every property, which
the property must catch), the source lines behind every definition, findings,
hazards and theorems.

## Inventory

| Component | State it keeps | Operations | Talks to |
|---|---|---|---|
| Report storage, `internal/storage` | the `reports` table, one row per test (unique index on `test_id`) | CreateReport, ReportExists, GetReport, UpdateReport, DeleteOldReports, ListReportSummaries, GetAllReports, CreateReportFromBackup | everybody calls it; no operation spans two statements in a transaction |
| Mail receiver, `internal/receiver` | none of its own (one shared EmailAnalyzer) | ProcessEmailBytes | storage, analyzer |
| LMTP server, `internal/lmtp` | per connection: sender, recipients | Mail, Rcpt, Data, Reset, Logout | Postfix through go-smtp; receiver |
| HTTP API, `internal/api` | none | CreateTest, UploadEml, GetTest, GetReport, GetRawEmail, ReanalyzeReport, ListTests, GetStatus, TestDomain, CheckBimi, CheckBlacklist | storage, a second shared analyzer |
| Cleanup, `internal/app/cleanup.go` | ticker, done channel | Start, Stop, runCleanup | storage |
| Server start, `internal/app/server.go` | the order of start-up | RunServer | all of the above |
| Backup and restore, `internal/app/cli_backup.go` | a JSON file | RunBackup, RunRestore | storage, possibly next to a live server |
| Content analyzer, `pkg/analyzer/content.go` | the List-Unsubscribe URLs and the one-click flag of *the message being analyzed*, in fields shared by all goroutines | AnalyzeContent, GenerateContentAnalysis, CalculateContentScore | the web (fetches links) |
| DNS checks, `pkg/analyzer/dns*.go` | results of one message | SPF walk, DMARC search, DKIM, MX, PTR, BIMI | resolver |
| Blacklists, `pkg/analyzer/rbl.go` | results of one message | CheckEmail, CheckIP, scores | resolver, one goroutine per list |
| Authentication results, headers, spam filters, `pkg/analyzer`, `pkg/authresults` | results of one message | parse, attribute to the inbound hop, score | headers only |
| Report, `pkg/analyzer/report.go`, `pkg/grade` | none | AnalyzeEmail, GenerateReport, grades | the analyzers above |
| BIMI, `pkg/bimi` | none | discovery at up to three names, DMARC, logo and certificate checks | resolver, HTTPS |
| Configuration, `internal/config` | the Config record | defaults, files, environment, flags | start-up only |
| Node server, `server.js` | the Maps `tests`, `reports`, `rawEmails` of one process | create, upload, get test, report and raw mail, reanalyze, list, domain, blacklist, BIMI, status | the API's clients |
| API client, `web/src/lib/api`, `lib/hey-api.ts` | none | one function per operation; reads and converts the answer | a server, the pages |
| Page of a test, `routes/test` | test, report, loading, error, an interval, counters | open, poll, check now, reanalyze, export, view raw, leave | API client |
| Other pages, `routes` | rows, offset, loading, creating, uploading, error, result | load, turn the page, refresh, create, upload, look up, filter | API client |
| Report and DNS components, `lib/components` | none: functions of a report | cards, badges, colours, advice, the sentence of the summary | a report from the page |

Hard behaviour, by origin (each at its line in `PROJECT.json`, "hazards"):

- *Interleaving.* A delivery checks for a report, analyzes for seconds, then
  inserts. A re-analysis reads a row, analyzes, then updates *by test id*. Cleanup,
  deliveries, uploads and other re-analyses run in between, without a lock.
- *Shared state.* One analyzer object serves all goroutines of a server; one component
  serves one test after the other in a browser.
- *Answers out of order.* A page polls, checks and reanalyzes at the same time; each answer
  comes when it comes, after the user has gone elsewhere, or not at all.
- *Failure.* A transaction with several recipients fails half-way; a statement
  fails; the process dies between storing and answering; the sender's answer is late
  and it sends again; the API refuses, or a gateway answers with a page.
- *Partial failure.* One of several DNS queries fails; a failure must not read as an absence.
- *Ordering and edges.* `created_at < cutoff`; a retention of 0 is "forever"; pages cut
  out of a list that grows.
- *Algorithms.* Averages and letters of a report, the SPF walk, the DMARC search,
  which Received hop is the inbound one.
- *The same judgement twice.* The interface decides colours, badges, actions and advice by
  rules of its own, next to the analyzer's scores.

What makes each part correct: a test has one report; that report belongs to the
test, is the analysis of its raw email and stays until it is too old; an accepted mail
is a stored report; a refused one has a reason; a report of a message speaks of that
message only; every caller gets an answer; a page that waits goes on asking, shows its own test
and does not load for ever; what it says of a report is what the report says.

## Modules

| Module | Models | Role |
|---|---|---|
| `ReportTable` | the statements of `storage.go` as operators on a set of rows | used by both modules below |
| `ReportService` | deliveries, uploads, re-analyses, reads, cleanup, time, crash and restart around the table | core |
| `ReportLifecycle` | abstract specification: what a test is promised, and for how long | refined by `ReportService` |
| `LmtpDelivery` | the mail server's queue, LMTP connections and the loop of `Session.Data` | receiver seen from the sender |
| `UnsubscribeAnalysis` | the shared fields of ContentAnalyzer and what is computed from them | analyzer concurrency |
| `SpfResolver` | the include and redirect traversal of `dns_spf.go`, and its score | DNS checks |
| `DmarcDiscovery` | the tree walk of `dns_dmarc.go`, and what the record found is worth | DNS checks |
| `BimiDiscovery` | `pkg/bimi`: which BIMI record applies to a sender, and whether it leads to a logo | DNS checks |
| `DnsAnalysis` | AnalyzeDomainOnly, CalculateDomainOnlyScore and AnalyzeBIMIOnly: the three above, MX and return path in sequence | composes the three |
| `DnsView` | `SpfRecordsDisplay`, `DmarcRecordDisplay`, `BimiRecordDisplay`: what the interface says of the records | extends `DnsAnalysis` |
| `Grades` | grade.go, Go's integer division and rounding | used by the modules below |
| `AuthenticationResults` | `authentication*.go`: whose verdict counts, Received-SPF, ARC, TLS, the score | part of `MessageReport` |
| `HeaderAnalysis` | `headers.go`, `received_inbound.go`: alignment, header score, the entry hop | part of `MessageReport` |
| `DnsLists` | `rbl.go`: CheckEmail, CheckIP, CalculateScore | part of `MessageReport` |
| `SpamFilters` | `spamheaders.go`, `spamassassin.go`, `rspamd.go` | part of `MessageReport` |
| `ContentScore` | CalculateContentScore of `content.go` | part of `MessageReport` |
| `MessageReport` | AnalyzeEmail, GenerateReport and CheckBlacklistIP: `report.go`, `analyzer.go` | composes the six |
| `ReportView` | the cards and the sentence the page of a report is made of | extends `MessageReport` |
| `NodeServer` | the handlers of `server.js` and its Maps | server of the pages |
| `TestPage` | `routes/test/[test]/+page.svelte` in a tab | composed with `NodeServer` |
| `ApiClient` | the generated client and `hey-api.ts`: which request is sent, what an answer becomes | used by `WebPages` |
| `WebPages` | front page, history, dashboard, the two lookups | composed with `NodeServer` and `ApiClient` |
| `ReportServiceProofs` | theorems about `ReportService`, and that it implements `ReportLifecycle` | proofs |
| `LmtpProofs` | theorems about `LmtpDelivery` | proofs |
| `UnsubscribeProofs` | theorems about `UnsubscribeAnalysis` | proofs |
| `DnsProofs` | theorems about `DnsAnalysis`, the modules under it and the cards of `DnsView` | proofs |
| `MessageProofs` | theorems about `MessageReport`, the modules under it and the cards of `ReportView` | proofs |
| `NodeServerProofs` | theorems about `NodeServer` | proofs |
| `TestPageProofs` | theorems about `TestPage` over the server | proofs |
| `WebPagesProofs` | theorems about `WebPages` over the server | proofs |
| `MC...` | instances for TLC | runs |

### ReportService

*State.* `reports` is the table. A row keeps test, raw email, report and age. A report
is abstracted to what the analysis was given: the mail and the provenance recorded
in its `source` field (received or uploaded). `calls[c]` is the ProcessEmailBytes call of
an LMTP goroutine, `requests[h]` the request of an HTTP goroutine, both with the local
variables they hold across the analysis. `up` says whether the process runs, `named`
which ids exist (so that `uuid.New` is fresh). `past`, `expired` and `seen` are history
variables; no guard of the code's actions reads them.

*Actions.* One per database statement, with the local work around it:

| Action | Code |
|---|---|
| Receive | extractTestID, ReportExists, the early return for an existing report |
| Store, FailStore | AnalyzeEmailBytes, CreateReport, the result of ProcessEmailBytes |
| CreateTest | the handler (it stores nothing) |
| UploadEml, StoreUpload | a fresh id and the analysis; CreateReport |
| ReanalyzeReport, StoreReanalysis | GetReport and reportSource; UpdateReport by test id |
| FailRequest | every error path of the two |
| ShowAnalyzed | GetTest, GetReport, GetRawEmail when there is a report |
| Cleanup, Restart | runCleanup from the ticker and from RunServer |
| Tick, Crash | time, the operating system |

`DatabaseFails` lets any statement fail for a reason of its own, with nothing written.
The id of an upload is in no address before its row is stored (`Secret`).
Ages above `Retention + 1` are not told apart, since the cleanup only asks whether an
age exceeds the retention.

### LmtpDelivery

Postfix and go-smtp are external and modelled from what `internal/lmtp` needs of
them: recipients of a mail stay in the queue until they are answered, one transaction of
a mail is open at a time and names the queued recipients in any order, the sender may stop waiting (it then keeps the
recipients while `Data` works on), go-smtp gives the one result of `Data` to every
recipient because `Session` implements no per-recipient status, and resets the session
afterwards. A mail beyond the size allowed (`Oversized`) is refused before the first recipient, by go-smtp or when
`Data` cannot read it (`ReadAll`); of a connection that breaks while it is read nothing is left. An address is mapped to a test id by `TestOf`, several spellings
to the same test. The row's age plays no part here. Bounds: `MaxFailures`,
`MaxTimeouts`, `MaxCrashes`.

### UnsubscribeAnalysis

Go writes a slice word by word; an unsynchronized reader may see the pointer of one
value and the length of another. `SetLength` and `SetArray` are those words, in either
order, and a reader past the end of the array finds `Garbage`. Links of the HTML part are visited one
step at a time because each visit fetches the link. Keyword lists, templates and URL
schemes are sets of URLs.

### SpfResolver, DmarcDiscovery, BimiDiscovery, DnsAnalysis

*SpfResolver.* `zone` says which SPF record each domain publishes. `resolveSPFRecords`
calls itself before it returns, so the calls still to make are a stack (`pending`) and
`records` grows in the order of a depth-first traversal; `asked` is the map of visited
domains. A call is one step with one outcome: too deep, visited, lookup failed, no record,
several records, one record (malformed or not). A record is abstracted to what
decides the traversal and the score: how many there are, whether a term is malformed,
the qualifier of `all`, the target of `redirect=`, the targets of `include:`.

*DmarcDiscovery.* A suffix of a domain is the number of its labels. One step is one
query of walkDNSForDMARC: a failure, a record, no record (with the jump of long
domains to their seven last labels), or the end of the loop. A record is its set
of tags; parsing, validation and score are operators on it.

*BimiDiscovery.* `bimiDNS` is what is published at the four names that may be asked: the selector
requested and the one derived from the sender, at the domain and at its organizational domain. `lookup`
is the query to come, and a step is one query with all that is done with its answer; `bimi` is the
Record. A TXT record is one of another kind (`other`) or a set of tags; the tag `lps=` is what it means for the
sender at hand (absent, every address, a list with or without it), a local-part is a class of
senders. `ValidateAssets` takes any outcome of the downloads and of the readers of SVG and
certificates that the tags allow.

*DnsAnalysis.* `request` is the analysis asked for. One stage after the other, as in AnalyzeDomainOnly;
AnalyzeBIMIOnly has the stages DMARC and BIMI, with a sender, and no score. MX and return path are
any of their outcomes. The BIMI verdict is given the DMARC record found before it
(`CheckDMARCEnforcement`). The weights, the clipping and the grade are those of
CalculateDomainOnlyScore.

### MessageReport and the modules under it

One goroutine analyses a message, so a behaviour is a sequence of stages; what varies is
the message. Each stage is the call AnalyzeEmail makes, in its order, and leaves what the
next ones read: the verdicts (`results`) decide the alignment of the headers, the hop
flagged as the entry decides whether reverse DNS weighs, and `categories` collects scores
and letters for GenerateReport. A category that did not run has the empty letter, as in
the code. The code computes the scores at the end; here each is computed with its stage,
of the same values.

*AuthenticationResults.* A field is an authserv-id and its methods; one step reads one
field. Names are compared as values (the code compares without case), an unreadable field
has no authserv-id. A domain is what it is to the domain of From: the same, of the same
organization, or another.

*DnsLists.* A lookup is listed, absent, an error or a code of trouble. CheckEmail asks one
list after the other and counts; CheckIP fills one slot per goroutine, in any order, and the
caller goes on when all have written (wg.Wait). The message's public addresses are a number,
since each is asked for alike.

*SpamFilters.* A header is a name, the filter whose mark its value bears, and the score,
threshold and verdict in it. Scores are in tenths: the code's float32 rounds alike on all
values of the runs. *ContentScore* takes the counts the criteria are over. The DNS findings
of the message are numbers here: `DnsAnalysis` is where SPF and DMARC get theirs.

### NodeServer

*State.* The three Maps, and the order of the keys of `tests` (`order`), which the listing
reverses. A report is kept as far as it depends on a request: the test it is filed under, the
sender it is about, its provenance, the upload whose header it repeats; all its verdicts are constants in the code. A
pending test has an age in seconds; past the 3.5 seconds of the code ages are not told apart. Of `created_at` the
order is kept (`created`): the seeds (`Seeds`) are stored the newest first, each with a date before the one stored before it,
and a test made later has a date not before any other, perhaps the same (`Moments`; the clock is not set back).
An uploaded file is the address in its From header, the parts it lacks being "none", or `EmptyFile`.

*Actions.* Express runs one handler at a time, so a handler is an action: CreateTest, UploadTest,
GetTest, GetReport, GetRaw, Reanalyze. Three of them write although they are reads: GetTest creates
an unknown test and completes one that has waited long enough, GetReport and GetRaw make up
what is not there, GetRaw also what is empty, which JavaScript takes for missing (`NoText`). `ListPage`, `PostDomain` and `PostBlacklist` answer from the state or from nothing.

### TestPage

One tab and its test page, over the Node server. `pg` is the state of the mounted component
(variables of the same names where the code has them; `timers` counts the running intervals, `held`
says whether the component still has the handle of the last one), `url` the test in the address,
`calls` the requests in flight. A call reaches the server (`Serve`), may be refused or lost
(`Disturb`), and its answer reaches the page (`TestAnswered`, `ReportAnswered`, `ReanalyzeAnswered`,
`CreateAnswered`) at moments of their own, in any order. `Second` is the clock of the page and of the
server: every running interval counts `nextfetch` down. The user opens a test, from a link or by
creating another one (then the component is reused, with what it has), leaves, checks now,
reanalyzes, views the raw mail, hides and shows the tab; `Elsewhere` is any other client.
Left out: the half second for which "fetching" outlasts an answer, and the intervals a reused
page leaks once the user has left it, which fetch for nobody.

### ApiClient and WebPages

`ApiClient` has no state: `Sent` is the request an operation makes, with the content type that
`mergeHeaders` leaves (an upload without one names its own), and `Outcome` is what the caller gets for
a response (data, an error, or an exception), with the body a stream that is read once.

`WebPages` is a tab on the front page, the history, the dashboard or a lookup: `route`, `arg`, the state
`ui` of the component and calls in flight as above, answered over `ApiClient`. A component that is
gone ignores its answers; a test created or a mail uploaded still leads to its page (`mine` tells
whether the page that asked is still there). The numbers, pills, filters and orders of the dashboard are
operators on its rows; its sort is stable and goes by `created` or by the score (`Ahead`). Texts, search and the choice between cards and table are left out.

### ReportView and DnsView

Functions of what `MessageReport` and `DnsAnalysis` have finished, hence checked in their runs on
every message and every zone: colours of the rows of AuthenticationCard, the sign over the alignment
lines, the TLS badge and the count of hops, the action of the rspamd card, the clauses of
buildSummary that judge, which data the cards take for missing; headers, banners and advice of the SPF,
DMARC and BIMI cards. What a card merely prints is left out.

## Runs

| Run | Shows | Instance |
|---|---|---|
| service_race | uniqueness, consistency, accepted means stored; every call ends, every report expires; refinement of `ReportLifecycle` | 1 test, 2 good mails and a bad one, 2 LMTP and 1 HTTP goroutine, retention 1, failing database |
| service_stale_reanalysis | *violation*: a re-analysis that outlives its row | 1 test, 2 mails |
| lmtp_delivery | acknowledged means reported, no mail reaches a stranger's test, bounces have a reason, every recipient is answered | 4 mails (several recipients; another spelling; unparsable; too big), 2 connections, one failure, one late answer, one crash |
| unsubscribe_shared | an analysis that runs alone is right whatever ran before; a link that names itself is always found | 5 messages, 2 goroutines |
| unsubscribe_race | *violation*: overlapping analyses exchange unsubscribe methods | 2 messages, 2 goroutines |
| dns_domain | the traversal of any zone overlooks nobody and scores where the redirects lead; the DMARC record is the nearest; the BIMI record is the governing one and its card tells one story; the cards agree with the scores; the analysis ends | 2372 scenarios: records of three domains naming each other, chains longer than the depth limit of 10, DMARC domains of 1 to 10 labels, all combinations of the tags the score reads; ten kinds of BIMI publication at the domain, as many at its parent and four at the sender's own selector |
| message_report | whose verdicts count and that none is taken back; the TLS fallback speaks of the flagged hop; filters keep their own scores; listings never pay; a body cut short is no failure; green means full points; path, action and sentence agree with the report | 5300 messages that differ from an ordinary one in one part: two or three Authentication-Results fields of two authorities, three hops, 860 sets of headers, three spam headers of 20 kinds, 430 bodies, DNS findings; block lists of 2, 4 and the default 14, one or two addresses |
| report_cards | *violation*: the cards are not given what they judge by | the same |
| test_page | a waiting page keeps polling; a page opened on its test shows that test's report, or an error, in the end; an analyzed test is filed, and the raw mail is the report's | 1 seeded test and a new one, a file without a sender and an empty one, 2 calls in flight, 2 navigations or other clients' requests, 1 fault, `nextfetch` 3 at first, a cooldown of 1 |
| test_page_reused | *violation*: a reused page shows the test before | the same |
| web_pages | no page loads for ever; paging is complete; the numbers of the dashboard are those of the rows its pills show | 2 seeded tests, the older one listed first, and two new ones, history pages of 1, 3 calls in flight, 3 clicks, 1 fault, names with and without a dot |
| api_refusal | *violation*: a refused lookup shows a TypeError | the same |

*Why the bounds are enough to be interesting.* Every race of the service involves a reader, a
writer that overtakes it and at most one cleanup, so two goroutines of a kind and one test
make them; a second test is needed only for mix-ups, which theorem `NoMixUp` excludes for any number.
A retention of 1 with ages 0 to
2 has a report that is young, at the limit and too old. Two connections and one
late answer are the shortest way to a delivery that races its own retry. The circles of an SPF
graph need at most three domains, exceeding the depth limit a chain of twelve; the DMARC
shortcut begins at eight labels, so domains of ten walk past it and into the query budget.
Precedence among fields shows with two fields, and a third for the topmost that cannot be read;
that a listing may cost nothing needs shares below ten points, hence more than ten lists. Two calls
in flight are a poll and one that overtakes it; two navigations are an opening and a reuse. The values
23 and 10 of `nextfetch` and of the cooldown only set how often things happen, and every order of them
and the answers is there with 3 and 1. Three tests in pages of one are first, middle and last page; a
turn of the page makes two calls, and a third may be older than both. Two seeds are enough to have dates that run against
the list, two new tests to have dates that run with it or are the same. The theorems remove the
bounds for the service, the delivery, the shared analyzer, the DNS checks and their cards, the message report and
its cards, the Node server and the safety of all pages.

*Fairness.* A goroutine inside a call goes on (Go's scheduler; every analysis has
timeouts), time passes, and a dead process is started again (`autorestart=true` in
`docker/supervisor/supervisord.conf`): weak fairness. The hourly cleanup is strongly
fair: it may be interrupted by crashes or fail again and again, but runs again at each
start and each hour, and the database does not fail for ever. The sender's queue is retried: weak fairness of a transaction for each mail.
A DNS analysis, of a domain or of a message, takes its next step: every lookup has a deadline of its own, after
which it has failed. The Node server handles what reached it, the browser delivers answers and fires intervals:
weak fairness of `Serve`, of `Answer` and of `Second`. A lost request ends in an answer of the network's.
Nothing is assumed of users and other clients.

## Findings

1. *A re-analysis writes over another mail's row* (`handlers.go:347`). UpdateReport
   matches only the test id. If the cleanup deletes the row during the analysis
   and a new mail arrives at the same address, the new row shows the report of the deleted
   mail; `ReportMatchesUnlessExpired` and its theorem show this is the only way, and
   `ConsistencyForever` that it cannot happen with retention 0.
2. *Unsubscribe methods of another message* (`content.go:170`): per-message fields on a
   shared analyzer.
3. *A reused page shows the report of another test* (`routes/test/[test]/+page.svelte:145`).
   testChange resets the test and not the report, the loading sign or the interval. Until the new test has
   an answer of its own, the page shows and exports the old report under the new name; a late
   answer about the old test does so afterwards and stops the polling.
4. *The message of a 400 is lost* (`hey-api.ts:14`). customFetch reads the body in search of an
   expired session; the client then reads it again and throws. A refused domain shows the text of
   a TypeError.
5. *The cards do not know the report* (`routes/test/[test]/+page.svelte:275`). The page passes neither
   authentication, spam and blacklists to ScoreCard nor source and authserv-id to
   AuthenticationCard: three grades show as N/A, and an uploaded message is explained as one received.

Further observations, which no text of the repository decides or which are plain to see.

Of the Go server:

- `Session.Data` returns at the first recipient that fails (`lmtp/server.go:100`), and go-smtp gives the
  one result to all: a good recipient bounces with a bad one.
- A retry of a mail still being analyzed is bounced although its report is stored
  (`receiver.go:81` and `:122`): the existing report is success for the check and an error for the index.
- A DMARC record without `p=` scores more than `p=none` (`dns_dmarc.go:268`): the parsed policy is
  "unknown", which costs nothing.
- A message without a Message-ID is a G, with further faults an H or I (`headers.go:138`); the
  schema's letters end with F.
- CheckBlacklistIP does not fill in RelevantListedCount (`analyzer.go:146`), so an address
  listed everywhere keeps 90 points: all listings look informational.
- Two informational lists are subtracted from the lists in use whether they are among them or
  not (`rbl.go:346`): with one or two configured lists no listing costs anything, and
  the letter is A+.
- A message with links that work and matching text has 95 points (A) whole, and 94 (B) when it is cut
  short (`content.go:1193`): the criteria left do not add up to the share they are taken for,
  as links give at most 20 of their 25 points.
- `X-Spam-Flag: YES` without any score leaves the spam category at 100 (`spamassassin.go:223`):
  the verdict does not enter the score, and the summary may say "well done" after "flagged as spam".
- BIMI of a message is always looked up under "default" (`dns.go:190`), whatever a BIMI-Selector header says.
- The worst valid DKIM key decides, where the comment says the best (`dns_dkim.go:209`).

Of the Node server:

- A pending test is listed with score 0, grade A and every verdict passed (`server.js:592`); an analyzed one
  with 94 points, while its report has 95.
- The letters of `/api/domain` are not those of the Go server.
- `/api/blacklist` answers `listedCount` (`server.js:778`); the page reads `listed_count` and shows every
  address as listed.
- A file beyond the limit of the upload ends in the error page of Express.
- `bimi_record` has no `record_valid` (`server.js:732`, `:825`), which the BIMI card takes for false: it shows a
  failure for a record the server calls valid.
- An empty file leaves an empty text in `rawEmails`, which `GET raw` takes for a missing one (`server.js:636`): it
  answers with the sample of another sender and keeps it, where `api/openapi.yaml:206` promises the "original email".
  `RawIsOfReport` names this as the only way a report loses its mail.
- `reanalyze` replaces report and raw mail by the sample (`server.js:647`), where `api/openapi.yaml:235` speaks of the
  "stored raw email".
- The seeds are listed the oldest first (`server.js:351`-`433`, reversed at `:603`): the front page and the history show
  them in that order, the dashboard sorts by date and shows them the other way round.

Of the interface:

- The create buttons of the front page and of the dashboard stay disabled after an error the API answered
  with (`routes/+page.svelte:29`, `dashboard/+page.svelte:73`): only an exception resets them.
- A turn of the page in the history asks twice.
- A late answer that still says "pending" may come after the report and after the one that stopped the polling: the
  page goes back to waiting, with the report in its state and nothing running, until the user checks
  (`routes/test/[test]/+page.svelte:220`). `ReportArrives` is about the report the page holds.
- A test created late takes the user to its page even after the page that asked was left.
- A lookup analyzes on mount only: a jump in the browser's history from one name to another keeps
  the first result.
- The alert of an old report advises to send another mail to the same address (`SummaryCard.svelte:660`),
  where the receiver accepts and drops it.
- The rspamd verdict plays no part in the summary; authentication without any verdict counts in the overall
  letter though the page says nothing reflects a problem; a green TLS or alignment sign may stand
  next to a letter capped for another reason.
- The BIMI card proposes to decline BIMI also when the lookup failed (`BimiRecordDisplay.svelte:513`), and by the
  plain `p=` where another tag governs the domain.
- In test mode the DMARC card compares `sp=` with the published policy, the score with the lowered one.
- Of SPF records that all redirect the score takes the last, the header of the card none.

## Proofs

Assumptions are the named ASSUMEs of the modules: unparsable mails are mails, the
retention is a natural number, envelopes are finite sets of addresses and mails that are too big are mails (`EnvelopeAssumption`), well-typed records
(`SpfAssumption`, `ScenarioAssumption`), messages and lists (`MessageAssumption`, `JobAssumption`, `ListAssumption`),
seeds that are distinct identifiers and uploads that are files, empty ones included (`ServerAssumption`), bounds that are numbers, and that nil
(`None`) is no value of the sets it is compared with (`AuthAssumption`, `FilterAssumption`, `HopAssumption`,
`ViewAssumption`), sizes of page that are positive (`SizesAssumption`), refusals that are no success
(`RefusalsAssumption`). All other sets are arbitrary.

*ReportService.* The invariants are not inductive alone. `IInv` adds:

- `FramesOK`: a goroutine in a call has the test and mail of the call;
- `RawsFromPast`: the raw email of a row was once accepted for that test;
- `PastIsPresent`: a test that had a report still has one unless it expired. It is what shows
  that an INSERT of a test that never expired is its first;
- `ReanalysisFromPast`: what a re-analysis in flight will write is a possible report of its test.
  Needed because the row it came from may be gone;
- `SeenHasPast`: a test seen analyzed had a report.

`TableStep` reduces every step to one of five effects on the table (first INSERT, UPDATE from
the test's own past, cleanup, tick, none); one lemma each shows that `TableInv` survives.
`ReanalysisStep` and `TypeStep` deal with the goroutines. All of `ReportServiceProofs`
follows: types, uniqueness, no mix-ups, consistency (also for ever with
retention 0), seen reports stay, and the action properties (raw email final, accepted means
stored, only old reports go, refusals have a reason). `Implementation` shows
that the INSERT is `Accept`, the UPDATE is `Refresh`, a tick is `Outlive`, the cleanup is `Expire`, and everything else
stutters. The abstract side knows which tests are young by the age alone, not by what the cleanup compares: a
report that expires at the retention age, or one renewed by a re-analysis, is no behaviour of it.

*LmtpProofs.* `DeliveryInv` joins the three properties to what makes them inductive. The one answer of a transaction
is true of every recipient still queued because the transaction names them all (`Covered`) and the loop has left
behind it only recipients whose test has a report (`SessionInv`). For the bounces a mail must not collide with
itself: as long as nobody gave up waiting, every open session has a sender waiting on it (`NobodyLate`),
one per mail (`OneTransaction`), so a report that appears between the look for one and the INSERT is another
mail's (`FreshTest`). A crash breaks none of them, a late answer breaks `NobodyLate`: that is why
it is among the reasons to bounce.

*UnsubscribeProofs.* `LinkInv` holds of any goroutine whatever the others write: every link is looked at, and
what was found stays found. `LoneInv` says what the fields hold while an analysis is alone, one
conjunct per step of it; what earlier analyses left is overwritten before it is read. `MethodsListed` shows what the
recursive `Methods` lists, by induction over the URLs.

*DnsProofs.* `WalkInv` says what the DMARC walk has missed so far and
ties the queries made to the labels dropped (the jump counts for one), which is why the budget
of eight is never the reason to stop early. `SpfInv` relates the stack to the report: whoever a followed
record names is reported or still on the stack, and whoever is on the stack was named; so
an empty stack leaves nobody out. `ChainInv` is about the head of the report: while it is made of redirects, one
domain at most waits for its turn, the target of the last one; so the place calculateSPFScore looks at is where they
lead (`RedirectsLead`). `ScoreInv` says that the score is the clipped sum of the
shares. `SpfScore`, `DmarcScore` and `Shares` bound the parts (an SPF share above 75
needs a closing `all`, a DMARC share above 90 needs `p=reject` in force), and give the bounds of
the sum. `DiscoveryInv` ties the next BIMI query to what the ones before found (the organizational
domain is asked only without a record of the domain's own, a sender's selector only by a usable record
that names it), from which `OwnRecord` follows whichever queries fail. `EnforcedInv` says that BIMI begins
when the DMARC record is final, so a verdict given on it stays true: `Displayable`.

The cards are functions of what was collected. `CollectedInv` (the report is empty only before the first
lookup) and `ShownIsScored` (the first record without a redirect is the one the score takes) give `SpfCard`; `DmarcCard`
is a comparison of two scales over a record of the walk; `BimiCard` needs `CardInv`, what the places visited held when
nothing is shown of them, and that the verdicts of a usable record are those of its files and of DMARC.

*MessageProofs.* `AnATakesFour` holds of any
verdicts: the lemmas bound what each method gives, and without one of the four 94 points are left.
`Verdicts` carries the types through the fields (`DkimListed` by induction over the methods of one), and
`AuthStep` shows of each step that it keeps what was found: `VerdictsStay`. `HopInv` says that of
the fields read each had its say or came after one that had (`Heard`), and that nobody else did (`Sourced`, until ARC
and the TLS fallback add verdicts of their own): `ClosestHop`.
`TLSInv` carries `TLSOfTheEntry` from stage to stage: until the fallback a TLS verdict was said by
a field that counts; at the fallback the flagged hop is the one InboundHopIndex found, which for a
message we received is the topmost. `PathInv` goes on from there to the badge. `NeverPays` needs `BlockInv`
(informational listings are part of
all listings) and `ShareGrows`, the monotony of the integer share for any number of lists, which
`OneMoreListing` puts together with the flat penalty. `TruncationIsNoFailure` compares the two
scales for any points, negative ones included.

`OwnScore` and `ActionShown` are about any list of headers: `CreditedHeader` says what the topmost one of a name and an
owner is, the rest is which of them is asked first. `Colours` compares rows and points method by method;
`AllGreen` puts them together, penalties included. `Praise` goes through the letter: `CardsInv` says what each category is at
each stage; none is above a hundred points (`Judgement`, one lemma for each category); and by `WellDone`, since an
A of the report takes a mean of 95 and letters next to A, every category that ran has an A or all its
points (`Pleased`). What each clause of the sentence says of a pleased category is then a matter of cases.

*NodeServerProofs.* `MapsKept` carries the types of the Maps. `ReportsFiled` adds that a report is filed under
its own test and that the mail beside it is the one it describes; what makes it inductive is that every
mail the server writes is complete (`Complete`), so reading it back gives the same sender and it is not taken for
missing (`CompleteIsThere`), while an uploaded file is stored as it is and described by what stands in for its missing
parts (`Fits`). An empty one is described by stand-ins only, and the sample takes its place at the first request for it. `AnalyzedFiled`
needs `NothingGoes`: no handler takes a report or a mail away. `KeysKept` says of the Map of tests what an array of its
values relies on: each key once, in the order they were first set, each test under its own, with dates that run with
that order among the tests made since the start and against it among the seeds (`Dated`). With it `EveryTestIsListed`
follows by arithmetic for all 100 sizes of page, where the run has lists of three tests and three sizes: the row `i` of
the page `k` is the row `k * limit + i` of the list (`PageRows`), and every row has such a place (`PlaceOf`). The order
is that of the Map, within one state: what is stored between two requests moves the rows.

*TestPageProofs.* Each step of the page is one of the server or leaves it alone (`PageIsAClient`), so the
server's theorems hold under the page (`ServerPromises`). The inductive `Inv` joins the Maps, the types
of page and calls, `CallsOK` (a call that is not orphaned is about the test in the address, unless the page was
reused, and its answer is about what it asked) and `PageOK` (a fresh page has one interval or
none, and one as long as it shows nothing). Answers may come late and in any order; `Waiting` and
`ShowsItsOwn` hold for any number of calls, navigations, faults and any waiting times. The numbers of the page are
bounded by what a page can leak (`Types`): a navigation leaves at most one interval running, so the intervals
and the one a creation in flight will start are no more than the navigations (`Counted`), and every fetch sets `nextfetch` to 3 or
more. The theorem says so up to three navigations: with a fourth leaked interval the counter may pass zero before the
fetch it starts is answered. The run makes two.

*WebPagesProofs.* Two arguments that meet in `NumbersOfTheRows`. One is about any rows (`RowsAgree`): the order of the list
is strict and total, so every rank belongs to one row (`Ranked`) and what a filter shows are the rows it selects, once each
(`Filtered`); the three pills divide the letters; a rate rounds to 100 for nothing less than all, which holds below
200 rows and the list never gives more than 100 (`WholeRate`); the average is within half a point of the sum
over the number (`AverageBetween`). The other is about the tab (`Tab`): the rows shown are rows the server listed, whichever
answer brought them, since a page that is left takes its loading with it (`Left`, `MountedTab`) and a call in flight is what the open page loads
with or a creation or an upload (`Belongs`). What the date order shows takes more: the rows of an answer keep the dates the Map
had (`RowsDated`), so those ahead of a row made since the start are the rows above it, and those ahead of a seed
the rows made and the seeds below it (`AheadByDate`); counting them gives each row its place (`ShownByDate`). The same invariant gives `SpinnersWait`: whatever turns has a call of
the open page in flight, which is the safety half of `LoadingEnds`. It needs two slots for a turned page, because
`goToPage` asks twice. `PagesAreClients` carries the server's theorems to the pages (`ServerBehindPages`).

*What was corrected.* Properties that held in the runs and were not what they seemed, each because the
instance had no state that told the difference:

- `ScoredWhereRedirectsLead` is false where a record of the chain redirects to nothing: its includes follow it in the report.
  It now says so; the first records of the run name more includes.
- `PraiseIsEarned` was false of a header that calls a message spam and gives it 1 tenth of a point against a threshold of 150:
  the score rounds to 100, and "well done" comes after "flagged as spam". The run has this header now, and the property the exact condition.
- `FiltersAgree` took the order of the list for that of the dates, and `RawIsOfReport` only held without empty uploads: the
  seeds of the run are stored newest first now, and its files include an empty one.
- `ClosestHopSpeaks` only spoke of fields that were read; it now also says that no verdict comes from anywhere else.

What is proved and not repeated in a run: `ReportOfAcceptedMail`, `SeenStaysAnalyzed`, `KeptForever`,
`RawEmailIsFinal`, `OnlyOldReportsGo`, `RefusalHasAReason`, `IInv`, `AskedOnce`, `NamedByEarlier`,
`FullScoreNeedsEveryCheck`, `PublishingDMARCNeverCosts`, `GradeANeedsTheFour`, `ValidMeansEnforced`, the types of
`DnsAnalysis`, of the verdicts and of the shared analyzer, and `SpinnersHaveCalls`. `RecordIsGoverning` is also a part of `BimiCardAgrees`.

Only model-checked:

- liveness under fairness (`CallsEnd`, `ReportsExpire`, `EveryRecipientAnswered`, `AnalysisEnds`, `ReportArrives`,
  `LoadingEnds`), which TLAPS does not handle here, nor ENABLED;
- the properties of the runs that end in a violation.

The provers here cannot instantiate a theorem over an operator, such as the induction theorems of the library.
`SetInduction` has induction for a set of numbers instead, from the existence of minimal elements (`Least`), and `Trace` the
values of a loop; what a recursive function computes is shown by them. The sum of the scores is the number of the points
(`Points`) and the sorted list is made from ranks, so that neither needs an induction.

## Not modelled

- *Build output*, `web/.svelte-kit/output` (some 23500 lines): the compiled pages with the bundled runtime
  of Svelte and SvelteKit. It is generated from the sources the modules model; a model of it would be one of
  a third party's framework. Of the framework the modules have what the pages rely on: a component is reused when only
  the parameter changes, effects run again when what they read changes, a page that is left is destroyed.
- *Types*, `types.gen.ts` and the other generated files without behaviour, and the parts of the generated
  client the pages never call (server-sent events, authentication, serialisers of paths and arrays).
- *Backup and restore*, a command over the table while the server is down; *configuration*, whose results are
  constants here; the *command line analyzer*; *packaging*.
- *Formats*: MIME, SVG, certificates, the characters of Authentication-Results and Received fields, identifiers and
  addresses. The models ask only what was found.
- *Texts and layout* of pages and reports; cards that print a report as it is; the theme, the survey, the logo.
- *BIMI* assets: the SVG profile, the chain and the logotype of a certificate, and the downloads are outcomes of
  their checks; the selector derived from a local-part is a name.
- *DNS findings of a message* are numbers out of a hundred: AnalyzeDNS needs the resolver's answers to be modelled
  once more per sender domain. So is the score of
  an SPF list whose main record comes from an empty `redirect=`, of which no text says what it means.
- *The listing of the Go server* (ListReportSummaries): its two statements may disagree by what was stored in between, and
  nothing says they may not; the listing of the Node server is modelled.

---------------------------- MODULE MessageReport ----------------------------
(***************************************************************************)
(* pkg/analyzer/report.go: how a message becomes a report.  One goroutine  *)
(* runs all analyzers in order (AnalyzeEmail), handing the findings of one *)
(* to the next, then weighs what they found (GenerateReport).  The same    *)
(* block lists are asked by the API about an address alone                 *)
(* (CheckBlacklistIP), with as many goroutines as there are lists.         *)
(***************************************************************************)
EXTENDS AuthenticationResults, HeaderAnalysis, DnsLists, SpamFilters, ContentScore

CONSTANTS
  Analyses,   \* messages, each with the configuration it is analysed under
  Checks      \* block lists an address is checked against

\* What dns*.go found of the domains of a message, each check out of a hundred;
\* lost: how many of them receive nothing; bimi: a valid record.
Findings ==
  [mx : 0..100, spf : 0..100, dkim : 0..100, dmarc : 0..100, ptr : 0..100,
   lost : 0..2, bimi : BOOLEAN]

Configuration ==
  [receiver : Hosts \cup {None}, rbls : Seq(Lists) \ {<< >>}, checkAllIPs : BOOLEAN]

Message ==
  [source : {"received", "uploaded"}, fields : Seq(Field), legacy : Seq(ReceivedSPF),
   arcSets : [seal : Seq(Nat), signature : Seq(Nat), results : Seq(Nat)],
   headers : Headers, chain : Seq(Hop), ips : Nat, spam : Seq(SpamHeader),
   content : Content, dns : Findings]

ASSUME JobAssumption ==
  /\ Analyses \subseteq [message : Message, config : Configuration]
  /\ Checks \subseteq Seq(Lists) \ {<< >>}

Category == {"dns", "authentication", "blacklist", "content", "header", "spam"}
Stage == {"fields", "headers", "hop", "tls", "dns", "blocklists", "allowlists", "spam",
          "content", "report", "lookup", "done"}

VARIABLES
  job,          \* the message and the configuration, None for a check of an address
  stage,        \* what AnalyzeEmail and GenerateReport do next
  inbound,      \* the hop flagged as the entry, 0 for none
  categories,   \* score and grade of each category, None before it is known
  answer        \* the report, or the answer about the address

reportVars == <<job, stage, inbound, categories, answer>>
vars == <<authVars, listVars, reportVars>>

message == job.message

Verdictless == [c \in Category |-> None]
Quiet == [fields |-> << >>, legacy |-> << >>,
          arcSets |-> [seal |-> << >>, signature |-> << >>, results |-> << >>]]

Init ==
  /\ inbound = 0 /\ categories = Verdictless /\ answer = None
  /\ \/ \E a \in Analyses :
          /\ job = a /\ stage = "fields"
          /\ AuthInit(a.config.receiver, a.message.source, a.message)
          /\ ListInit(a.config.rbls, a.message.ips)
     \/ \E lists \in Checks :
          /\ job = None /\ stage = "lookup"
          /\ AuthInit(None, "received", Quiet)
          /\ ListInit(lists, 0)

Record(c, found) == categories' = [categories EXCEPT ![c] = found]
Graded(s) == [score |-> s, grade |-> Of(s)]
Then(next) == stage' = next /\ UNCHANGED job

AnalyzeAuthentication ==
  /\ stage = "fields"
  /\ \/ ReadField /\ Then("fields")
     \/ FinishAuthentication /\ Then("headers")
  /\ UNCHANGED <<listVars, inbound, categories, answer>>

\* The domains of the signatures that were reported, whatever their verdict.
DkimDomains == {results.dkim[k].domain : k \in DOMAIN results.dkim} \ {None}

GenerateHeaderAnalysis ==
  /\ stage = "headers" /\ Then("hop")
  /\ Record("header", [score |-> HeaderScore(message.headers, DkimDomains),
                       grade |-> HeaderGrade(message.headers, DkimDomains)])
  /\ UNCHANGED <<authVars, listVars, inbound, answer>>

FlagInboundHop ==
  /\ stage = "hop" /\ Then("tls")
  /\ inbound' = InboundHopIndex(message.chain, message.source)
  /\ UNCHANGED <<authVars, listVars, categories, answer>>

\* The topmost hop of a message the user brought is not our connection.
\* Mutant: any message.
ReconcileAlways(source) == source \in {"received", "uploaded"}
Reconciles(source) == source = "received"
FallBackOnHops ==
  /\ stage = "tls" /\ Then("dns")
  /\ IF Reconciles(message.source) THEN ReconcileXTLS(message.chain) ELSE UNCHANGED authVars
  /\ UNCHANGED <<listVars, inbound, categories, answer>>

\* dns.go:81, 111: without a domain in From, only the hop is looked at.  The hop
\* counts when it has an address.
NothingFound(ptr) ==
  [mx |-> 0, spf |-> 0, dkim |-> 0, dmarc |-> 0, ptr |-> ptr, lost |-> 0, bimi |-> FALSE]
Found(m) == IF m.headers.from \in {"plain", "noreply"} THEN m.dns ELSE NothingFound(m.dns.ptr)
SenderIP(m, hop) == hop # 0 /\ m.chain[hop].ip # None

CalculateDNSScore(f, fromHop) ==
  LET four == f.mx + f.spf + f.dkim + f.dmarc
      s    == (IF fromHop THEN (20 * (four + f.ptr)) \div 100 ELSE (20 * four) \div 80)
                - 10 * f.lost
  IN  IF f.bimi /\ s >= 100 THEN [score |-> 100, grade |-> "A+"]
      ELSE [score |-> Within(s), grade |-> Of(Within(s))]

AnalyzeDNS ==
  /\ stage = "dns" /\ Then("blocklists")
  /\ Record("dns", CalculateDNSScore(Found(message), SenderIP(message, inbound)))
  /\ UNCHANGED <<authVars, listVars, inbound, answer>>

CheckBlockLists ==
  /\ stage = "blocklists"
  /\ \/ AskBlockList(job.config.checkAllIPs) /\ Then("blocklists")
     \/ Asked(block) /\ UNCHANGED listVars /\ Then("allowlists")
  /\ UNCHANGED <<authVars, inbound, categories, answer>>

CheckAllowLists ==
  /\ stage = "allowlists"
  /\ \/ AskAllowList(job.config.checkAllIPs) /\ Then("allowlists") /\ UNCHANGED categories
     \/ /\ Asked(allow) /\ UNCHANGED listVars /\ Then("spam")
        /\ Record("blacklist",
             [BlacklistScore EXCEPT !.grade = MinGrade(@, WhitelistGrade(allow.listed))])
  /\ UNCHANGED <<authVars, inbound, answer>>

AnalyzeSpam ==
  /\ stage = "spam" /\ Then("content")
  /\ Record("spam", SpamCategory(CalculateSpamAssassinScore(AnalyzeSpamAssassin(message.spam)),
                                 CalculateRspamdScore(AnalyzeRspamd(message.spam))))
  /\ UNCHANGED <<authVars, listVars, inbound, answer>>

AnalyzeContent ==
  /\ stage = "content" /\ Then("report")
  /\ categories' = [categories EXCEPT
       !["content"]        = Graded(CalculateContentScore(message.content)),
       !["authentication"] = Graded(CalculateAuthenticationScore(results))]
  /\ UNCHANGED <<authVars, listVars, inbound, answer>>

(* GenerateReport: a category that did not run has no grade and no weight.   *)
Ran(cs) == {c \in Category : cs[c].grade # NotRun}
Counted(cs, c) == IF c \in Ran(cs) THEN cs[c].score ELSE 0
Total(cs) ==
  Counted(cs, "dns") + Counted(cs, "authentication") + Counted(cs, "blacklist")
    + Counted(cs, "content") + Counted(cs, "header") + Counted(cs, "spam")

Mean(cs) == IF Ran(cs) = {} THEN 0 ELSE Total(cs) \div Cardinality(Ran(cs))

\* Below a hundred, the worst letter of all is the letter of the report.
Letter(cs) ==
  LET distances == {Distance(cs[c].grade) : c \in Ran(cs)} IN
  IF Mean(cs) >= 100
    THEN IF distances \subseteq {0} THEN "A+" ELSE Of(Mean(cs))
    ELSE LetterOf(IF distances = {} THEN 0 ELSE Max(distances))

GenerateReport ==
  /\ stage = "report" /\ Then("done")
  /\ answer' = [score |-> Mean(categories), grade |-> Letter(categories)]
  /\ UNCHANGED <<authVars, listVars, inbound, categories>>

(* CheckBlacklistIP: the goroutines, and the caller behind wg.Wait.  The    *)
(* allow lists are asked after that, and change nothing but what is shown.   *)
LookUp ==
  /\ stage = "lookup" /\ Then("lookup")
  /\ \E i \in DOMAIN slots : AnswerSlot(i)
  /\ UNCHANGED <<authVars, inbound, categories, answer>>

CheckBlacklistIP ==
  /\ stage = "lookup" /\ AllAnswered /\ Then("done")
  /\ answer' = [listed |-> Cardinality(ListedSlots)] @@ CheckBlacklistIPScore
  /\ UNCHANGED <<authVars, listVars, inbound, categories>>

Next ==
  \/ AnalyzeAuthentication
  \/ GenerateHeaderAnalysis
  \/ FlagInboundHop
  \/ FallBackOnHops
  \/ AnalyzeDNS
  \/ CheckBlockLists
  \/ CheckAllowLists
  \/ AnalyzeSpam
  \/ AnalyzeContent
  \/ GenerateReport
  \/ LookUp
  \/ CheckBlacklistIP

Spec == Init /\ [][Next]_vars

\* Every lookup has a timeout, and no analyzer waits for anything else.
FairSpec == Spec /\ WF_vars(Next)

-----------------------------------------------------------------------------
CategoryResult == [score : Int, grade : {NotRun, "A++", "A+"} \cup Range(Letters)]

\* The variables keep the types of the Go values they stand for; in particular
\* the hop flagged as the entry is one of the chain.
TypeOK ==
  /\ AuthTypeOK
  /\ ListTypeOK
  /\ stage \in Stage
  /\ IF job = None THEN stage \in {"lookup", "done"}
     ELSE ips = message.ips /\ rbls = job.config.rbls /\ fields = message.fields
  /\ inbound \in 0..(IF job = None THEN 0 ELSE Len(message.chain))
  /\ categories \in [Category -> CategoryResult \cup {None}]

\* report.go:140-163: the fallback reads the topmost hop, the DNS analysis the
\* hop flagged as the entry.  A verdict on the encryption that no field gave is
\* about the very connection the report shows as the entry.
TLSIsOfTheEntry ==
  LET said == \E k \in DOMAIN fields :
        Trusted(fields[k]) /\ FirstResult(fields[k], "x-tls") # None
  IN  (results.first["x-tls"] # None /\ ~said) =>
        /\ inbound # 0
        /\ results.first["x-tls"] = ReconciledTLS(<<message.chain[inbound]>>)

\* spamheaders.go:50-120: a score a filter signed is the score it is given, even
\* when the other filter writes its own into the fields both use.
ScoreIsOwn ==
  job # None =>
    LET hs       == message.spam
        Signed(scanner) == {k \in DOMAIN hs : hs[k].name = "status" /\ hs[k].signer = scanner}
        topmost  == Topmost(Signed("spamassassin"))
        assassin == AnalyzeSpamAssassin(hs)
        rspamd   == AnalyzeRspamd(hs)
        own      == Named(hs, "rspamd-score")
        Above(k) == {j \in 1..(k - 1) : hs[j].name = "status" /\ hs[j].signer = None}
    IN  /\ (Signed("spamassassin") # {} /\ Above(topmost) = {} /\ hs[topmost].score # None) =>
             assassin # None /\ assassin.score = hs[topmost].score
        /\ (own # {} /\ hs[Topmost(own)].score # None) =>
             rspamd # None /\ rspamd.score = hs[Topmost(own)].score

\* No listing ever pays: with each answer the score goes down or stays, whether
\* the informational lists answer before or after the others.
ListingNeverPays ==
  [][BlacklistScore'.score <= BlacklistScore.score]_block

\* content.go:1122-1125, "a body cut short on its way does not cost the sender a
\* grade": it is never worth less than the same findings in a whole body whose
\* text does not match.
TruncatedBodyIsNotAFailure ==
  job # None =>
    LET c == message.content IN
      CalculateContentScore([c EXCEPT !.truncated = TRUE]) >=
        CalculateContentScore([c EXCEPT !.truncated = FALSE, !.consistent = FALSE])

Reported == job # None /\ answer # None

=============================================================================

--------------------------- MODULE MCMessageReport ---------------------------
(***************************************************************************)
(* Messages that differ from an ordinary one in one part, so that all      *)
(* shapes of that part are seen with the rest of the analysis around it.   *)
(***************************************************************************)
EXTENDS ReportView

CONSTANTS us, other

Verb(name, result) == [name |-> name, result |-> result, identity |-> None, domain |-> None]
Spf(result, identity) == [Verb("spf", result) EXCEPT !.identity = identity]
Dkim(result, domain) == [Verb("dkim", result) EXCEPT !.domain = domain]
By(host, methods) == [host |-> host, methods |-> methods]

\* Verdicts for a full score, and one of each method less.
AllPass ==
  <<Spf("pass", "mailfrom"), Dkim("pass", "same"), Verb("dmarc", "pass"), Verb("bimi", "pass")>>
Ours == By(us, AllPass)

Ordinary ==
  [source |-> "received", fields |-> <<Ours>>, legacy |-> << >>,
   arcSets |-> [seal |-> << >>, signature |-> << >>, results |-> << >>],
   headers |-> [from |-> "plain", date |-> TRUE, messageID |-> "valid", to |-> TRUE,
                subject |-> TRUE, replyTo |-> FALSE, mimeVersion |-> "1.0",
                returnPath |-> "same", parts |-> TRUE],
   chain |-> <<[ip |-> "internal", tls |-> TRUE, with |-> "ESMTPS"]>>, ips |-> 0,
   spam |-> << >>,
   content |-> [htmlValid |-> TRUE, multipart |-> TRUE, plaintext |-> TRUE,
                truncated |-> FALSE, consistent |-> TRUE, ratio |-> "low", links |-> 0,
                broken |-> 0, suspicious |-> 0, harmful |-> 0, images |-> 0, undescribed |-> 0],
   dns |-> [mx |-> 100, spf |-> 100, dkim |-> 100, dmarc |-> 100, ptr |-> 100,
            lost |-> 0, bimi |-> TRUE]]

Hosted(host) == {By(host, ms) : ms \in
  {<<Spf("fail", "mailfrom")>>, <<Spf("pass", None)>>, <<Spf("fail", "helo"), Spf("pass", "mailfrom")>>,
   <<Spf("neutral", None), Spf("pass", "mailfrom"), Spf("softfail", "helo")>>,
   <<Dkim("fail", "other"), Dkim("pass", "org"), Verb("x-tls", "none")>>,
   <<Verb("dmarc", "pass"), Verb("iprev", "fail"), Verb("dmarc", "fail")>>, AllPass}}
AnyHosted == Hosted(us) \cup Hosted(other) \cup {By(None, << >>)}
Old(receiver, identity, from) ==
  [receiver |-> receiver, result |-> "fail", identity |-> identity, from |-> from]
Older == {<< >>, <<Old(other, "mailfrom", TRUE), Old(us, "helo", TRUE), Old(None, None, FALSE)>>,
          <<Old(None, "pra", TRUE), Old(us, None, TRUE)>>}
Arcs == {[seal |-> s, signature |-> g, results |-> g] :
           s \in {<< >>, <<1, 2>>}, g \in {<< >>, <<1>>, <<2, 1>>, <<0, 1>>}}

\* Two fields of ours or of others, and a third to tell three from two.
Authenticated ==
  {[Ordinary EXCEPT !.source = s, !.fields = <<f, g>>, !.legacy = l] :
     s \in {"received", "uploaded"}, f \in AnyHosted, g \in AnyHosted, l \in Older}
    \cup {[Ordinary EXCEPT !.source = "uploaded", !.fields = <<By(None, << >>), f, g>>] :
            f \in Hosted(us), g \in AnyHosted}
    \cup {[Ordinary EXCEPT !.fields = << >>, !.arcSets = a] : a \in Arcs}
    \* every verdict on the four methods, and the penalties
    \cup {[Ordinary EXCEPT !.fields = <<By(us, ms)>>] : ms \in
            {<<Spf(r, "mailfrom"), Dkim(d, "same"), Verb("dmarc", m), Verb("bimi", b)>> :
               r \in {"pass", "neutral", "softfail"}, d \in {"pass", "fail"},
               m \in {"pass", "none", "fail"}, b \in {"pass", "declined", "fail"}}
            \cup {<<Verb("bimi", "pass"), Spf("fail", "helo"), Verb("x-tls", "fail"),
                    Verb("x-google-dkim", "fail"), Verb("x-aligned-from", "fail")>>}}

Shapes ==
  [from : {"plain", "noreply", "text", None}, date : BOOLEAN,
   messageID : {"valid", "invalid", None}, to : BOOLEAN, subject : {TRUE}, replyTo : {FALSE},
   mimeVersion : {"1.0", "other", None}, returnPath : {"same", "other", None}, parts : BOOLEAN]
Bare == [date |-> FALSE, messageID |-> None, to |-> FALSE, subject |-> FALSE,
         replyTo |-> FALSE, mimeVersion |-> "other", returnPath |-> None, parts |-> FALSE]
Headered ==
  {[Ordinary EXCEPT !.headers = h] : h \in Shapes}
    \cup {[Ordinary EXCEPT !.fields = << >>, !.headers = [from |-> f] @@ Bare] :
            f \in {"plain", "text", None}}

Hops == {[ip |-> i, tls |-> t, with |-> w] :
           i \in {"public", "internal", None}, t \in BOOLEAN, w \in {"ESMTP", "LMTPS", None}}
Relayed ==
  {[Ordinary EXCEPT !.source = s, !.chain = c] :
     s \in {"received", "uploaded"},
     c \in {<< >>} \cup {<<h>> : h \in {e \in Hops : e.ip # "public"}}}
    \cup {[Ordinary EXCEPT !.source = s, !.ips = 1, !.chain = <<h, g, k>>] :
     s \in {"received", "uploaded"}, h \in Hops, g \in Hops, k \in {e \in Hops : e.ip = "public" /\ ~e.tls /\ e.with = "ESMTP"}}

Stamp(name, signer, score, required, spam) ==
  [name |-> name, signer |-> signer, score |-> score, required |-> required, spam |-> spam]
Stamps ==
  {Stamp("status", s, IF s = None THEN None ELSE sc, 50, sc # None /\ sc >= 50) :
     s \in {"spamassassin", "rspamd", None}, sc \in {-10, 30, 80}}
    \cup {Stamp("score", None, sc, None, None) : sc \in {-20, 70, 200}}
    \cup {Stamp("flag", None, None, None, TRUE), Stamp("x-spam", None, None, None, TRUE),
          Stamp("rspamd-score", None, 150, None, None), Stamp("rspamd-score", None, 20, None, None),
          Stamp("status", "spamassassin", 1, 150, TRUE)}
    \cup {Stamp("spamd-result", None, sc, r, sc # None) : sc \in {-5, 160, None}, r \in {0, 150}}
Filtered ==
  {[Ordinary EXCEPT !.spam = hs] : hs \in {<<a>> : a \in Stamps}
     \cup {<<a, b>> : a \in Stamps, b \in Stamps}
     \cup {<<a, b, c>> : a \in {x \in Stamps : x.name = "status"},
             b \in {x \in Stamps : x.name = "score"}, c \in Stamps}}

Written ==
  {[Ordinary EXCEPT !.content =
      [@ EXCEPT !.truncated = t, !.plaintext = p, !.consistent = o, !.ratio = r, !.links = l[1],
                !.broken = l[2], !.suspicious = n, !.harmful = n \div 3, !.images = i,
                !.undescribed = i]] :
     t \in BOOLEAN, p \in BOOLEAN, o \in BOOLEAN, r \in {"low", "middle", "high"},
     l \in {<<0, 0>>, <<3, 1>>, <<31, 31>>}, n \in {0, 2, 9}, i \in {0, 2}}

Resolved ==
  {[Ordinary EXCEPT !.source = "uploaded", !.dns = d, !.chain = c] :
     d \in [mx : {0, 100}, spf : {60, 100}, dkim : {25, 100}, dmarc : {100}, ptr : {0, 100},
            lost : 0..2, bimi : BOOLEAN],
     c \in {<< >>, Ordinary.chain}}

\* The lists: the fourteen of the defaults, of which two are informational, and
\* shorter ones an administrator may give.
MCInformational == {"i1", "i2"}
Defaults ==
  <<"l1", "l2", "l3", "l4", "l5", "l6", "i1", "i2", "l7", "l8", "l9", "l10", "l11", "l12">>
Short == <<"l1", "i1", "l2", "i2">>
Pair  == <<"l1", "l2">>
MCDNSWLs == <<"w1", "w2">>
MCLists == Range(Defaults) \cup Range(MCDNSWLs)

With(lists, all) == [receiver |-> us, rbls |-> lists, checkAllIPs |-> all]
AnyReceiver == [With(Pair, FALSE) EXCEPT !.receiver = None]
Listable ==
  {[message |-> [Ordinary EXCEPT !.ips = n, !.chain[1].ip = "public"], config |-> With(lists, all)] :
     n \in {1, 2}, lists \in {Defaults, Short, Pair}, all \in BOOLEAN}

MCAnalyses ==
  {[message |-> m, config |-> With(Pair, FALSE)] :
     m \in Authenticated \cup Headered \cup Relayed \cup Filtered \cup Written \cup Resolved}
    \cup {[message |-> m, config |-> AnyReceiver] :
            m \in {a \in Authenticated : a.source = "received" /\ Len(a.fields) = 2}}
    \cup Listable

MCChecks == {Short, Pair, <<"l1">>}
================================================================================

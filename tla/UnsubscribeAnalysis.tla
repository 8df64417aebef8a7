------------------------- MODULE UnsubscribeAnalysis -------------------------
(***************************************************************************)
(* How pkg/analyzer/content.go finds the unsubscribe methods of a message. *)
(*                                                                         *)
(* AnalyzeContent leaves the List-Unsubscribe URLs and the one-click flag  *)
(* of its message in two fields of the ContentAnalyzer; the traversal of   *)
(* the HTML part (which fetches every link) and GenerateContentAnalysis    *)
(* read them back later.  One ContentAnalyzer serves all LMTP sessions and *)
(* another one all HTTP requests, each in a goroutine of its own and       *)
(* without a lock.                                                         *)
(*                                                                         *)
(* A slice is written as its array and its length, one after the other;    *)
(* a reader in between sees the array of one message with the length of    *)
(* another, and whatever lies behind the array's end.                      *)
(***************************************************************************)
EXTENDS Naturals, Sequences

CONSTANTS
  URLs,       \* the URLs of headers and links
  Mailto,     \* URLs with the scheme mailto:
  Web,        \* URLs with the scheme http: or https:
  Keyword,    \* URLs that read like an unsubscribe link (unsubscribe, opt-out...)
  Template,   \* URLs with a placeholder nobody replaced
  Garbage,    \* memory that is no URL of any message
  Messages,
  Header,     \* Header[m]: the URLs of List-Unsubscribe, in order
  OneClick,   \* messages with List-Unsubscribe-Post: List-Unsubscribe=One-Click
  Anchors,    \* Anchors[m]: the hrefs of the HTML part, in order
  Jobs,       \* goroutines in AnalyzeEmailBytes of the same analyzer
  None

ASSUME MessageAssumption ==
  /\ Header \in [Messages -> Seq(URLs)]
  /\ Anchors \in [Messages -> Seq(URLs)]
  /\ OneClick \subseteq Messages
  /\ Mailto \subseteq URLs /\ Web \subseteq URLs
  /\ Keyword \subseteq URLs /\ Template \subseteq URLs
  /\ Garbage \notin URLs
  /\ None \notin Messages

VARIABLES
  array,      \* whose URLs listUnsubscribeURLs points at
  length,     \* its length
  oneClick,   \* hasOneClickUnsubscribe
  job         \* job[j]: the analysis goroutine j is in

shared == <<array, length, oneClick>>
vars   == <<array, length, oneClick, job>>

Method == {"link", "mailto", "list-unsubscribe-header", "one-click"}
Step   == {"idle", "set", "sized", "pointed", "links", "methods", "flag", "done"}
Idle   == [at |-> "idle", message |-> None, link |-> 1, found |-> FALSE, methods |-> << >>,
           alone |-> TRUE]    \* history: did no other analysis overlap with it?

JobState ==
  [at : Step, message : Messages \cup {None}, link : Nat \ {0}, found : BOOLEAN,
   methods : Seq(Method), alone : BOOLEAN]

TypeOK ==
  /\ array \in Messages \cup {None}
  /\ length \in Nat
  /\ oneClick \in BOOLEAN
  /\ job \in [Jobs -> JobState]

\* The zero ContentAnalyzer: a nil slice and no flag.
Init ==
  /\ array = None
  /\ length = 0
  /\ oneClick = FALSE
  /\ job = [j \in Jobs |-> Idle]

At(j, step)   == job[j].at = step
Goto(j, step) == job' = [job EXCEPT ![j].at = step]

\* What a reader finds in listUnsubscribeURLs.
ListURLs ==
  [i \in 1 .. length |->
     IF array # None /\ i =< Len(Header[array]) THEN Header[array][i] ELSE Garbage]

Holds(urls, url) == \E i \in DOMAIN urls : urls[i] = url

-----------------------------------------------------------------------------
(* AnalyzeContent                                                          *)

Busy == {j \in Jobs : job[j].at \notin {"idle", "done"}}

Start(j, m) ==
  /\ j \notin Busy
  /\ job' = [i \in Jobs |->
       IF i = j THEN [Idle EXCEPT !.at = "set", !.message = m, !.alone = Busy = {}]
       ELSE IF i \in Busy THEN [job[i] EXCEPT !.alone = FALSE]
       ELSE job[i]]
  /\ UNCHANGED shared

\* c.listUnsubscribeURLs = ...: the two halves of the slice, in either order.
SetLength(j) ==
  /\ job[j].at \in {"set", "pointed"}
  /\ length' = Len(Header[job[j].message])
  /\ Goto(j, IF At(j, "set") THEN "sized" ELSE "flag")
  /\ UNCHANGED <<array, oneClick>>

SetArray(j) ==
  /\ job[j].at \in {"set", "sized"}
  /\ array' = job[j].message
  /\ Goto(j, IF At(j, "set") THEN "pointed" ELSE "flag")
  /\ UNCHANGED <<length, oneClick>>

\* c.hasOneClickUnsubscribe = ...
\* Mutant: the flag is only ever raised.
RaisedFlag(m) == oneClick \/ m \in OneClick
Flag(m) == m \in OneClick

SetFlag(j) ==
  /\ At(j, "flag")
  /\ oneClick' = Flag(job[j].message)
  /\ Goto(j, "links")
  /\ UNCHANGED <<array, length>>

\* isUnsubscribeLink, with the list the header is believed to hold.
\* Mutant: a header, when there is one, replaces the keywords.
HeaderBeforeKeyword(urls, href) ==
  href \notin Template /\ IF urls = << >> THEN href \in Keyword ELSE Holds(urls, href)
IsUnsubscribeLink(urls, href) ==
  href \notin Template /\ (Holds(urls, href) \/ href \in Keyword)

\* traverseHTML meets the next <a href>, looks at it and fetches it.
NextLink(j) ==
  LET anchors == Anchors[job[j].message] IN
  /\ At(j, "links")
  /\ job[j].link =< Len(anchors)
  /\ job' = [job EXCEPT
       ![j].found = @ \/ IsUnsubscribeLink(ListURLs, anchors[job[j].link]),
       ![j].link  = @ + 1]
  /\ UNCHANGED shared

-----------------------------------------------------------------------------
(* GenerateContentAnalysis                                                 *)

\* The method a URL of the header stands for, if any.
HeaderMethod(url) ==
  IF url \in Mailto THEN <<"mailto">>
  ELSE IF url \in Web THEN <<"list-unsubscribe-header">> ELSE << >>

\* The methods of a link found in the body and of the first header URLs.
Methods(found, urls) ==
  LET listed[n \in 0 .. Len(urls)] ==
        IF n = 0 THEN IF found THEN <<"link">> ELSE << >>
        ELSE listed[n - 1] \o HeaderMethod(urls[n])
  IN  listed[Len(urls)]

WithOneClick(methods, flag) ==
  IF flag /\ Holds(methods, "list-unsubscribe-header")
  THEN Append(methods, "one-click") ELSE methods

ListMethods(j) ==
  /\ At(j, "links")
  /\ job[j].link > Len(Anchors[job[j].message])
  /\ job' = [job EXCEPT ![j].at = "methods", ![j].methods = Methods(job[j].found, ListURLs)]
  /\ UNCHANGED shared

AddOneClick(j) ==
  /\ At(j, "methods")
  /\ job' = [job EXCEPT ![j].at = "done", ![j].methods = WithOneClick(@, oneClick)]
  /\ UNCHANGED shared

-----------------------------------------------------------------------------
Next ==
  \E j \in Jobs :
    \/ \E m \in Messages : Start(j, m)
    \/ SetLength(j) \/ SetArray(j) \/ SetFlag(j)
    \/ NextLink(j)
    \/ ListMethods(j) \/ AddOneClick(j)

Spec == Init /\ [][Next]_vars

-----------------------------------------------------------------------------
(* Properties                                                              *)

\* What the report of a message should say, from the message alone.
OwnLink(m) ==
  \E i \in DOMAIN Anchors[m] : IsUnsubscribeLink(Header[m], Anchors[m][i])
OwnMethods(m) == WithOneClick(Methods(OwnLink(m), Header[m]), m \in OneClick)

\* has_unsubscribe_link and unsubscribe_methods of a finished report are those
\* of its own message.
OwnReport(j) ==
  /\ job[j].found = OwnLink(job[j].message)
  /\ job[j].methods = OwnMethods(job[j].message)

ReportOfOwnMessage == \A j \in Jobs : At(j, "done") => OwnReport(j)

\* It is so for an analysis that no other one overlapped with, whatever the
\* analyzer was used for before, overlapping or not.
LoneReportIsOwn == \A j \in Jobs : At(j, "done") /\ job[j].alone => OwnReport(j)

\* Even when analyses overlap, an unsubscribe link that names itself is found:
\* other messages can add to what a report says of the body but not hide it.
KeywordLinkIsFound ==
  \A j \in Jobs : At(j, "done") =>
    ((\E i \in DOMAIN Anchors[job[j].message] :
        Anchors[job[j].message][i] \in Keyword \ Template)
      => job[j].found /\ Holds(job[j].methods, "link"))
==============================================================================

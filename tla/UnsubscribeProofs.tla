-------------------------- MODULE UnsubscribeProofs ---------------------------
(***************************************************************************)
(* Proofs about UnsubscribeAnalysis: what an analysis may say of a message *)
(* although the analyzer's fields are shared.                              *)
(*                                                                         *)
(* An analysis that runs alone finds in the fields what it wrote itself,   *)
(* whatever was there before (LoneInv).  One that overlaps with others     *)
(* still looks at every link, and what it has found stays found (LinkInv). *)
(***************************************************************************)
EXTENDS UnsubscribeAnalysis, SequenceTheorems, WellFoundedInduction, TLAPS

-----------------------------------------------------------------------------
(* Loops.  The induction theorems of the library take an operator as a     *)
(* parameter; these follow from WFMin, which does not.                     *)

\* Induction over the numbers, for a set of them.
LEMMA SetInduction ==
  ASSUME NEW S, 0 \in S, \A n \in Nat : n \in S => n + 1 \in S
  PROVE  Nat \subseteq S
<1> DEFINE T == {n \in Nat : n \notin S}
<1> SUFFICES ASSUME T # {} PROVE FALSE
  OBVIOUS
<1>1. PICK x \in T : \A y \in T : ~(<<y, x>> \in OpToRel(<, Nat))
  BY NatLessThanWellFounded, WFMin
<1>2. \A y \in Nat : y < x => <<y, x>> \in OpToRel(<, Nat)
  BY Zenon DEF OpToRel
<1>3. \A y \in T : ~(y < x)
  BY <1>1, <1>2
<1>4. x # 0 /\ x - 1 \in Nat /\ x - 1 < x
  OBVIOUS
<1>5. x - 1 \in S
  BY <1>3, <1>4
<1> QED
  BY <1>4, <1>5

\* The values of a loop that starts with v0 and turns a value into the next by
\* step[i] ...
IsTrace(g, n, v0, step) == g[0] = v0 /\ \A i \in 1 .. n : g[i] = step[i][g[i - 1]]

\* ... exist.
LEMMA Trace ==
  ASSUME NEW V, NEW v0 \in V, NEW step \in [Nat -> [V -> V]]
  PROVE  \A n \in Nat : \E g \in [0 .. n -> V] : IsTrace(g, n, v0, step)
<1> DEFINE S == {n \in Nat : \E g \in [0 .. n -> V] : IsTrace(g, n, v0, step)}
<1> USE DEF IsTrace
<1>1. 0 \in S
  <2> DEFINE g == [i \in 0 .. 0 |-> v0]
  <2>1. g \in [0 .. 0 -> V] /\ IsTrace(g, 0, v0, step)
    OBVIOUS
  <2> QED
    BY <2>1
<1>2. ASSUME NEW n \in Nat, n \in S PROVE n + 1 \in S
  <2>1. PICK g \in [0 .. n -> V] : IsTrace(g, n, v0, step)
    BY <1>2
  <2> DEFINE h == [i \in 0 .. n + 1 |-> IF i = n + 1 THEN step[i][g[i - 1]] ELSE g[i]]
  <2>2. step[n + 1][g[n]] \in V
    OBVIOUS
  <2>3. h \in [0 .. n + 1 -> V]
    BY <2>2
  <2>4. IsTrace(h, n + 1, v0, step)
    BY <2>1
  <2> HIDE DEF h
  <2>5. \E k \in [0 .. n + 1 -> V] : IsTrace(k, n + 1, v0, step)
    BY <2>3, <2>4
  <2> QED
    BY <2>5
<1> HIDE DEF S
<1>3. Nat \subseteq S
  BY <1>1, <1>2, SetInduction
<1> QED
  BY <1>3 DEF S

-----------------------------------------------------------------------------
(* The list of methods                                                     *)

LEMMA OneMethod == \A url : HeaderMethod(url) \in Seq(Method)
  <1>1. <<"mailto">> \in Seq(Method) /\ <<"list-unsubscribe-header">> \in Seq(Method) /\ << >> \in Seq(Method)
    BY DEF Method
  <1> QED
    BY <1>1 DEF HeaderMethod

\* The list is one of methods, and a link that was found stands at its head.
LEMMA MethodsListed ==
  ASSUME NEW found \in BOOLEAN, NEW urls, Len(urls) \in Nat
  PROVE  /\ Methods(found, urls) \in Seq(Method)
         /\ found => Len(Methods(found, urls)) > 0 /\ Methods(found, urls)[1] = "link"
  <1> DEFINE N == Len(urls)
  <1>0. N \in Nat
    OBVIOUS
  <1> HIDE DEF N
  <1> DEFINE first == IF found THEN <<"link">> ELSE << >>
             Equation(f) == f = [n \in 0 .. N |->
               IF n = 0 THEN IF found THEN <<"link">> ELSE << >> ELSE f[n - 1] \o HeaderMethod(urls[n])]
             step == [i \in Nat |-> [s \in Seq(Method) |-> s \o HeaderMethod(urls[i])]]
  <1>1. <<"link">> \in Seq(Method) /\ << >> \in Seq(Method)
    BY DEF Method
  <1>2. first \in Seq(Method) /\ (found => Len(first) > 0 /\ first[1] = "link")
    BY <1>1
  <1>3. step \in [Nat -> [Seq(Method) -> Seq(Method)]]
    BY OneMethod, ConcatProperties
  <1>4. \E f : Equation(f)
    <2>1. first \in Seq(Method)
      BY <1>2
    <2>2. PICK g \in [0 .. N -> Seq(Method)] : IsTrace(g, N, first, step)
      <3> HIDE DEF first, step
      <3> QED
        BY <1>0, <1>3, <2>1, Trace
    <2> DEFINE h == [n \in 0 .. N |->
                 IF n = 0 THEN IF found THEN <<"link">> ELSE << >> ELSE g[n - 1] \o HeaderMethod(urls[n])]
    <2>3. \A i \in 1 .. N : g[i] = g[i - 1] \o HeaderMethod(urls[i])
      <3>1. ASSUME NEW i \in 1 .. N, NEW s \in Seq(Method)
            PROVE  step[i][s] = s \o HeaderMethod(urls[i])
        <4>1. i \in Nat
          BY <1>0
        <4> QED
          BY <4>1, Zenon
      <3>2. \A i \in 1 .. N : g[i - 1] \in Seq(Method)
        BY <1>0
      <3> HIDE DEF step
      <3> QED
        BY <2>2, <3>1, <3>2 DEF IsTrace
    <2>4. \A n \in 0 .. N : g[n] = h[n]
      <3>1. \A n \in 0 .. N : n = 0 \/ n \in 1 .. N
        OBVIOUS
      <3>2. ASSUME NEW n \in 1 .. N PROVE g[n] = h[n]
        <4>1. n \in 0 .. N /\ n # 0
          BY <1>0
        <4>2. h[n] = g[n - 1] \o HeaderMethod(urls[n])
          BY <4>1
        <4> QED
          BY <2>3, <4>2
      <3>3. g[0] = h[0]
        BY <1>0, <2>2 DEF IsTrace
      <3> QED
        BY <3>1, <3>2, <3>3
    <2>5. g = [n \in 0 .. N |-> g[n]] /\ h = [n \in 0 .. N |-> h[n]]
      OBVIOUS
    <2>6. g = h
      <3> HIDE DEF h
      <3> QED
        BY <2>4, <2>5
    <2> QED
      BY <2>6
  <1> DEFINE f == CHOOSE f : Equation(f)
  <1>5. Equation(f)
    BY <1>4, Zenon
  <1>6. Methods(found, urls) = f[N]
    BY Zenon DEF Methods, N
  <1> HIDE DEF f, step, first
  <1>7. /\ f[0] = first
        /\ \A n \in 1 .. N : f[n] = f[n - 1] \o HeaderMethod(urls[n])
    <2>1. f = [n \in 0 .. N |->
            IF n = 0 THEN IF found THEN <<"link">> ELSE << >> ELSE f[n - 1] \o HeaderMethod(urls[n])]
      BY <1>5
    <2> QED
      BY <1>0, <2>1 DEF first
  <1> DEFINE Holding(s) == s \in Seq(Method) /\ (found => Len(s) > 0 /\ s[1] = "link")
             S == {n \in Nat : n \in 0 .. N => Holding(f[n])}
  <1>8. 0 \in S
    BY <1>0, <1>2, <1>7
  <1>9. ASSUME NEW n \in Nat, n \in S PROVE n + 1 \in S
    <2> SUFFICES ASSUME n + 1 \in 0 .. N PROVE Holding(f[n + 1])
      OBVIOUS
    <2>1. Holding(f[n])
      BY <1>0, <1>9
    <2>2. f[n + 1] = f[n] \o HeaderMethod(urls[n + 1])
      <3>1. n + 1 \in 1 .. N
        BY <1>0
      <3>2. f[n + 1] = f[(n + 1) - 1] \o HeaderMethod(urls[n + 1])
        BY <1>7, <3>1
      <3>3. (n + 1) - 1 = n
        OBVIOUS
      <3> QED
        BY <3>2, <3>3
    <2>3. HeaderMethod(urls[n + 1]) \in Seq(Method)
      BY OneMethod
    <2>4. ASSUME NEW a \in Seq(Method), NEW b \in Seq(Method) 
          PROVE  a \o b \in Seq(Method) /\ (Len(a) > 0 => Len(a \o b) > 0 /\ (a \o b)[1] = a[1])
      OBVIOUS
    <2> QED
      BY <2>1, <2>2, <2>3, <2>4
  <1> HIDE DEF S
  <1>10. Nat \subseteq S
    BY <1>8, <1>9, SetInduction
  <1> QED
    BY <1>0, <1>6, <1>10 DEF S

-----------------------------------------------------------------------------
(* The inductive invariant                                                 *)

Analyzing(j) == job[j].at \notin {"idle", "done"}
Anchor(j, i) == Anchors[job[j].message][i]

\* Whether a link that names itself is among the first ones of the message.
Named(j, n) == \E i \in 1 .. n : i \in DOMAIN Anchors[job[j].message] /\ Anchor(j, i) \in Keyword \ Template

\* However the fields change: what was looked at and names itself was found,
\* and every link was looked at before the methods are listed.
LinkInv(j) ==
  /\ job[j].at # "idle" => job[j].message \in Messages
  /\ job[j].at \in {"set", "sized", "pointed", "flag"} => job[j].link = 1
  /\ job[j].at = "links" => (Named(j, job[j].link - 1) => job[j].found)
  /\ job[j].at \in {"methods", "done"} =>
       (Named(j, Len(Anchors[job[j].message])) => job[j].found /\ Holds(job[j].methods, "link"))

Written(j) == ListURLs = Header[job[j].message]
Found(j, n) == \E i \in 1 .. n : IsUnsubscribeLink(Header[job[j].message], Anchor(j, i))

\* While an analysis is alone the fields hold what it has written to them, and
\* it has found what its own header explains.
LoneInv(j) ==
  LET m == job[j].message IN
  job[j].alone =>
    /\ Analyzing(j) => Busy = {j}
    /\ job[j].at \in {"set", "sized", "pointed", "flag"} => ~job[j].found
    /\ job[j].at = "sized" => length = Len(Header[m])
    /\ job[j].at = "pointed" => array = m
    /\ job[j].at \in {"flag", "links", "methods"} => array = m /\ length = Len(Header[m])
    /\ job[j].at \in {"links", "methods"} => oneClick = (m \in OneClick)
    /\ job[j].at = "links" => job[j].link =< Len(Anchors[m]) + 1 /\ job[j].found = Found(j, job[j].link - 1)
    /\ job[j].at = "methods" => job[j].found = OwnLink(m) /\ job[j].methods = Methods(OwnLink(m), Header[m])
    /\ job[j].at = "done" => OwnReport(j)

AnalysisInv ==
  /\ TypeOK
  /\ \A j \in Jobs : LinkInv(j) /\ LoneInv(j)

-----------------------------------------------------------------------------
(* What a step does to a job                                               *)

SameJob(i) ==
  /\ job'[i].at = job[i].at /\ job'[i].message = job[i].message /\ job'[i].link = job[i].link
  /\ job'[i].found = job[i].found /\ job'[i].methods = job[i].methods

LEMMA ListURLsTyped ==
  ASSUME TypeOK
  PROVE  Len(ListURLs) \in Nat
  <1>1. length \in Nat
    BY DEF TypeOK
  <1>2. ListURLs = [i \in 1 .. length |-> ListURLs[i]]
    BY DEF ListURLs
  <1> HIDE DEF ListURLs
  <1> QED
    BY <1>1, <1>2, LenProperties, IsASeq

LEMMA GotoEffect ==
  ASSUME job \in [Jobs -> JobState], NEW j \in Jobs, NEW step \in Step, Goto(j, step)
  PROVE  /\ job' \in [Jobs -> JobState]
         /\ job'[j].at = step /\ job'[j].message = job[j].message /\ job'[j].link = job[j].link
         /\ job'[j].found = job[j].found /\ job'[j].methods = job[j].methods /\ job'[j].alone = job[j].alone
         /\ \A i \in Jobs \ {j} : job'[i] = job[i]
  BY DEF Goto, JobState

LEMMA IdleJob == /\ Idle \in JobState /\ Idle.at = "idle" /\ Idle.link = 1 /\ ~Idle.found
  BY DEF Idle, JobState, Step

LEMMA StartEffect ==
  ASSUME job \in [Jobs -> JobState], NEW j \in Jobs, NEW m \in Messages, Start(j, m)
  PROVE  /\ job' \in [Jobs -> JobState]
         /\ job'[j].at = "set" /\ job'[j].message = m /\ job'[j].link = 1
         /\ job'[j].found = FALSE /\ job'[j].alone = (Busy = {})
         /\ \A i \in Jobs \ {j} : /\ SameJob(i)
                                  /\ i \in Busy => ~job'[i].alone
                                  /\ i \notin Busy => job'[i] = job[i]
  <1> DEFINE fresh == [Idle EXCEPT !.at = "set", !.message = m, !.alone = Busy = {}]
             overlapped(i) == [job[i] EXCEPT !.alone = FALSE]
  <1>1. fresh \in JobState /\ fresh.at = "set" /\ fresh.message = m /\ fresh.link = 1
        /\ fresh.found = FALSE /\ fresh.alone = (Busy = {})
    <2> DEFINE lone == Busy = {}
    <2>1. lone \in BOOLEAN
      OBVIOUS
    <2>2. fresh = [Idle EXCEPT !.at = "set", !.message = m, !.alone = lone]
      OBVIOUS
    <2> HIDE DEF lone, fresh
    <2>3. fresh \in JobState /\ fresh.at = "set" /\ fresh.message = m /\ fresh.alone = lone
      BY <2>1, <2>2, IdleJob DEF JobState, Step
    <2>4. fresh.link = 1 /\ fresh.found = FALSE
      BY <2>2 DEF Idle
    <2> QED
      BY <2>3, <2>4 DEF lone
  <1>2. ASSUME NEW i \in Jobs
        PROVE  /\ overlapped(i) \in JobState /\ overlapped(i).alone = FALSE
               /\ overlapped(i).at = job[i].at /\ overlapped(i).message = job[i].message
               /\ overlapped(i).link = job[i].link /\ overlapped(i).found = job[i].found
               /\ overlapped(i).methods = job[i].methods
    <2>1. job[i] \in JobState
      OBVIOUS
    <2> QED
      BY <2>1 DEF JobState
  <1>3. job' = [i \in Jobs |->
          IF i = j THEN fresh ELSE IF i \in Busy THEN overlapped(i) ELSE job[i]]
    BY DEF Start
  <1> HIDE DEF fresh, overlapped
  <1> QED
    BY <1>1, <1>2, <1>3 DEF SameJob

LEMMA NextLinkEffect ==
  ASSUME job \in [Jobs -> JobState], NEW j \in Jobs, NextLink(j)
  PROVE  /\ job' \in [Jobs -> JobState]
         /\ job'[j].at = "links" /\ job'[j].message = job[j].message /\ job'[j].link = job[j].link + 1
         /\ job'[j].found = (job[j].found \/ IsUnsubscribeLink(ListURLs, Anchor(j, job[j].link)))
         /\ job'[j].methods = job[j].methods /\ job'[j].alone = job[j].alone
         /\ \A i \in Jobs \ {j} : job'[i] = job[i]
  <1>1. job[j] \in JobState
    OBVIOUS
  <1> DEFINE f == job[j].found \/ IsUnsubscribeLink(ListURLs, Anchor(j, job[j].link))
             moved == [job[j] EXCEPT !.found = f, !.link = job[j].link + 1]
  <1>2. f \in BOOLEAN
    OBVIOUS
  <1>3. job' = [job EXCEPT ![j] = moved]
    BY DEF NextLink, Anchor
  <1> HIDE DEF f
  <1>4. /\ moved.at = job[j].at /\ moved.message = job[j].message /\ moved.link = job[j].link + 1
        /\ moved.found = f /\ moved.methods = job[j].methods /\ moved.alone = job[j].alone
    BY <1>1 DEF JobState
  <1>5. moved \in JobState
    <2>1. job[j].link + 1 \in Nat \ {0}
      BY <1>1 DEF JobState
    <2> QED
      BY <1>1, <1>2, <2>1 DEF JobState
  <1> HIDE DEF moved
  <1>6. job[j].at = "links"
    BY DEF NextLink, At
  <1> QED
    BY <1>3, <1>4, <1>5, <1>6 DEF f

\* The steps of GenerateContentAnalysis set the list of methods.
LEMMA MethodsEffect ==
  ASSUME job \in [Jobs -> JobState], NEW j \in Jobs, NEW step \in Step, NEW methods \in Seq(Method),
         job' = [job EXCEPT ![j].at = step, ![j].methods = methods]
  PROVE  /\ job' \in [Jobs -> JobState]
         /\ job'[j].at = step /\ job'[j].message = job[j].message /\ job'[j].link = job[j].link
         /\ job'[j].found = job[j].found /\ job'[j].methods = methods /\ job'[j].alone = job[j].alone
         /\ \A i \in Jobs \ {j} : job'[i] = job[i]
  <1>1. job[j] \in JobState
    OBVIOUS
  <1> DEFINE moved == [job[j] EXCEPT !.at = step, !.methods = methods]
  <1>2. job' = [job EXCEPT ![j] = moved]
    OBVIOUS
  <1>3. /\ moved \in JobState
        /\ moved.at = step /\ moved.message = job[j].message /\ moved.link = job[j].link
        /\ moved.found = job[j].found /\ moved.methods = methods /\ moved.alone = job[j].alone
    BY <1>1 DEF JobState
  <1> HIDE DEF moved
  <1> QED
    BY <1>2, <1>3

LEMMA OneClickAdded ==
  ASSUME NEW methods \in Seq(Method), NEW flag \in BOOLEAN
  PROVE  /\ WithOneClick(methods, flag) \in Seq(Method)
         /\ Holds(methods, "link") => Holds(WithOneClick(methods, flag), "link")
  <1>1. Append(methods, "one-click") \in Seq(Method)
    BY DEF Method
  <1>2. ASSUME Holds(methods, "link") PROVE Holds(Append(methods, "one-click"), "link")
    BY <1>2 DEF Holds
  <1> QED
    BY <1>1, <1>2 DEF WithOneClick

LEMMA ListMethodsEffect ==
  ASSUME TypeOK, NEW j \in Jobs, ListMethods(j)
  PROVE  /\ job' \in [Jobs -> JobState]
         /\ job'[j].at = "methods" /\ job'[j].message = job[j].message /\ job'[j].link = job[j].link
         /\ job'[j].found = job[j].found /\ job'[j].alone = job[j].alone
         /\ job'[j].methods = Methods(job[j].found, ListURLs)
         /\ job'[j].found => Holds(job'[j].methods, "link")
         /\ \A i \in Jobs \ {j} : job'[i] = job[i]
  <1> DEFINE methods == Methods(job[j].found, ListURLs)
  <1>1. job \in [Jobs -> JobState] /\ job[j].found \in BOOLEAN
    BY DEF TypeOK, JobState
  <1>2. methods \in Seq(Method) /\ (job[j].found => Len(methods) > 0 /\ methods[1] = "link")
    BY <1>1, ListURLsTyped, MethodsListed
  <1>3. job' = [job EXCEPT ![j].at = "methods", ![j].methods = methods]
    BY DEF ListMethods
  <1> HIDE DEF methods
  <1>4. job[j].found => Holds(methods, "link")
    BY <1>2 DEF Holds
  <1>5. /\ job' \in [Jobs -> JobState]
        /\ job'[j].at = "methods" /\ job'[j].message = job[j].message /\ job'[j].link = job[j].link
        /\ job'[j].found = job[j].found /\ job'[j].methods = methods /\ job'[j].alone = job[j].alone
        /\ \A i \in Jobs \ {j} : job'[i] = job[i]
    BY <1>1, <1>2, <1>3, MethodsEffect DEF Step
  <1>6. job'[j].found => Holds(job'[j].methods, "link")
    BY <1>4, <1>5, Zenon
  <1> QED
    BY <1>5, <1>6 DEF methods

LEMMA AddOneClickEffect ==
  ASSUME TypeOK, NEW j \in Jobs, AddOneClick(j)
  PROVE  /\ job' \in [Jobs -> JobState]
         /\ job'[j].at = "done" /\ job'[j].message = job[j].message /\ job'[j].link = job[j].link
         /\ job'[j].found = job[j].found /\ job'[j].alone = job[j].alone
         /\ job'[j].methods = WithOneClick(job[j].methods, oneClick)
         /\ Holds(job[j].methods, "link") => Holds(job'[j].methods, "link")
         /\ \A i \in Jobs \ {j} : job'[i] = job[i]
  <1> DEFINE methods == WithOneClick(job[j].methods, oneClick)
  <1>1. job \in [Jobs -> JobState] /\ job[j].methods \in Seq(Method) /\ oneClick \in BOOLEAN
    BY DEF TypeOK, JobState
  <1>2. methods \in Seq(Method) /\ (Holds(job[j].methods, "link") => Holds(methods, "link"))
    BY <1>1, OneClickAdded, Zenon
  <1>3. job' = [job EXCEPT ![j].at = "done", ![j].methods = methods]
    BY DEF AddOneClick
  <1> HIDE DEF methods
  <1>4. /\ job' \in [Jobs -> JobState]
        /\ job'[j].at = "done" /\ job'[j].message = job[j].message /\ job'[j].link = job[j].link
        /\ job'[j].found = job[j].found /\ job'[j].methods = methods /\ job'[j].alone = job[j].alone
        /\ \A i \in Jobs \ {j} : job'[i] = job[i]
    BY <1>1, <1>2, <1>3, MethodsEffect DEF Step
  <1>5. Holds(job[j].methods, "link") => Holds(job'[j].methods, "link")
    BY <1>2, <1>4, Zenon
  <1> QED
    BY <1>4, <1>5 DEF methods

-----------------------------------------------------------------------------
(* Every step                                                              *)

LEMMA SetEffect ==
  ASSUME TypeOK, NEW j \in Jobs, SetLength(j) \/ SetArray(j) \/ SetFlag(j)
  PROVE  /\ job' \in [Jobs -> JobState]
         /\ job'[j].at \in {"sized", "pointed", "flag", "links"}
         /\ job[j].at \in {"set", "sized", "pointed", "flag"}
         /\ job'[j].message = job[j].message /\ job'[j].link = job[j].link
         /\ job'[j].found = job[j].found /\ job'[j].methods = job[j].methods /\ job'[j].alone = job[j].alone
         /\ \A i \in Jobs \ {j} : job'[i] = job[i]
  <1>1. PICK step \in {"sized", "pointed", "flag", "links"} : Goto(j, step)
    BY DEF SetLength, SetArray, SetFlag
  <1>2. job \in [Jobs -> JobState] /\ step \in Step
    BY DEF TypeOK, Step
  <1>3. job[j].at \in {"set", "sized", "pointed", "flag"}
    BY DEF SetLength, SetArray, SetFlag, At
  <1> QED
    BY <1>1, <1>2, <1>3, GotoEffect

LEMMA TypeStep ==
  ASSUME MessageAssumption, TypeOK, \A j \in Jobs : LinkInv(j), [Next]_vars
  PROVE  TypeOK'
  <1>1. ASSUME NEW j \in Jobs, NEW m \in Messages, Start(j, m) PROVE TypeOK'
    BY <1>1, StartEffect DEF TypeOK, Start, shared
  <1>2. ASSUME NEW j \in Jobs, SetLength(j) PROVE TypeOK'
    <2>1. job[j].message \in Messages
      BY <1>2 DEF SetLength, LinkInv
    <2>2. Len(Header[job[j].message]) \in Nat
      BY <2>1 DEF MessageAssumption
    <2> QED
      BY <1>2, <2>2, SetEffect DEF TypeOK, SetLength
  <1>3. ASSUME NEW j \in Jobs, SetArray(j) PROVE TypeOK'
    <2>1. job[j].message \in Messages
      BY <1>3 DEF SetArray, LinkInv
    <2> QED
      BY <1>3, <2>1, SetEffect DEF TypeOK, SetArray
  <1>4. ASSUME NEW j \in Jobs, SetFlag(j) PROVE TypeOK'
    <2>1. Flag(job[j].message) \in BOOLEAN
      BY DEF Flag
    <2> QED
      BY <1>4, <2>1, SetEffect DEF TypeOK, SetFlag
  <1>5. ASSUME NEW j \in Jobs, NextLink(j) PROVE TypeOK'
    BY <1>5, NextLinkEffect DEF TypeOK, NextLink, shared
  <1>6. ASSUME NEW j \in Jobs, ListMethods(j) PROVE TypeOK'
    BY <1>6, ListMethodsEffect DEF TypeOK, ListMethods, shared
  <1>7. ASSUME NEW j \in Jobs, AddOneClick(j) PROVE TypeOK'
    BY <1>7, AddOneClickEffect DEF TypeOK, AddOneClick, shared
  <1>8. CASE UNCHANGED vars
    BY <1>8 DEF TypeOK, vars
  <1> QED
    BY <1>1, <1>2, <1>3, <1>4, <1>5, <1>6, <1>7, <1>8 DEF Next

LEMMA SameJobLink ==
  ASSUME NEW i \in Jobs, SameJob(i), LinkInv(i)
  PROVE  LinkInv(i)'
  BY DEF SameJob, LinkInv, Named, Anchor, Holds

LEMMA LinkStep ==
  ASSUME MessageAssumption, TypeOK, \A j \in Jobs : LinkInv(j), [Next]_vars, NEW i \in Jobs
  PROVE  LinkInv(i)'
  <1>0. /\ job \in [Jobs -> JobState] /\ LinkInv(i)
        /\ job[i].link \in Nat \ {0} /\ job[i].found \in BOOLEAN
    BY DEF TypeOK, JobState
  <1>a. job'[i] = job[i] => SameJob(i)
    BY DEF SameJob
  <1>1. ASSUME NEW j \in Jobs, NEW m \in Messages, Start(j, m) PROVE LinkInv(i)'
    <2>1. CASE i # j
      BY <1>0, <1>1, <2>1, StartEffect, SameJobLink
    <2>2. CASE i = j
      BY <1>0, <1>1, <2>2, StartEffect DEF LinkInv
    <2> QED
      BY <2>1, <2>2
  <1>2. ASSUME NEW j \in Jobs, SetLength(j) \/ SetArray(j) \/ SetFlag(j) PROVE LinkInv(i)'
    <2>1. CASE i # j
      BY <1>0, <1>a, <1>2, <2>1, SetEffect, SameJobLink
    <2>2. CASE i = j
      <3>1. job'[i].link = 1 /\ ~Named(i, 0)'
        BY <1>0, <1>2, <2>2, SetEffect DEF LinkInv, Named
      <3> QED
        BY <1>0, <1>2, <2>2, <3>1, SetEffect DEF LinkInv
    <2> QED
      BY <2>1, <2>2
  <1>3. ASSUME NEW j \in Jobs, NextLink(j) PROVE LinkInv(i)'
    <2>1. CASE i # j
      BY <1>0, <1>a, <1>3, <2>1, NextLinkEffect, SameJobLink
    <2>2. CASE i = j
      <3>1. /\ job'[i].at = "links" /\ job'[i].message = job[i].message /\ job'[i].link = job[i].link + 1
            /\ job'[i].found = (job[i].found \/ IsUnsubscribeLink(ListURLs, Anchor(i, job[i].link)))
        BY <1>0, <1>3, <2>2, NextLinkEffect
      <3>2. ASSUME Named(i, job[i].link - 1)' PROVE job'[i].found
        <4>1. PICK k \in 1 .. job[i].link :
                k \in DOMAIN Anchors[job[i].message] /\ Anchor(i, k) \in Keyword \ Template
          BY <1>0, <3>1, <3>2 DEF Named, Anchor
        <4>2. CASE k = job[i].link
          BY <3>1, <4>1, <4>2 DEF IsUnsubscribeLink
        <4>3. CASE k # job[i].link
          <5>1. Named(i, job[i].link - 1)
            BY <1>0, <4>1, <4>3 DEF Named
          <5>2. job[i].found
            BY <1>0, <1>3, <2>2, <5>1 DEF LinkInv, NextLink, At
          <5> QED
            BY <3>1, <5>2
        <4> QED
          BY <4>2, <4>3
      <3> QED
        BY <1>0, <1>3, <2>2, <3>1, <3>2 DEF LinkInv, NextLink, At
    <2> QED
      BY <2>1, <2>2
  <1>4. ASSUME NEW j \in Jobs, ListMethods(j) PROVE LinkInv(i)'
    <2>1. CASE i # j
      BY <1>0, <1>a, <1>4, <2>1, ListMethodsEffect, SameJobLink
    <2>2. CASE i = j
      <3>1. /\ job'[i].at = "methods" /\ job'[i].message = job[i].message /\ job'[i].found = job[i].found
            /\ job'[i].found => Holds(job'[i].methods, "link")
        BY <1>4, <2>2, ListMethodsEffect
      <3>2. job[i].at = "links" /\ job[i].link > Len(Anchors[job[i].message]) /\ job[i].message \in Messages
        BY <1>0, <1>4, <2>2 DEF ListMethods, At, LinkInv
      <3>3. Len(Anchors[job[i].message]) \in Nat
        BY <3>2 DEF MessageAssumption
      <3>4. ASSUME Named(i, Len(Anchors[job[i].message])) PROVE job[i].found
        <4>1. Named(i, job[i].link - 1)
          BY <1>0, <3>2, <3>3, <3>4 DEF Named
        <4> QED
          BY <1>0, <3>2, <4>1 DEF LinkInv
      <3>5. Named(i, Len(Anchors[job[i].message]))' <=> Named(i, Len(Anchors[job[i].message]))
        BY <3>1 DEF Named, Anchor
      <3> QED
        BY <3>1, <3>2, <3>4, <3>5 DEF LinkInv
    <2> QED
      BY <2>1, <2>2
  <1>5. ASSUME NEW j \in Jobs, AddOneClick(j) PROVE LinkInv(i)'
    <2>1. CASE i # j
      BY <1>0, <1>a, <1>5, <2>1, AddOneClickEffect, SameJobLink
    <2>2. CASE i = j
      <3>1. /\ job'[i].at = "done" /\ job'[i].message = job[i].message /\ job'[i].found = job[i].found
            /\ Holds(job[i].methods, "link") => Holds(job'[i].methods, "link")
        BY <1>5, <2>2, AddOneClickEffect
      <3>2. job[i].at = "methods"
        BY <1>5, <2>2 DEF AddOneClick, At
      <3>3. Named(i, Len(Anchors[job[i].message]))' <=> Named(i, Len(Anchors[job[i].message]))
        BY <3>1 DEF Named, Anchor
      <3> QED
        BY <1>0, <3>1, <3>2, <3>3 DEF LinkInv
    <2> QED
      BY <2>1, <2>2
  <1>6. CASE UNCHANGED vars
    BY <1>0, <1>6, SameJobLink DEF vars, SameJob
  <1> QED
    BY <1>1, <1>2, <1>3, <1>4, <1>5, <1>6 DEF Next

\* The fields of a message, read together, are its header.
LEMMA OwnURLs ==
  ASSUME MessageAssumption, NEW m \in Messages, array = m, length = Len(Header[m])
  PROVE  ListURLs = Header[m]
  <1>1. Header[m] \in Seq(URLs) /\ array # None
    BY DEF MessageAssumption
  <1>2. Header[m] = [k \in 1 .. Len(Header[m]) |-> Header[m][k]]
    BY <1>1
  <1>3. ListURLs = [k \in 1 .. Len(Header[m]) |-> Header[m][k]]
    BY <1>1 DEF ListURLs
  <1> QED
    BY <1>2, <1>3

\* A job that is at rest keeps its part of the invariant in every step of
\* another one, and so does one that is not alone any more.
LEMMA RestingLone ==
  ASSUME NEW i \in Jobs, LoneInv(i), SameJob(i), ~job'[i].alone \/ (job'[i].alone = job[i].alone /\ ~Analyzing(i))
  PROVE  LoneInv(i)'
  <1>1. CASE ~job'[i].alone
    BY <1>1 DEF LoneInv
  <1>2. CASE job'[i].alone /\ job[i].alone /\ ~Analyzing(i)
    <2>1. job[i].at = "done" => OwnReport(i)
      BY <1>2 DEF LoneInv
    <2>2. OwnReport(i) => OwnReport(i)'
      BY DEF SameJob, OwnReport, OwnLink, OwnMethods
    <2> QED
      BY <1>2, <2>1, <2>2 DEF LoneInv, SameJob, Analyzing
  <1> QED
    BY <1>1, <1>2

\* When one works, no other one that works is alone.
LEMMA OthersRest ==
  ASSUME NEW i \in Jobs, NEW j \in Jobs, i # j, LoneInv(i), Analyzing(j), job'[i] = job[i]
  PROVE  LoneInv(i)'
  <1>1. SameJob(i) /\ job'[i].alone = job[i].alone
    BY DEF SameJob
  <1>2. CASE job[i].alone
    <2>1. j \in Busy
      BY DEF Busy, Analyzing
    <2>2. ~Analyzing(i)
      BY <1>2, <2>1 DEF LoneInv
    <2> QED
      BY <1>1, <2>2, RestingLone
  <1>3. CASE ~job[i].alone
    BY <1>1, <1>3, RestingLone
  <1> QED
    BY <1>2, <1>3

LEMMA StaysBusy ==
  ASSUME NEW j \in Jobs, Busy = {j}, \A i \in Jobs \ {j} : job'[i] = job[i],
         job'[j].at \notin {"idle", "done"}
  PROVE  Busy' = {j}
  BY DEF Busy

LEMMA LoneStep ==
  ASSUME MessageAssumption, TypeOK, \A j \in Jobs : LinkInv(j) /\ LoneInv(j), [Next]_vars, NEW i \in Jobs
  PROVE  LoneInv(i)'
  <1>0. /\ job \in [Jobs -> JobState] /\ LinkInv(i) /\ LoneInv(i)
        /\ job[i].link \in Nat \ {0} /\ job[i].found \in BOOLEAN /\ job[i].alone \in BOOLEAN
    BY DEF TypeOK, JobState
  <1>1. ASSUME NEW j \in Jobs, NEW m \in Messages, Start(j, m) PROVE LoneInv(i)'
    <2>0. job \in [Jobs -> JobState]
      BY <1>0
    <2>1. CASE i # j /\ i \in Busy
      BY <1>0, <1>1, <2>1, StartEffect, RestingLone
    <2>2. CASE i # j /\ i \notin Busy
      <3>1. job'[i] = job[i]
        BY <1>0, <1>1, <2>2, StartEffect
      <3>2. SameJob(i) /\ job'[i].alone = job[i].alone /\ ~Analyzing(i)
        BY <2>2, <3>1 DEF SameJob, Busy, Analyzing
      <3> QED
        BY <1>0, <3>2, RestingLone
    <2>3. CASE i = j
      <3>1. /\ job'[i].at = "set" /\ job'[i].found = FALSE /\ job'[i].alone = (Busy = {})
            /\ \A k \in Jobs \ {i} : k \notin Busy => job'[k] = job[k]
        BY <1>0, <1>1, <2>3, StartEffect
      <3>2. Busy = {} => Busy' = {i}
        BY <3>1 DEF Busy
      <3> QED
        BY <3>1, <3>2 DEF LoneInv, Analyzing
    <2> QED
      BY <2>1, <2>2, <2>3
  <1>2. ASSUME NEW j \in Jobs, SetLength(j) \/ SetArray(j) \/ SetFlag(j) PROVE LoneInv(i)'
    <2>0. Analyzing(j) /\ job[j].message \in Messages
      BY <1>2, SetEffect DEF Analyzing, LinkInv
    <2>1. CASE i # j
      BY <1>0, <1>2, <2>0, <2>1, SetEffect, OthersRest
    <2>2. CASE i = j /\ job[i].alone
      <3>1. /\ job'[i].at \in {"sized", "pointed", "flag", "links"} /\ job'[i].message = job[i].message
            /\ job'[i].link = 1 /\ job'[i].found = FALSE /\ Busy = {i} /\ Busy' = {i}
        BY <1>0, <1>2, <2>0, <2>2, SetEffect, StaysBusy DEF LinkInv, LoneInv
      <3>2. CASE SetLength(i)
        BY <1>0, <2>2, <3>1, <3>2, GotoEffect DEF SetLength, LoneInv, At, Step
      <3>3. CASE SetArray(i)
        BY <1>0, <2>2, <3>1, <3>3, GotoEffect DEF SetArray, LoneInv, At, Step
      <3>4. CASE SetFlag(i)
        <4>1. /\ job'[i].at = "links" /\ array' = array /\ length' = length
              /\ oneClick' = (job[i].message \in OneClick) /\ job[i].at = "flag"
          BY <1>0, <3>4, GotoEffect DEF SetFlag, Flag, At, Step
        <4>2. Len(Anchors[job[i].message]) \in Nat
          BY <2>0, <2>2 DEF MessageAssumption
        <4>3. job'[i].link - 1 = 0
          BY <3>1
        <4>4. Found(i, job[i].link - 1)' = FALSE
          BY <4>3 DEF Found
        <4>5. array = job[i].message /\ length = Len(Header[job[i].message])
          BY <1>0, <2>2, <4>1 DEF LoneInv
        <4>6. job'[i].link =< Len(Anchors[job'[i].message]) + 1
          BY <3>1, <4>2
        <4>7. job'[i].found = Found(i, job[i].link - 1)'
          BY <3>1, <4>4, Zenon
        <4> QED
          BY <3>1, <4>1, <4>5, <4>6, <4>7 DEF LoneInv
      <3> QED
        BY <1>2, <2>2, <3>2, <3>3, <3>4
    <2>3. CASE i = j /\ ~job[i].alone
      BY <1>2, <2>3, SetEffect DEF LoneInv
    <2> QED
      BY <2>1, <2>2, <2>3
  <1>3. ASSUME NEW j \in Jobs, NextLink(j) PROVE LoneInv(i)'
    <2>0. Analyzing(j)
      BY <1>3 DEF NextLink, At, Analyzing
    <2>1. CASE i # j
      BY <1>0, <1>3, <2>0, <2>1, NextLinkEffect, OthersRest
    <2>2. CASE i = j /\ job[i].alone
      <3>1. /\ job'[i].at = "links" /\ job'[i].message = job[i].message /\ job'[i].link = job[i].link + 1
            /\ job'[i].found = (job[i].found \/ IsUnsubscribeLink(ListURLs, Anchor(i, job[i].link)))
            /\ array' = array /\ length' = length /\ oneClick' = oneClick
            /\ \A k \in Jobs \ {i} : job'[k] = job[k]
        BY <1>0, <1>3, <2>2, NextLinkEffect DEF NextLink, shared
      <3>2. /\ job[i].at = "links" /\ Busy = {i} /\ array = job[i].message
            /\ length = Len(Header[job[i].message]) /\ oneClick = (job[i].message \in OneClick)
            /\ job[i].found = Found(i, job[i].link - 1) /\ job[i].link =< Len(Anchors[job[i].message])
        BY <1>0, <1>3, <2>2 DEF LoneInv, NextLink, At, Analyzing
      <3>3. ListURLs = Header[job[i].message] /\ Len(Anchors[job[i].message]) \in Nat
        BY <1>0, <3>2, OwnURLs DEF LinkInv, MessageAssumption
      <3>4. job'[i].found = Found(i, job[i].link)
        <4>1. Found(i, job[i].link) <=> Found(i, job[i].link - 1) \/ IsUnsubscribeLink(ListURLs, Anchor(i, job[i].link))
          <5>1. \A k \in 1 .. job[i].link : k = job[i].link \/ k \in 1 .. job[i].link - 1
            BY <1>0
          <5>2. job[i].link \in 1 .. job[i].link /\ 1 .. job[i].link - 1 \subseteq 1 .. job[i].link
            BY <1>0
          <5> QED
            BY <3>3, <5>1, <5>2 DEF Found
        <4>2. Found(i, job[i].link) \in BOOLEAN /\ Found(i, job[i].link - 1) \in BOOLEAN
          BY DEF Found
        <4> QED
          BY <3>1, <3>2, <4>1, <4>2
      <3>5. Found(i, job[i].link - 1)' = Found(i, job[i].link)
        <4>1. job'[i].link - 1 = job[i].link
          BY <1>0, <3>1
        <4> QED
          BY <3>1, <4>1 DEF Found, Anchor
      <3>6. Busy' = {i}
        BY <3>1, <3>2, StaysBusy
      <3> QED
        BY <1>0, <3>1, <3>2, <3>3, <3>4, <3>5, <3>6 DEF LoneInv
    <2>3. CASE i = j /\ ~job[i].alone
      BY <1>0, <1>3, <2>3, NextLinkEffect DEF LoneInv
    <2> QED
      BY <2>1, <2>2, <2>3
  <1>4. ASSUME NEW j \in Jobs, ListMethods(j) PROVE LoneInv(i)'
    <2>0. Analyzing(j)
      BY <1>4 DEF ListMethods, At, Analyzing
    <2>1. CASE i # j
      BY <1>0, <1>4, <2>0, <2>1, ListMethodsEffect, OthersRest
    <2>2. CASE i = j /\ job[i].alone
      <3> DEFINE m == job[i].message
      <3>1. /\ job'[i].at = "methods" /\ job'[i].message = m /\ job'[i].found = job[i].found
            /\ job'[i].methods = Methods(job[i].found, ListURLs)
            /\ array' = array /\ length' = length /\ oneClick' = oneClick
            /\ \A k \in Jobs \ {i} : job'[k] = job[k]
        BY <1>4, <2>2, ListMethodsEffect DEF ListMethods, shared
      <3>2. /\ job[i].at = "links" /\ Busy = {i} /\ array = m /\ length = Len(Header[m])
            /\ oneClick = (m \in OneClick) /\ job[i].found = Found(i, job[i].link - 1)
            /\ job[i].link =< Len(Anchors[m]) + 1 /\ job[i].link > Len(Anchors[m])
        BY <1>4, <2>2 DEF LoneInv, ListMethods, At, Analyzing
      <3>3. ListURLs = Header[m] /\ Anchors[m] \in Seq(URLs)
        BY <1>0, <3>2, OwnURLs DEF LinkInv, MessageAssumption
      <3>4. job[i].link - 1 = Len(Anchors[m]) /\ DOMAIN Anchors[m] = 1 .. Len(Anchors[m])
        BY <1>0, <3>2, <3>3
      <3>5. job[i].found = OwnLink(m)
        BY <3>2, <3>4 DEF Found, OwnLink, Anchor
      <3>6. Busy' = {i}
        BY <3>1, <3>2, StaysBusy
      <3> QED
        BY <3>1, <3>2, <3>3, <3>5, <3>6 DEF LoneInv
    <2>3. CASE i = j /\ ~job[i].alone
      BY <1>4, <2>3, ListMethodsEffect DEF LoneInv
    <2> QED
      BY <2>1, <2>2, <2>3
  <1>5. ASSUME NEW j \in Jobs, AddOneClick(j) PROVE LoneInv(i)'
    <2>0. Analyzing(j)
      BY <1>5 DEF AddOneClick, At, Analyzing
    <2>1. CASE i # j
      BY <1>0, <1>5, <2>0, <2>1, AddOneClickEffect, OthersRest
    <2>2. CASE i = j /\ job[i].alone
      <3>1. /\ job'[i].at = "done" /\ job'[i].message = job[i].message /\ job'[i].found = job[i].found
            /\ job'[i].methods = WithOneClick(job[i].methods, oneClick)
        BY <1>5, <2>2, AddOneClickEffect
      <3>2. /\ oneClick = (job[i].message \in OneClick) /\ job[i].found = OwnLink(job[i].message)
            /\ job[i].methods = Methods(OwnLink(job[i].message), Header[job[i].message])
        BY <1>5, <2>2 DEF LoneInv, AddOneClick, At
      <3>3. OwnReport(i)'
        BY <3>1, <3>2 DEF OwnReport, OwnMethods
      <3> QED
        BY <3>1, <3>3 DEF LoneInv, Analyzing
    <2>3. CASE i = j /\ ~job[i].alone
      BY <1>5, <2>3, AddOneClickEffect DEF LoneInv
    <2> QED
      BY <2>1, <2>2, <2>3
  <1>6. CASE UNCHANGED vars
    BY <1>0, <1>6 DEF vars, LoneInv, Analyzing, Busy, Found, Anchor, OwnReport
  <1> QED
    BY <1>1, <1>2, <1>3, <1>4, <1>5, <1>6 DEF Next

-----------------------------------------------------------------------------
(* The specification                                                       *)

\* The inductive invariant holds in every state of every behaviour.
THEOREM Analyses == Spec => []AnalysisInv
  <1>1. Init => AnalysisInv
    <2> SUFFICES ASSUME Init PROVE AnalysisInv
      OBVIOUS
    <2>1. TypeOK
      BY IdleJob DEF Init, TypeOK
    <2>2. ASSUME NEW j \in Jobs PROVE LinkInv(j) /\ LoneInv(j)
      <3>1. job[j].at = "idle"
        BY IdleJob DEF Init
      <3> QED
        BY <3>1 DEF LinkInv, LoneInv, Analyzing
    <2> QED
      BY <2>1, <2>2 DEF AnalysisInv
  <1>2. AnalysisInv /\ [Next]_vars => AnalysisInv'
    BY MessageAssumption, TypeStep, LinkStep, LoneStep DEF AnalysisInv
  <1> QED
    BY <1>1, <1>2, PTL DEF Spec

\* The fields never hold anything of another type, whoever writes them.
THEOREM FieldsTyped == Spec => []TypeOK
  <1>1. AnalysisInv => TypeOK
    BY DEF AnalysisInv
  <1> QED
    BY <1>1, Analyses, PTL

\* An analysis nothing overlapped with reports its own message, whatever the
\* analyzer was used for before.
THEOREM LoneIsOwn == Spec => []LoneReportIsOwn
  <1>1. AnalysisInv => LoneReportIsOwn
    BY DEF AnalysisInv, LoneInv, LoneReportIsOwn, At
  <1> QED
    BY <1>1, Analyses, PTL

\* An unsubscribe link that names itself is found and listed, whatever other
\* analyses do to the fields meanwhile.
THEOREM KeywordFound == Spec => []KeywordLinkIsFound
  <1>1. ASSUME AnalysisInv, NEW j \in Jobs, At(j, "done"),
               NEW i \in DOMAIN Anchors[job[j].message], Anchors[job[j].message][i] \in Keyword \ Template
        PROVE  job[j].found /\ Holds(job[j].methods, "link")
    <2>1. LinkInv(j) /\ job[j].at = "done" /\ job[j].message \in Messages
      BY <1>1 DEF AnalysisInv, LinkInv, At
    <2>2. Anchors[job[j].message] \in Seq(URLs)
      BY <2>1, MessageAssumption DEF MessageAssumption
    <2>3. i \in 1 .. Len(Anchors[job[j].message])
      BY <2>2
    <2>4. Named(j, Len(Anchors[job[j].message]))
      BY <1>1, <2>3 DEF Named, Anchor
    <2> QED
      BY <2>1, <2>4 DEF LinkInv
  <1>2. AnalysisInv => KeywordLinkIsFound
    BY <1>1 DEF KeywordLinkIsFound
  <1> QED
    BY <1>2, Analyses, PTL
==============================================================================

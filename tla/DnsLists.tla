------------------------------ MODULE DnsLists ------------------------------
(***************************************************************************)
(* pkg/analyzer/rbl.go: the addresses of a message are asked for in the    *)
(* DNS block lists one after the other (CheckEmail); an address given to   *)
(* the API is asked for in all of them at once, by one goroutine per list  *)
(* (CheckIP).  Both are scored by CalculateScore.                          *)
(***************************************************************************)
EXTENDS Grades, Sequences, FiniteSets

CONSTANTS
  Lists,          \* the names of all lists
  Informational,  \* DefaultInformationalRBLs
  DNSWLs          \* Lists of the allow list checker, in order

ASSUME ListAssumption ==
  /\ IsFiniteSet(Informational) /\ Informational \subseteq Lists
  /\ DNSWLs \in Seq(Lists) \ {<< >>}

\* What a lookup comes to: an address of a listing, the address that reports
\* a broken list, no such name, or an error.
Answers == {"listed", "code", "absent", "error"}

VARIABLES
  rbls,       \* Lists of the block list checker: the ones configured, or defaults
  ips,        \* the public addresses found in the message, without duplicates
  block,      \* CheckEmail over the block lists
  allow,      \* CheckEmail over the allow lists
  slots       \* checks of CheckIP: one slot for each goroutine

listVars == <<rbls, ips, block, allow, slots>>

\* A check under way: the address and list to ask for next, and the counts.
Counting == [ip : Nat \ {0}, list : Nat \ {0}, listed : Nat, relevant : Nat]
Unasked == [ip |-> 1, list |-> 1, listed |-> 0, relevant |-> 0]

ListTypeOK ==
  /\ rbls \in Seq(Lists) \ {<< >>}
  /\ ips \in Nat
  /\ block \in Counting /\ allow \in Counting
  /\ slots \in [DOMAIN rbls -> Answers \cup {"pending"}]

ListInit(configured, n) ==
  /\ rbls = configured /\ ips = n
  /\ block = Unasked /\ allow = Unasked
  /\ slots = [i \in DOMAIN configured |-> "pending"]

\* checkIP: only a block list is known to report its own trouble.
Listed(answer, filterErrorCodes) ==
  answer = "listed" \/ (answer = "code" /\ ~filterErrorCodes)

Asked(c) == c.ip > ips

\* One lookup of CheckEmail.  After the last list comes the next address, unless
\* only the first one is asked for.
Step(c, lists, informational, checkAllIPs, hit) ==
  [ip       |-> IF c.list < Len(lists) THEN c.ip
                ELSE IF checkAllIPs THEN c.ip + 1 ELSE ips + 1,
   list     |-> IF c.list < Len(lists) THEN c.list + 1 ELSE 1,
   listed   |-> c.listed + (IF hit THEN 1 ELSE 0),
   relevant |-> c.relevant + (IF hit /\ lists[c.list] \notin informational THEN 1 ELSE 0)]

AskBlockList(checkAllIPs) ==
  /\ ~Asked(block)
  /\ \E answer \in Answers :
       block' = Step(block, rbls, Informational, checkAllIPs, Listed(answer, TRUE))
  /\ UNCHANGED <<rbls, ips, allow, slots>>

AskAllowList(checkAllIPs) ==
  /\ ~Asked(allow)
  /\ \E answer \in Answers :
       allow' = Step(allow, DNSWLs, {}, checkAllIPs, Listed(answer, FALSE))
  /\ UNCHANGED <<rbls, ips, block, slots>>

\* A goroutine of CheckIP writes the slot that is its own.
AnswerSlot(i) ==
  /\ slots[i] = "pending"
  /\ \E answer \in Answers : slots' = [slots EXCEPT ![i] = answer]
  /\ UNCHANGED <<rbls, ips, block, allow>>

\* wg.Wait.
AllAnswered == \A i \in DOMAIN slots : slots[i] # "pending"
ListedSlots == {i \in DOMAIN slots : Listed(slots[i], TRUE)}

-----------------------------------------------------------------------------
\* Every list that is informational is taken for one of the lists in use.
ScoringLists(lists, informational) == Len(lists) - Cardinality(informational)

\* Mutant: the flat penalty is for those without any other listing.
FlatPenaltyAlone(lists, informational, checked, listed, relevant) ==
  IF checked = 0 THEN [score |-> 100, grade |-> NotRun]
  ELSE IF listed = 0 \/ ScoringLists(lists, informational) <= 0
         THEN [score |-> 100, grade |-> "A+"]
  ELSE LET flat == IF listed > 0 /\ relevant = 0 THEN 10 ELSE 0
           left == 100 - (relevant * 100) \div ScoringLists(lists, informational) - flat
           s    == IF left < 0 THEN 0 ELSE left
       IN  [score |-> s, grade |-> Of(s)]

CalculateListScore(lists, informational, checked, listed, relevant) ==
  IF checked = 0 THEN [score |-> 100, grade |-> NotRun]
  ELSE IF listed = 0 \/ ScoringLists(lists, informational) <= 0
         THEN [score |-> 100, grade |-> "A+"]
  ELSE LET flat == IF listed > relevant THEN 10 ELSE 0
           left == 100 - (relevant * 100) \div ScoringLists(lists, informational) - flat
           s    == IF left < 0 THEN 0 ELSE left
       IN  [score |-> s, grade |-> Of(s)]

WhitelistGrade(listed) ==
  IF listed >= ScoringLists(DNSWLs, {}) THEN "A++" ELSE IF listed > 0 THEN "A+" ELSE "A"

BlacklistScore ==
  CalculateListScore(rbls, Informational, ips, block.listed, block.relevant)

\* CheckBlacklistIP hands over the listings without the count of those that matter.
CheckBlacklistIPScore ==
  CalculateListScore(rbls, Informational, 1, Cardinality(ListedSlots), 0)
=============================================================================

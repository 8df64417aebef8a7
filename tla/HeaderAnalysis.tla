--------------------------- MODULE HeaderAnalysis ---------------------------
(***************************************************************************)
(* pkg/analyzer/headers.go and received_inbound.go: which headers a        *)
(* message has, whether the domains it names agree, the score and letter   *)
(* that makes, and the hop of its Received chain through which it came in. *)
(***************************************************************************)
EXTENDS Grades, Sequences, FiniteSets

\* From is a plain address, a no-reply one, or text without a domain.
From == {"plain", "noreply", "text"}

Headers ==
  [from        : From \cup {None},
   date        : BOOLEAN,
   messageID   : {"valid", "invalid", None},   \* two of them are invalid
   to          : BOOLEAN,
   subject     : BOOLEAN,
   replyTo     : BOOLEAN,
   mimeVersion : {"1.0", "other", None},
   returnPath  : Relation \cup {None},
   parts       : BOOLEAN]                         \* a MIME structure was read

\* analyzeDomainAlignment: with no domain to compare, all is well; otherwise the
\* return path or one signature has to agree.  dkim: the domains of the results.
Agrees(h, dkim, accepted) ==
  \/ h.from \notin {"plain", "noreply"}
  \/ h.returnPath = None /\ dkim \cap Relation = {}
  \/ h.returnPath \in accepted
  \/ dkim \cap accepted # {}
Aligned(h, dkim) == Agrees(h, dkim, {"same"})
RelaxedAligned(h, dkim) == Agrees(h, dkim, {"same", "org"})

AlignmentPoints(h, dkim) ==
  CASE Aligned(h, dkim)                                -> 25
    [] ~Aligned(h, dkim) /\ RelaxedAligned(h, dkim)    -> 20
    [] OTHER                                           -> 0

RequiredPresent(h) ==
  Cardinality({x \in {"from", "date", "message-id"} :
                 CASE x = "from" -> h.from # None
                   [] x = "date" -> h.date
                   [] OTHER      -> h.messageID # None})

\* Subject and To, and Reply-To when From takes no answers.
Recommended(h) == {"subject", "to"} \cup (IF h.from = "noreply" THEN {"reply-to"} ELSE {})
RecommendedPresent(h) ==
  Cardinality({x \in Recommended(h) :
                 CASE x = "subject" -> h.subject [] x = "to" -> h.to [] OTHER -> h.replyTo})
AllRecommended(h) == RecommendedPresent(h) = Cardinality(Recommended(h))

HeaderPoints(h, dkim) ==
  AlignmentPoints(h, dkim)
    + 10 * RequiredPresent(h)
    + (RecommendedPresent(h) * 15) \div Cardinality(Recommended(h))
    + (IF h.parts THEN 20 ELSE 0)
    - (IF h.mimeVersion = "other" THEN 5 ELSE 0)
    + (IF h.messageID = "valid" THEN 10 ELSE 0)

\* There is an upper bound in the code, and no lower one.
HeaderScore(h, dkim) == IF HeaderPoints(h, dkim) > 100 THEN 100 ELSE HeaderPoints(h, dkim)

\* A missing required header sets the best grade, forgetting the alignment; what
\* is checked after it takes more away.
MaxGrade(h, dkim) ==
  (IF RequiredPresent(h) < 3 THEN 1 ELSE IF RelaxedAligned(h, dkim) THEN 6 ELSE 4)
    - (IF AllRecommended(h) THEN 0 ELSE 1)
    - (IF h.parts THEN 0 ELSE 1)
    - (IF h.messageID = "valid" THEN 0 ELSE 1)
HeaderGrade(h, dkim) == LetterOf(6 - MaxGrade(h, dkim))

-----------------------------------------------------------------------------
(* InboundHopIndex.  A hop has an address that is public, internal or cannot *)
(* be read (None), and the transport keyword.                             *)
Transport == {"ESMTP", "ESMTPS", "LMTP", "LMTPS"}
Hop ==
  [ip : {"public", "internal", None}, tls : BOOLEAN, with : Transport \cup {None}]

ASSUME HopAssumption == None \notin Transport

LocalDelivery(hop) == hop.with \in {"LMTP", "LMTPS"}
Passed(hop) == LocalDelivery(hop) \/ hop.ip = "internal"

\* 1 stands for the topmost hop; 0 for an empty chain.
InboundHopIndex(chain, source) ==
  LET entries == {i \in DOMAIN chain :
                    /\ ~LocalDelivery(chain[i]) /\ chain[i].ip = "public"
                    /\ \A j \in 1..(i - 1) : Passed(chain[j])}
  IN  IF chain = << >> THEN 0
      ELSE IF source # "uploaded" \/ entries = {} THEN 1
      ELSE CHOOSE i \in entries : TRUE
=============================================================================

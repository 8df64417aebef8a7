------------------------------ MODULE ApiClient ------------------------------
(***************************************************************************)
(* The client of the API that the pages call, generated by openapi-ts, and *)
(* the fetch function the interface configures it with: which request a    *)
(* call sends, and what the page that called gets for an answer.           *)
(*                                                                         *)
(* The body of a Response is a stream: reading it a second time throws.    *)
(***************************************************************************)
EXTENDS Naturals

Operations == {"createTest", "uploadEml", "getTest", "listTests", "getReport", "getRawEmail",
               "reanalyzeReport", "testDomain", "checkBimi", "checkBlacklist", "getStatus"}

-----------------------------------------------------------------------------
(* Requests.                                                               *)

Posts   == {"createTest", "uploadEml", "reanalyzeReport", "testDomain", "checkBimi",
            "checkBlacklist"}
Bodied  == {"uploadEml", "testDomain", "checkBimi", "checkBlacklist"}

\* The Content-Type an operation asks for: "null" takes the default away.
OwnType(op) == CASE op = "uploadEml" -> "null"
                 [] op \in Bodied \ {"uploadEml"} -> "json"
                 [] OTHER -> "unset"

\* mergeHeaders, of one header.
Merged(default, own) == CASE own = "null"  -> "none"
                          [] own = "unset" -> default
                          [] OTHER         -> own

\* A FormData body names its own type when no header does.
ContentType(op) ==
  LET type == IF op \in Bodied THEN Merged("json", OwnType(op)) ELSE "none" IN
  IF type = "none" /\ op = "uploadEml" THEN "form" ELSE type

Sent(op, args) == [method |-> IF op \in Posts THEN "POST" ELSE "GET",
                   op |-> op, args |-> args, type |-> ContentType(op)]

-----------------------------------------------------------------------------
(* Answers.                                                                *)

Response(status, type, body) == [status |-> status, type |-> type, body |-> body, used |-> FALSE]
Refusal(status, code)        == Response(status, "json", [error |-> code, message |-> code])

Threw(text)    == [kind |-> "thrown", text |-> text]
GaveData(d)    == [kind |-> "data", data |-> d]
GaveError(e)   == [kind |-> "error", error |-> e]
NetworkFailure == Threw("network")

\* Every 400 is read, in search of an expired session.
Misread(r)     == r.status = 400 /\ r.type # "json"
Expired(r)     == r.status = 400 /\ r.type = "json" /\ r.body.error = "invalid session"
CustomFetch(r) == [r EXCEPT !.used = @ \/ r.status = 400]

Ok(r)         == r.status \in 200 .. 299
\* getParseAs, and the default where it does not know the type.
ParseAs(type) == CASE type = "html" -> "text" [] type = "none" -> "stream" [] OTHER -> "json"
Readable(r)   == ParseAs(r.type) # "json" \/ r.type = "json"

\* request: what becomes of the response a call gets.
Outcome(response) ==
  LET r == CustomFetch(response) IN
  CASE Misread(response)                  -> Threw("not JSON")
    [] Expired(response)                  -> Threw("session")
    [] Ok(r) /\ Readable(r)               -> GaveData(r.body)
    [] Ok(r) /\ ~Readable(r)              -> Threw("not JSON")
    [] ~Ok(r) /\ r.used /\ ~Misread(response) /\ ~Expired(response) -> Threw("body already read")
    [] OTHER                              -> GaveError(r.body)
===============================================================================

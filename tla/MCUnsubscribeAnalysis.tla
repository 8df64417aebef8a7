------------------------ MODULE MCUnsubscribeAnalysis ------------------------
EXTENDS UnsubscribeAnalysis

\* A newsletter with a one-click header whose link only the header explains, a
\* list with a mail address, one with a web address but without one-click, a
\* personal mail with the newsletter's link, and a broken one: a template nobody
\* filled in and a keyword link.
MCHeader ==
  [m \in Messages |->
     CASE m = "newsletter" -> <<"mailto:leave", "https://x.example/l">>
       [] m = "list"       -> <<"mailto:leave">>
       [] m = "silent"     -> <<"https://x.example/l">>
       [] OTHER            -> << >>]

MCAnchors ==
  [m \in Messages |->
     CASE m = "newsletter" -> <<"https://x.example/l">>
       [] m = "personal"   -> <<"https://x.example/l">>
       [] m = "broken"     -> <<"{unsubscribe}", "https://x.example/optout">>
       [] OTHER            -> << >>]
==============================================================================

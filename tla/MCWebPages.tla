------------------------------ MODULE MCWebPages ------------------------------
EXTENDS WebPages

\* The list shows them the other way round, against their dates.
MCSeeds    == <<"seed4", "seed5">>
MCFiles    == {[from |-> "none", domain |-> "none"]}
MCRefusals == {[status |-> 429, code |-> "rate_limit_exceeded"],
               [status |-> 403, code |-> "feature_disabled"]}
===============================================================================

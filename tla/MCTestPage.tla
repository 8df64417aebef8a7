------------------------------ MODULE MCTestPage ------------------------------
EXTENDS TestPage

MCSeeds == <<"seed4">>

\* A file without a From header, what stands in for it is not in the file, and one
\* without anything.
MCFiles == {[from |-> "none", domain |-> "none"], EmptyFile}
===============================================================================

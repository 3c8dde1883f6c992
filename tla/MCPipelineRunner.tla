--------------------------- MODULE MCPipelineRunner ---------------------------
EXTENDS PipelineRunner

MCBases == {"prod"}

\* "prod" and "prod (2)": the second may collide with a generated suffix.
MCNames == {[base |-> "prod", suffixes |-> <<>>], [base |-> "prod", suffixes |-> <<2>>]}

\* Every await but those of the two exception handlers and the finally clause.
NotInCleanup == InFlight \cup {"matching", "stressing"}
=============================================================================
